------------------------------ MODULE MCLogTail -----------------------------
(* Instances of LogTail for TLC.                                           *)
EXTENDS LogTail

(* Two lines of one byte, written whole.                                   *)
ShortLines == {2, 4}

(* A blank line and one of two bytes, caught after its first byte.         *)
BlankFirst == {1, 4}
HalfWritten == {2, 4}
=============================================================================
