--------------------------- MODULE MCSessionStream --------------------------
(* Instances of SessionStream for TLC.                                     *)
EXTENDS SessionStream, TLC

CONSTANTS b1, b2

TwoKinds == {"sessions", "bad"}

TwoBatches == {b1, b2}

BatchSymmetry == Permutations({b1, b2})
=============================================================================
