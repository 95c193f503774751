----------------------------- MODULE MCLogFlush -----------------------------
(* Instances of LogFlush for TLC.                                          *)
EXTENDS LogFlush, TLC

CONSTANTS pA, pB, claude, codex, ticker, request

TwoProjects == {pA, pB}
OneProject == {pA}
OneProvider == {claude}
NoRequest == {}
TheTicker == {ticker}
TheRequest == {request}

ProjectSymmetry == Permutations({pA, pB})
=============================================================================
