------------------------------ MODULE MCAccess -----------------------------
(* Instances of Access for TLC: two logins, two users, one of whom has to  *)
(* sign up first.                                                          *)
EXTENDS Access

CONSTANTS u1, u2, l1, l2, k1, b1, b2, c1, c2
============================================================================
