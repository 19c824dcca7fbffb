---------------------------- MODULE MCWritePath -----------------------------
(* WritePath on a small instance: messages longer than what the socket      *)
(* takes at a time.                                                         *)
EXTENDS WritePath

CONSTANTS m1, m2, m3
=============================================================================
