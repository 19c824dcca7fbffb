--------------------------- MODULE MCGroupManager ---------------------------
(* GroupManager on a small instance; gateways and users are symmetric.      *)
EXTENDS GroupManager, TLC

Symmetry == Permutations(Gateways) \cup Permutations(Users)
=============================================================================
