---------------------------- MODULE MCAckTracker ----------------------------
(* AckTracker on a small instance.                                          *)
EXTENDS AckTracker, TLC

CONSTANTS f1, f2, alice, bob, m1, m2

\* Descriptors, names and ids are interchangeable.
Symmetry == Permutations(Fds) \cup Permutations(Users) \cup Permutations(Ids)
=============================================================================
