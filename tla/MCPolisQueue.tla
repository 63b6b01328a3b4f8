---------------------------- MODULE MCPolisQueue ----------------------------
(* Small instances of PolisQueue for TLC. *)
EXTENDS PolisQueue, TLC

Symmetry ==
  Permutations(Jobs) \cup Permutations(Attempts) \cup Permutations(Keys)
=============================================================================
