---------------------------- MODULE MCDelphiJobs ----------------------------
(* Small instances of DelphiJobs for TLC. *)
EXTENDS DelphiJobs, TLC

Symmetry == Permutations(Jobs) \cup Permutations(Attempts)
              \cup Permutations(Keys) \cup Permutations(Requests)
              \cup Permutations(Products) \cup Permutations(Images)
=============================================================================
