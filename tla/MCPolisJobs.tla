---------------------------- MODULE MCPolisJobs ----------------------------
(* Small instances of PolisJobs for TLC. *)
EXTENDS PolisJobs, TLC

Symmetry == Permutations(Jobs) \cup Permutations(Attempts)
              \cup Permutations(Keys) \cup Permutations(Daemons)
=============================================================================
