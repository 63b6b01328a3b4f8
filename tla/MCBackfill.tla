----------------------------- MODULE MCBackfill -----------------------------
(* Instances of Backfill for TLC. *)
EXTENDS Backfill, TLC

CONSTANTS z1, z2

InOrder == <<z1, z2>>
=============================================================================
