----------------------------- MODULE JobLedger -----------------------------
(***************************************************************************)
(* What the Postgres job queue promises its producers and its readers,     *)
(* with no attempts, leases, budgets or workers in sight:                  *)
(*                                                                         *)
(*   - a request slot (actor, product, request key) is bound to one job    *)
(*     for good, and every job belongs to one slot;                        *)
(*   - a job is pending until it settles, once, as succeeded, dead or      *)
(*     cancelled;                                                          *)
(*   - a product's reader sees the newest requested job that succeeded     *)
(*     while it was still the newest requested one, and nothing else.      *)
(*                                                                         *)
(* PolisQueue is the queue of migration 000019 in full and is shown to     *)
(* implement this module.                                                  *)
(***************************************************************************)
CONSTANTS Jobs, Products, Keys, None

VARIABLES
  bound,      \* the job each request slot stands for, or None
  phase,      \* where each job is in its life
  desired,    \* the newest job requested of each product, or None
  published   \* the job whose output a reader of the product sees, or None

vars == <<bound, phase, desired, published>>

Settled == {"succeeded", "dead", "cancelled"}

Init ==
  /\ bound = [s \in Products \X Keys |-> None]
  /\ phase = [j \in Jobs |-> "absent"]
  /\ desired = [p \in Products |-> None]
  /\ published = [p \in Products |-> None]

\* A first call for a slot makes a job and makes it the product's desired one.
Request(p, k, j) ==
  /\ bound[<<p, k>>] = None
  /\ phase[j] = "absent"
  /\ bound' = [bound EXCEPT ![<<p, k>>] = j]
  /\ phase' = [phase EXCEPT ![j] = "pending"]
  /\ desired' = [desired EXCEPT ![p] = j]
  /\ UNCHANGED published

\* A pending job settles; a success is shown to the readers of every product
\* (there is at most one) that still wants this very job.
Settle(j, outcome) ==
  /\ phase[j] = "pending"
  /\ phase' = [phase EXCEPT ![j] = outcome]
  /\ published' = [p \in Products |->
       IF outcome = "succeeded" /\ desired[p] = j THEN j ELSE published[p]]
  /\ UNCHANGED <<bound, desired>>

Next ==
  \/ \E p \in Products, k \in Keys, j \in Jobs : Request(p, k, j)
  \/ \E j \in Jobs, outcome \in Settled : Settle(j, outcome)

Spec == Init /\ [][Next]_vars
=============================================================================
