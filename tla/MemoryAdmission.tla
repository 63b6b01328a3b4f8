-------------------------- MODULE MemoryAdmission --------------------------
(***************************************************************************)
(* polismath.poller.admission.MemoryAdmission, with the workers of the     *)
(* service that hold, reserve, compute, remember and release, and the      *)
(* backfill jobs beside them.                                              *)
(*                                                                         *)
(* A worker of a conversation looks its cached object up and holds it,     *)
(* reserves what the computation adds, waiting first in first out, caches  *)
(* the new object in place of the old one, lets the old one go and         *)
(* releases.  A backfill job does not wait, holds and caches nothing.      *)
(* Sizes are in units above the base of the process; the accountant is one *)
(* without a reader of the resident set size, which could only raise the   *)
(* charge.                                                                 *)
(*                                                                         *)
(* A definition whose comment starts with "Slip:" is wrong on purpose: it  *)
(* is put in the place of the one after it to see a property fail.         *)
(***************************************************************************)
EXTENDS Naturals, Sequences, FiniteSets, SequencesExt

CONSTANTS
  Zids,
  Capacity,      \* compute_capacity_bytes: the budget above the base
  CacheBudget,   \* cache_budget_bytes
  CacheCap,      \* conv_cache_cap, 0 for none
  Sizes,         \* of computations, and of the objects they make
  Exclusive,     \* whether a backfill job may be a large one
  MaxFailures    \* bound on failures, refusals at once and dropped entries

ASSUME AdmissionAssumption ==
  /\ IsFiniteSet(Zids)
  /\ Capacity \in Nat /\ CacheBudget \in Nat /\ CacheCap \in Nat
  /\ Sizes \subseteq Nat \ {0}
  /\ Exclusive \subseteq BOOLEAN /\ MaxFailures \in Nat

VARIABLES
  cached,    \* _convs: the size of the cached object, 0 for none
  retained,  \* _retained: what the cache is charged for it
  detached,  \* _detached
  held,      \* _holds: the conversations whose object a worker holds
  waiters,   \* _waiters, by conversation: a conversation has one worker
  granted,   \* _granted, by conversation
  job,       \* the worker of each conversation
  failures

avars == <<cached, retained, detached, held, waiters, granted, job, failures>>

Idle == [at |-> "idle", live |-> TRUE, object |-> 0, need |-> 0,
         exclusive |-> FALSE, short |-> 0, protect |-> {}]

AdmissionInit ==
  /\ cached = [z \in Zids |-> 0]
  /\ retained = [z \in Zids |-> 0]
  /\ detached = {}
  /\ held = {}
  /\ waiters = <<>>
  /\ granted = {}
  /\ job = [z \in Zids |-> Idle]
  /\ failures = 0

Total(f, S) == SumFunctionOnSet(f, S)
retained_total == Total(retained, Zids)
Needs == [z \in Zids |-> job[z].need]
Used == retained_total + Total(Needs, granted)
Shortfall(n) == Used + n - Capacity   \* meant where Used + n > Capacity

-----------------------------------------------------------------------------
(* The accounting of the cache and of held objects                         *)

\* Slip: a dropped entry is not charged, held or not.
drop_held_or_not(r, d, S) ==
  /\ retained' = [z \in Zids |-> IF z \in S THEN 0 ELSE r[z]]
  /\ detached' = d \ S

\* drop_retained of every conversation in S, on the charges r and the detached d:
\* the charge of a held one stays until its worker lets it go.
drop_retained(r, d, S) ==
  /\ retained' = [z \in Zids |-> IF z \in S \ held THEN 0 ELSE r[z]]
  /\ detached' = d \cup {z \in S \cap held : r[z] > 0}

\* Slip: what was evicted under the worker stays charged.
unhold_only(z) == held' = held \ {z} /\ UNCHANGED <<detached, retained>>

\* unhold, of a conversation that is held.
unhold(z) ==
  /\ held' = held \ {z}
  /\ detached' = detached \ {z}
  /\ retained' = IF z \in detached THEN [retained EXCEPT ![z] = 0] ELSE retained

\* unhold where nothing may be held: a cold computation, a backfill job.
let_go(z) == IF z \in held THEN unhold(z) ELSE UNCHANGED <<held, detached, retained>>

-----------------------------------------------------------------------------
(* _run_engine up to the reservation                                       *)

at(z, place) == job' = [job EXCEPT ![z].at = place]

\* The lookup holds the cached object; a rebuild looks nothing up.
Lookup(z) ==
  /\ job[z].at = "idle"
  /\ \/ /\ cached[z] > 0
        /\ held' = held \cup {z}
        /\ job' = [job EXCEPT ![z] = [Idle EXCEPT !.at = "looked", !.object = cached[z]]]
     \/ /\ job' = [job EXCEPT ![z] = [Idle EXCEPT !.at = "looked"]]
        /\ UNCHANGED held
  /\ UNCHANGED <<cached, retained, detached, waiters, granted, failures>>

BackfillJob(z) ==
  /\ job[z].at = "idle"
  /\ \E x \in Exclusive :
       job' = [job EXCEPT ![z] =
         [Idle EXCEPT !.at = "looked", !.live = FALSE, !.exclusive = x]]
  /\ UNCHANGED <<cached, retained, detached, held, waiters, granted, failures>>

impossible(z, n) == retained[z] + n > Capacity

\* What a reservation that is not granted leaves behind.
give_up(z) ==
  /\ let_go(z)
  /\ waiters' = RemoveFirst(waiters, z)
  /\ job' = [job EXCEPT ![z] = Idle]

\* reserve: refused at once, or in line.  The estimate is assumed to cover the
\* object that the computation will keep; conversations only grow.  Refused work
\* is retried RetryCap times, then parked: refusals count as failures.
Reserve(z, n) ==
  /\ job[z].at = "looked"
  /\ n >= job[z].object /\ n >= cached[z]
  /\ IF impossible(z, n)
       THEN /\ give_up(z)
            /\ failures < MaxFailures
            /\ failures' = failures + 1
       ELSE /\ waiters' = Append(waiters, z)
            /\ job' = [job EXCEPT ![z].at = "try", ![z].need = n]
            /\ UNCHANGED <<held, detached, retained, failures>>
  /\ UNCHANGED <<cached, granted>>

-----------------------------------------------------------------------------
(* reserve, in line                                                        *)

first(z) == Head(waiters) = z
alone(z) == /\ \A g \in granted : ~job[g].exclusive
            /\ job[z].exclusive => granted = {}
fits(z) == Used + job[z].need <= Capacity
protected(z) == granted \cup {z} \cup held

grantable(z) == first(z) /\ alone(z) /\ fits(z)

\* The ticket leaves the line with the grant.
Grant(z) ==
  /\ job[z].at = "try"
  /\ grantable(z)
  /\ granted' = granted \cup {z}
  /\ waiters' = RemoveFirst(waiters, z)
  /\ at(z, "compute")
  /\ UNCHANGED <<cached, retained, detached, held, failures>>

\* Not now.  The first in line may evict, on what it saw under the lock.
Blocked(z) ==
  /\ job[z].at = "try"
  /\ ~grantable(z)
  /\ IF first(z) /\ alone(z) /\ (\E y \in Zids \ protected(z) : retained[y] > 0)
       THEN job' = [job EXCEPT ![z].at = "evict", ![z].short = Shortfall(job[z].need),
                               ![z].protect = protected(z)]
       ELSE at(z, "again")
  /\ UNCHANGED <<cached, retained, detached, held, waiters, granted, failures>>

\* _evict_for_admission, with only the cache lock: the coldest first, which is
\* any order here, until enough is freed.
Evict(z) ==
  /\ job[z].at = "evict"
  /\ LET open == {y \in Zids \ (job[z].protect \cup held) : cached[y] > 0}
         enough(S) == Total(retained, S) >= job[z].short
     IN  \E S \in SUBSET open :
           /\ enough(S) \/ S = open
           /\ S # {} => \E y \in S : ~enough(S \ {y})
           /\ cached' = [y \in Zids |-> IF y \in S THEN 0 ELSE cached[y]]
           /\ drop_retained(retained, detached, S)
           /\ job' = [job EXCEPT ![z].short = 0, ![z].protect = {},
                ![z].at = IF \E y \in S : retained[y] > 0 THEN "try" ELSE "again"]
  /\ UNCHANGED <<held, waiters, granted, failures>>

\* Slip: what other waiters hold might still be let go.
stuck_but_for_held(z) ==
  /\ granted = {}
  /\ first(z)
  /\ ~fits(z)
  /\ \A y \in Zids \ (granted \cup {z}) : retained[y] = 0

\* Nothing is left to release or to evict.
stuck(z) ==
  /\ granted = {}
  /\ first(z)
  /\ ~fits(z)
  /\ \A y \in Zids \ protected(z) : retained[y] = 0

\* The second look: it could be granted now, or it is refused, or a backfill job
\* is deferred.  The others sleep and look again, whatever wakes them.
Again(z) ==
  /\ job[z].at = "again"
  /\ IF ~grantable(z) /\ (stuck(z) \/ ~job[z].live)
       THEN give_up(z)
       ELSE at(z, "try") /\ UNCHANGED <<held, detached, retained, waiters>>
  /\ UNCHANGED <<cached, granted, failures>>

-----------------------------------------------------------------------------
(* _run_engine with the reservation, and run_job of a backfill             *)

\* _remember: the new object takes the place of the old one, and colder ones
\* leave the cache while it is too full.
over_cache(c, r) ==
  LET here == {y \in Zids : c[y] > 0}
  IN  /\ Cardinality(here) > 1
      /\ \/ CacheCap > 0 /\ Cardinality(here) > CacheCap
         \/ Total(r, Zids) > CacheBudget
without(f, S) == [y \in Zids |-> IF y \in S THEN 0 ELSE f[y]]

Remember(z, n) ==
  /\ job[z].at = "compute"
  /\ job[z].live
  /\ n >= job[z].object /\ n >= cached[z]
  /\ n <= job[z].need
  /\ LET c == [cached EXCEPT ![z] = n]
         r == [retained EXCEPT ![z] = n]
     IN  \E S \in SUBSET {y \in Zids \ {z} : c[y] > 0} :
           /\ ~over_cache(without(c, S), without(r, S \ held))
           /\ S # {} => \E y \in S : over_cache(without(c, S \ {y}), without(r, (S \ {y}) \ held))
           /\ cached' = without(c, S)
           /\ drop_retained(r, detached \ {z}, S)
  /\ at(z, "cached")
  /\ UNCHANGED <<held, waiters, granted, failures>>

\* conv = None, then unhold, then release.
LetGo(z) ==
  /\ job[z].at = "cached"
  /\ let_go(z)
  /\ job' = [job EXCEPT ![z].at = "unheld", ![z].object = 0]
  /\ UNCHANGED <<cached, waiters, granted, failures>>

release(z) == granted' = granted \ {z}

Release(z) ==
  /\ job[z].at = "unheld" \/ (job[z].at = "compute" /\ ~job[z].live)
  /\ release(z)
  /\ job' = [job EXCEPT ![z] = Idle]
  /\ UNCHANGED <<cached, retained, detached, held, waiters, failures>>

\* A computation or its write fails: unhold and release.  The traceback keeps
\* the frame of _compute_and_publish, and with it the object, until the error is
\* handled.
Fail(z) ==
  /\ job[z].at = "compute"
  /\ job[z].live
  /\ failures < MaxFailures
  /\ failures' = failures + 1
  /\ let_go(z)
  /\ release(z)
  /\ job' = [job EXCEPT ![z].at = "handling", ![z].need = 0]
  /\ UNCHANGED <<cached, waiters>>

\* _on_engine_error returns.
Handled(z) ==
  /\ job[z].at = "handling"
  /\ job' = [job EXCEPT ![z] = Idle]
  /\ UNCHANGED <<cached, retained, detached, held, waiters, granted, failures>>

\* _cache_drop, from a poll or from the capacity loop, held or not.
Drop(z) ==
  /\ cached[z] > 0
  /\ failures < MaxFailures
  /\ failures' = failures + 1
  /\ cached' = [cached EXCEPT ![z] = 0]
  /\ drop_retained(retained, detached, {z})
  /\ UNCHANGED <<held, waiters, granted, job>>

-----------------------------------------------------------------------------
Proceed(z) ==
  \/ \E n \in Sizes : Reserve(z, n) \/ Remember(z, n)
  \/ Grant(z) \/ Blocked(z) \/ Evict(z) \/ Again(z)
  \/ LetGo(z) \/ Release(z) \/ Handled(z)

AdmissionNext ==
  \E z \in Zids : Lookup(z) \/ BackfillJob(z) \/ Proceed(z) \/ Fail(z) \/ Drop(z)

\* Every worker goes on; new work need not come.
AdmissionSpec ==
  AdmissionInit /\ [][AdmissionNext]_avars /\ \A z \in Zids : WF_avars(Proceed(z))

-----------------------------------------------------------------------------
(* Properties                                                              *)

\* What the process really needs for a conversation: the object its worker
\* refers to, or the cached one; and while it computes and until it has let go,
\* what the computation adds, its new object included.
Handling(z) == job[z].at = "handling"
Object(z) == IF job[z].object > 0 /\ ~Handling(z) THEN job[z].object
             ELSE IF job[z].at = "cached" THEN 0 ELSE cached[z]
Real == [z \in Zids |->
  IF job[z].at \in {"compute", "cached"} THEN Object(z) + job[z].need ELSE Object(z)]

\* The memory in use never exceeds the budget, whatever is evicted, dropped,
\* replaced or released in between; errors being handled apart.
MemoryFits == Total(Real, Zids) <= Capacity

\* A charge without a cached object or a worker that holds one would never go.
NoChargeIsLeft ==
  \A z \in Zids : retained[z] > 0 => cached[z] > 0 \/ z \in held

\* Every reservation is granted, refused or deferred in the end.
NobodyWaitsForEver ==
  \A z \in Zids : (job[z].at = "try") ~> (job[z].at \in {"compute", "idle"})
=============================================================================
