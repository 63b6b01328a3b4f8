----------------------------- MODULE PolisQueue -----------------------------
(***************************************************************************)
(* The polis-queue/1 database: the tables and the pq_* functions of        *)
(* server/postgres/migrations/000019_create_polis_queue.sql.               *)
(*                                                                         *)
(* Every pq_* function locks the rows it reads before it decides and runs  *)
(* in one transaction, so each call is one atomic action here.  Callers    *)
(* are open: an attempt's token may be presented again at any later time,  *)
(* by a worker that lost its reply, was paused, or is retrying.  Calls     *)
(* that change nothing (fenced, conflict, existing, already_succeeded,     *)
(* invalid_output, none) are stuttering steps; NoopExecutor gives them     *)
(* their replies.                                                          *)
(*                                                                         *)
(* Abstractions.  A run and its only job share one identity, the job's.    *)
(* A token (owner, attempt, epoch) is named by its attempt: owner_id is    *)
(* minted with attempt_id by one process and stored with it, so it adds    *)
(* nothing to the comparison.  Clocks are time left: lease is the ticks    *)
(* until locked_until and wait the ticks until eligible_at, 0 meaning the  *)
(* instant has passed.  The claim's ORDER BY is any order, because FOR     *)
(* UPDATE SKIP LOCKED may pass over any row another session holds.         *)
(***************************************************************************)
EXTENDS Integers

CONSTANTS
  Jobs,         \* job (and run) identities a producer may mint
  Products,     \* product keys, each with its head row
  Keys,         \* (actor scope, request key) pairs
  Digests,      \* request digests a key may arrive with
  Attempts,     \* attempt identities a worker may mint
  MaxAttempts,  \* max_attempts of every job
  LeaseTicks,   \* p_lease_seconds in ticks
  WaitTicks,    \* the longest backoff in ticks
  None          \* SQL NULL

ASSUME ConstantsAssumption ==
  /\ MaxAttempts \in Nat \ {0}
  /\ LeaseTicks \in Nat \ {0}
  /\ WaitTicks \in Nat \ {0}
  /\ None \notin Jobs \cup Attempts

VARIABLES
  request,   \* polis_queue_requests
  head,      \* polis_queue_heads
  run,       \* polis_queue_runs
  job,       \* polis_queue_jobs
  attempt    \* polis_queue_attempts

vars == <<request, head, run, job, attempt>>

Waiting   == {"queued", "retry_wait"}
Terminal  == {"succeeded", "dead", "cancelled"}
JobStates == Waiting \cup Terminal \cup {"absent", "running", "parked"}
Outcomes  == {"absent", "running", "succeeded", "retry_wait", "parked",
              "dead", "cancelled", "expired"}

RequestRow == [digest : Digests \cup {None}, job : Jobs \cup {None}]
HeadRow ==
  [requested : Nat, desired : Jobs \cup {None},
   published : Jobs \cup {None}, generation : Nat]
RunRow ==
  [product : Products \cup {None}, generation : Nat,
   state : Terminal \cup {"absent", "pending"}]
JobRow ==
  [state : JobStates, count : Nat, parked : Nat, epoch : Nat, mgmt : Nat,
   attempt : Attempts \cup {None}, terminal : Attempts \cup {None},
   lease : 0..LeaseTicks, wait : 0..WaitTicks]
AttemptRow == [job : Jobs \cup {None}, epoch : Nat, outcome : Outcomes]

Init ==
  /\ request = [s \in Products \X Keys |-> [digest |-> None, job |-> None]]
  /\ head = [p \in Products |-> [requested |-> 0, desired |-> None,
                                 published |-> None, generation |-> 0]]
  /\ run = [j \in Jobs |->
       [product |-> None, generation |-> 0, state |-> "absent"]]
  /\ job = [j \in Jobs |->
       [state |-> "absent", count |-> 0, parked |-> 0, epoch |-> 0, mgmt |-> 0,
        attempt |-> None, terminal |-> None, lease |-> 0, wait |-> 0]]
  /\ attempt = [a \in Attempts |->
       [job |-> None, epoch |-> 0, outcome |-> "absent"]]

-----------------------------------------------------------------------------
(* Helpers of the SQL functions.  A definition whose name ends in what goes *)
(* wrong is a slip that the function after it does not make; TLC is run     *)
(* with each in place of the function to show what a property would catch.  *)

Claimed(a) == attempt[a].outcome # "absent"

\* attempts that count against the job's budget
Spent(j) == job[j].count - job[j].parked

\* The ownership test of every worker call: a running job, this very attempt
\* and epoch, and a lease that has not expired.
pq_owns(a) ==
  LET j == attempt[a].job IN
  /\ job[j].state = "running"
  /\ job[j].attempt = a
  /\ job[j].epoch = attempt[a].epoch
  /\ job[j].lease > 0

publish_newer_than_shown(j) ==
  run[j].generation >= head[run[j].product].generation

\* The publication policy: only the run the head still asks for.
pq_publish_allowed(j) ==
  LET h == head[run[j].product] IN
  /\ h.desired = j
  /\ h.requested = run[j].generation
  /\ run[j].generation >= h.generation

ended_in_unknown_state(j) == IF Spent(j) >= MaxAttempts THEN "dead" ELSE "failed"

ended_off_by_one(j) == IF Spent(j) > MaxAttempts THEN "dead" ELSE "retry_wait"

\* What a job becomes when an attempt ends without success.
ended(j) == IF Spent(j) >= MaxAttempts THEN "dead" ELSE "retry_wait"

run_left_pending(j, s) == run

\* The run dies with its job.
run_after(j, s) == IF s = "dead" THEN [run EXCEPT ![j].state = "dead"] ELSE run

\* An attempt ends without success.  The job loses its owner and gains an
\* epoch, so no token of an earlier claim fits it again; its next try is due
\* after one of the given waits; refunded attempts cost no budget.
terminate(a, s, outcome, waits, refunded) ==
  LET j == attempt[a].job IN
  /\ attempt' = [attempt EXCEPT ![a].outcome = outcome]
  /\ \E w \in waits :
       job' = [job EXCEPT ![j].state = s, ![j].terminal = a,
         ![j].attempt = None, ![j].lease = 0, ![j].epoch = @ + 1,
         ![j].mgmt = @ + 1, ![j].wait = w,
         ![j].parked = IF refunded THEN @ + 1 ELSE @]
  /\ run' = run_after(j, s)
  /\ UNCHANGED <<request, head>>

\* The one place that does it.  (The backoff of a dead job is never read; it
\* is left out.)
pq_terminate_attempt(a, s, outcome, immediate) ==
  terminate(a, s, outcome,
            IF immediate \/ s = "dead" THEN {0} ELSE 1..WaitTicks, s = "parked")

\* Attempt, job and run succeed together.  The epoch stays: the replay test of
\* a lost reply needs the token to fit.
succeed(a) ==
  LET j == attempt[a].job IN
  /\ attempt' = [attempt EXCEPT ![a].outcome = "succeeded"]
  /\ job' = [job EXCEPT ![j].state = "succeeded", ![j].terminal = a,
       ![j].attempt = None, ![j].lease = 0, ![j].mgmt = @ + 1]
  /\ run' = [run EXCEPT ![j].state = "succeeded"]
  /\ UNCHANGED request

-----------------------------------------------------------------------------
(* The functions granted to the executor role, one action each.            *)

\* Enqueue under a key not seen before: the request row, the run, the job and
\* the head's desired run change together.  A key already bound answers
\* existing or conflict by its digest and changes nothing.
pq_enqueue(p, k, d, j) ==
  LET g == head[p].requested + 1 IN
  /\ request[<<p, k>>].job = None
  /\ job[j].state = "absent"
  /\ request' = [request EXCEPT ![<<p, k>>] = [digest |-> d, job |-> j]]
  /\ head' = [head EXCEPT ![p].requested = g, ![p].desired = j]
  /\ run' = [run EXCEPT
       ![j] = [product |-> p, generation |-> g, state |-> "pending"]]
  /\ job' = [job EXCEPT ![j].state = "queued"]
  /\ UNCHANGED attempt

claimable_when_expired(j) ==
  /\ job[j].state \in Waiting \cup {"running"}
  /\ job[j].wait = 0 /\ job[j].lease = 0
  /\ Spent(j) < MaxAttempts

\* The candidate rows of pq_claim: due, waiting, with budget left.
claimable(j) ==
  /\ job[j].state \in Waiting
  /\ job[j].wait = 0
  /\ Spent(j) < MaxAttempts

epoch_from_budget(j) == Spent(j) + 1

\* The epoch a claim takes.
claim_epoch(j) == job[j].epoch + 1

\* Claim a job for a newly minted attempt.
pq_claim(j, a) ==
  /\ claimable(j)
  /\ ~Claimed(a)
  /\ job' = [job EXCEPT ![j].state = "running", ![j].attempt = a,
       ![j].lease = LeaseTicks, ![j].epoch = claim_epoch(j),
       ![j].mgmt = @ + 1, ![j].count = @ + 1]
  /\ attempt' = [attempt EXCEPT
       ![a] = [job |-> j, epoch |-> claim_epoch(j), outcome |-> "running"]]
  /\ UNCHANGED <<request, head, run>>

heartbeat_revives_expired(a) ==
  /\ Claimed(a)
  /\ job[attempt[a].job].attempt = a
  /\ job' = [job EXCEPT ![attempt[a].job].lease = LeaseTicks]
  /\ UNCHANGED <<request, head, run, attempt>>

\* Renew an unexpired lease.
pq_heartbeat(a) ==
  /\ Claimed(a)
  /\ pq_owns(a)
  /\ job' = [job EXCEPT ![attempt[a].job].lease = LeaseTicks]
  /\ UNCHANGED <<request, head, run, attempt>>

\* Record the expected output, and move the head if the policy allows it.
pq_finalize(a) ==
  LET j == attempt[a].job
      p == run[j].product
  IN
  /\ Claimed(a)
  /\ pq_owns(a)
  /\ succeed(a)
  /\ head' = IF pq_publish_allowed(j)
             THEN [head EXCEPT ![p].published = j,
                               ![p].generation = run[j].generation]
             ELSE head

\* pq_fail (permanent or not), pq_release and pq_park, by the action name.
pq_end_attempt(a, action) ==
  /\ Claimed(a)
  /\ pq_owns(a)
  /\ LET s == CASE action = "park" -> "parked"
                [] action = "permanent" -> "dead"
                [] OTHER -> ended(attempt[a].job)
     IN pq_terminate_attempt(a, s, s, action = "release")

reap_without_recheck(j) ==
  /\ job[j].state = "running"
  /\ pq_terminate_attempt(job[j].attempt, ended(j), "expired", FALSE)

\* The reaper ends an attempt whose lease has expired.
reap_expired(j) ==
  /\ job[j].state = "running"
  /\ job[j].lease = 0
  /\ pq_terminate_attempt(job[j].attempt, ended(j), "expired", FALSE)

unpark_on_a_spent_budget(j) ==
  /\ job[j].state = "parked"
  /\ job[j].wait = 0
  /\ job' = [job EXCEPT ![j].state = "queued", ![j].mgmt = @ + 1]
  /\ UNCHANGED <<request, head, run, attempt>>

\* The reaper returns a due parked job to the queue, or declares it dead.
reap_parked(j) ==
  LET s == IF Spent(j) >= MaxAttempts THEN "dead" ELSE "queued" IN
  /\ job[j].state = "parked"
  /\ job[j].wait = 0
  /\ job' = [job EXCEPT ![j].state = s, ![j].mgmt = @ + 1]
  /\ run' = run_after(j, s)
  /\ UNCHANGED <<request, head, attempt>>

\* pq_reap_one has a third branch, for a waiting job whose budget is spent.
\* BudgetLeft says no such job exists, so the branch is never taken.
pq_reap_one(j) == reap_expired(j) \/ reap_parked(j)

cancel_admits_any_version(j, v) == job[j].state \notin Terminal \cup {"absent"}

cancel_admits_terminal(j, v) == job[j].state # "absent" /\ job[j].mgmt = v

\* A live job, unchanged since its version was read.
cancel_admits(j, v) ==
  /\ job[j].state \notin Terminal \cup {"absent"}
  /\ job[j].mgmt = v

\* Management cancels a job by the version it read.  (A settled job's
\* eligible_at is never read again; its wait is set to 0.)
pq_cancel(j, v) ==
  /\ cancel_admits(j, v)
  /\ attempt' = IF job[j].attempt = None THEN attempt
                ELSE [attempt EXCEPT ![job[j].attempt].outcome = "cancelled"]
  /\ job' = [job EXCEPT ![j].state = "cancelled",
       ![j].terminal = IF job[j].attempt = None THEN @ ELSE job[j].attempt,
       ![j].attempt = None, ![j].lease = 0, ![j].wait = 0,
       ![j].epoch = @ + 1, ![j].mgmt = @ + 1]
  /\ run' = [run EXCEPT ![j].state = "cancelled"]
  /\ UNCHANGED <<request, head>>

\* One tick of the database clock.
Tick ==
  /\ \E j \in Jobs : job[j].lease > 0 \/ job[j].wait > 0
  /\ job' = [j \in Jobs |-> [job[j] EXCEPT
       !.lease = IF @ > 0 THEN @ - 1 ELSE 0,
       !.wait = IF @ > 0 THEN @ - 1 ELSE 0]]
  /\ UNCHANGED <<request, head, run, attempt>>

WorkerCall(a) ==
  \/ pq_heartbeat(a)
  \/ pq_finalize(a)
  \/ \E action \in {"retry", "permanent", "release", "park"} :
       pq_end_attempt(a, action)

Next ==
  \/ \E p \in Products, k \in Keys, d \in Digests, j \in Jobs :
       pq_enqueue(p, k, d, j)
  \/ \E j \in Jobs, a \in Attempts : pq_claim(j, a)
  \/ \E a \in Attempts : WorkerCall(a)
  \/ \E j \in Jobs : pq_reap_one(j)
  \/ \E j \in Jobs : pq_cancel(j, job[j].mgmt)
  \/ Tick

Spec == Init /\ [][Next]_vars

-----------------------------------------------------------------------------
(* Safety.                                                                 *)

\* Every row has the columns and the ranges its table declares.
TypeOK ==
  /\ request \in [Products \X Keys -> RequestRow]
  /\ head \in [Products -> HeadRow]
  /\ run \in [Jobs -> RunRow]
  /\ job \in [Jobs -> JobRow]
  /\ attempt \in [Attempts -> AttemptRow]

\* A job is owned by exactly one attempt, the only attempt of it still open,
\* and under the attempt's own epoch: two workers can never both pass pq_owns
\* for one job, whatever they replay (pq_claim, pq_terminate_attempt).
SingleOwner ==
  /\ \A a \in Attempts : attempt[a].outcome = "running" =>
       LET j == attempt[a].job IN
       job[j].state = "running" /\ job[j].attempt = a
         /\ job[j].epoch = attempt[a].epoch
  /\ \A j \in Jobs : job[j].state = "running" =>
       job[j].attempt # None /\ attempt[job[j].attempt].outcome = "running"

\* Attempts of one job have different epochs, none of them ahead of the job:
\* an epoch names one ownership, and UNIQUE(env, job_id, lease_epoch) never
\* makes a claim fail.
EpochsOrdered ==
  /\ \A a, b \in Attempts :
       Claimed(a) /\ Claimed(b) /\ attempt[a].job = attempt[b].job /\ a # b
         => attempt[a].epoch # attempt[b].epoch
  /\ \A a \in Attempts :
       Claimed(a) => attempt[a].epoch <= job[attempt[a].job].epoch

\* A job succeeded if and only if one attempt of it did, and that attempt is
\* its terminal one: a success is never lent to another attempt or forgotten
\* by a later ending (pq_finalize against pq_reap_one and pq_cancel).
SuccessHasOneAttempt ==
  \A j \in Jobs, a \in Attempts : attempt[a].job = j =>
    (attempt[a].outcome = "succeeded"
       <=> job[j].state = "succeeded" /\ job[j].terminal = a)

\* The run tells the same story as its job, however the job ended.
RunMirrorsJob ==
  \A j \in Jobs :
    run[j].state = IF job[j].state \in Terminal \cup {"absent"}
                   THEN job[j].state ELSE "pending"

\* A head always shows the desired run once it has succeeded, and shows only
\* succeeded runs, of its own product and no newer than what was requested:
\* an old run that finishes late never hides or replaces a newer one.
HeadShowsDesired ==
  \A p \in Products :
    LET h == head[p] IN
    /\ h.desired # None /\ run[h.desired].state = "succeeded"
         => h.published = h.desired
    /\ h.published # None =>
         /\ run[h.published].state = "succeeded"
         /\ run[h.published].product = p
         /\ run[h.published].generation = h.generation
         /\ h.generation <= h.requested

\* The CHECK on the attempt budget holds, and every job that waits for a claim
\* still has budget for it: no job waits for a claim that can never come.
BudgetLeft ==
  \A j \in Jobs :
    /\ job[j].parked <= job[j].count /\ Spent(j) <= MaxAttempts
    /\ job[j].state \in Waiting => Spent(j) < MaxAttempts

\* The rows point at each other as the foreign keys and the columns' meanings
\* require: a claimed attempt at an enqueued job; a running job, and no other,
\* at an attempt of its own, which has spent budget; a head at the run it
\* asked for last.  Every function that follows such a pointer relies on it.
AttemptsLinked ==
  \A a \in Attempts :
    IF Claimed(a) THEN attempt[a].job \in Jobs /\ job[attempt[a].job].state # "absent"
                  ELSE attempt[a].job = None

OwnersLinked ==
  \A j \in Jobs :
    IF job[j].state = "running"
    THEN /\ job[j].attempt \in Attempts /\ attempt[job[j].attempt].job = j
         /\ job[j].parked < job[j].count
    ELSE job[j].attempt = None /\ job[j].lease = 0

RunsLinked ==
  \A j \in Jobs :
    IF job[j].state = "absent" THEN job[j].count = 0 /\ job[j].parked = 0
                               ELSE run[j].product \in Products

HeadsLinked ==
  \A p \in Products :
    LET h == head[p] IN
    /\ h.generation <= h.requested
    /\ h.desired # None => /\ job[h.desired].state # "absent"
                           /\ run[h.desired].product = p
                           /\ run[h.desired].generation = h.requested

RowsLinked == AttemptsLinked /\ OwnersLinked /\ RunsLinked /\ HeadsLinked

\* Once a token is fenced it stays fenced: no renewal, unpark, reclaim or
\* cancel makes a call with an old token pass pq_owns again.
FencedForever ==
  [][\A a \in Attempts : Claimed(a) /\ ~pq_owns(a) => ~pq_owns(a)']_vars

-----------------------------------------------------------------------------
(* The queue implements the ledger its users see.                          *)

SlotBound == [s \in Products \X Keys |-> request[s].job]
Phase == [j \in Jobs |-> IF job[j].state \in Terminal \cup {"absent"}
                         THEN job[j].state ELSE "pending"]
Desired == [p \in Products |-> head[p].desired]
Published == [p \in Products |-> head[p].published]

Ledger == INSTANCE JobLedger WITH
  bound <- SlotBound, phase <- Phase, desired <- Desired, published <- Published

\* Each job settles once, each key is bound once, and readers see the newest
\* wanted success: the queue is a JobLedger.
ImplementsLedger == Ledger!Spec
=============================================================================
