---------------------------- MODULE NoopExecutor ----------------------------
(***************************************************************************)
(* The processes around PolisQueue: polismath/queue/executor.py, which     *)
(* reaps, claims and completes noop jobs; the producer, which enqueues;    *)
(* and a manager, which reads a job's status and cancels by the version it *)
(* read.                                                                   *)
(*                                                                         *)
(* Every call of an executor is one transaction with one of three fates:   *)
(* it commits and its reply arrives; it commits and the reply is lost      *)
(* (CommitOutcomeUnknown); it does not commit.  Executor.call repeats the  *)
(* last two with the same identity, so for the caller they are staying     *)
(* where it is; only pq_claim is never repeated.  A call that gives up     *)
(* after MAX_RETRIES raises and ends the process, as any Crash does.       *)
(***************************************************************************)
EXTENDS PolisQueue

CONSTANTS
  Executors,    \* executor processes
  Fixture,      \* the jobs whose input is the public fixture
  MaxCrashes    \* bound on crashes

ASSUME ExecutorAssumption ==
  /\ Fixture \subseteq Jobs
  /\ MaxCrashes \in Nat

VARIABLES
  pc,        \* where each executor is in run_once
  page,      \* job ids of the reaper page it has still to visit
  held,      \* the attempt it minted and is working on, or None
  verdict,   \* what an executor concluded of an attempt
  view,      \* what the manager last read of a job, or None
  crashes

local == <<pc, page, held, verdict, crashes>>
evars == <<vars, local, view>>

ExecInit ==
  /\ Init
  /\ pc = [e \in Executors |-> "idle"]
  /\ page = [e \in Executors |-> {}]
  /\ held = [e \in Executors |-> None]
  /\ verdict = [a \in Attempts |-> "open"]
  /\ view = None
  /\ crashes = 0

Go(e, from, to) == pc[e] = from /\ pc' = [pc EXCEPT ![e] = to]

-----------------------------------------------------------------------------
(* Executor.run_once                                                       *)

\* What pq_due lists: expired leases and due parked jobs.
pq_due ==
  {j \in Jobs : \/ job[j].state = "running" /\ job[j].lease = 0
                \/ job[j].state = "parked" /\ job[j].wait = 0}

\* Discovery is a transaction of its own; its page is stale from here on.
Discover(e) ==
  /\ Go(e, "idle", "reaping")
  /\ page' = [page EXCEPT ![e] = pq_due]
  /\ UNCHANGED <<vars, held, verdict, crashes, view>>

\* One pq_reap_one per job of the page.  The call is repeated when its reply
\* is lost and then finds the work done.
ReapNext(e) ==
  \E j \in page[e] :
    /\ pc[e] = "reaping"
    /\ pq_reap_one(j)
    /\ page' = [page EXCEPT ![e] = @ \ {j}]
    /\ UNCHANGED <<pc, held, verdict, crashes, view>>

\* pq_reap_one answers NULL: the job is not due any more, or pq_lock skipped a
\* row that another session holds.
ReapSkipped(e) ==
  \E j \in page[e] :
    /\ pc[e] = "reaping"
    /\ page' = [page EXCEPT ![e] = @ \ {j}]
    /\ UNCHANGED <<vars, pc, held, verdict, crashes, view>>

PageDone(e) ==
  /\ page[e] = {}
  /\ Go(e, "reaping", "claiming")
  /\ UNCHANGED <<vars, page, held, verdict, crashes, view>>

\* pq_claim commits.  With the reply the executor goes on to work; without it
\* it must renew the token the uncertain reply named before it may work.
Claim(e, next) ==
  \E j \in Jobs, a \in Attempts :
    /\ Go(e, "claiming", next)
    /\ ~Claimed(a) /\ a = CHOOSE b \in Attempts : ~Claimed(b)
    /\ pq_claim(j, a)
    /\ held' = [held EXCEPT ![e] = a]
    /\ UNCHANGED <<page, verdict, crashes, view>>

\* The reply said owned but the transaction never committed: the executor
\* renews a token the database has never seen and is fenced.
ClaimUncommitted(e) ==
  /\ \E j \in Jobs : claimable(j)
  /\ Go(e, "claiming", "idle")
  /\ UNCHANGED <<vars, page, held, verdict, crashes, view>>

\* Every lane answered none.  The lanes are asked one transaction after the
\* other and SKIP LOCKED passes over held rows, so a job may be waiting.
ClaimNone(e) ==
  /\ Go(e, "claiming", "idle")
  /\ UNCHANGED <<vars, page, held, verdict, crashes, view>>

\* The executor leaves its attempt with a conclusion about it.
Conclude(e, from, v) ==
  /\ Go(e, from, "idle")
  /\ held' = [held EXCEPT ![e] = None]
  /\ verdict' = [verdict EXCEPT ![held[e]] = v]
  /\ UNCHANGED <<page, crashes, view>>

\* pq_heartbeat, after an uncertain claim (renewing) and before the work
\* (beating).  Owned moves on, fenced gives up.
Beat(e, from, next) ==
  /\ pc[e] = from
  /\ \/ /\ pq_heartbeat(held[e])
        /\ Go(e, from, next)
        /\ UNCHANGED <<page, held, verdict, crashes, view>>
     \/ /\ ~pq_owns(held[e])
        /\ Conclude(e, from, "fenced")
        /\ UNCHANGED vars

\* The heartbeat commits and its reply is lost: it will be sent again.
BeatLost(e) ==
  /\ pc[e] \in {"renewing", "beating"}
  /\ pq_heartbeat(held[e])
  /\ UNCHANGED <<local, view>>

Renew(e) == Beat(e, "renewing", "executing")

\* Any descriptor but the fixture is failed permanently, unread.
Refuse(e) ==
  LET a == held[e] IN
  /\ pc[e] = "executing"
  /\ attempt[a].job \notin Fixture
  /\ \/ pq_end_attempt(a, "permanent") /\ Conclude(e, "executing", "failed")
     \/ ~pq_owns(a) /\ UNCHANGED vars /\ Conclude(e, "executing", "fenced")

\* pq_fail commits and its reply is lost: the repeat will be fenced.
RefuseLost(e) ==
  /\ pc[e] = "executing"
  /\ attempt[held[e]].job \notin Fixture
  /\ pq_end_attempt(held[e], "permanent")
  /\ UNCHANGED <<local, view>>

Accept(e) ==
  /\ Go(e, "executing", "beating")
  /\ attempt[held[e]].job \in Fixture
  /\ UNCHANGED <<vars, page, held, verdict, crashes, view>>

BeatBeforeWork(e) == Beat(e, "beating", "finalizing")

reply_without_replay(a) == IF pq_owns(a) THEN "succeeded" ELSE "fenced"

\* The reply of pq_finalize for the fixed noop output: the attempt that
\* already succeeded is told so again; every other stale token is fenced.
finalize_reply(a) ==
  LET j == attempt[a].job IN
  IF job[j].state = "succeeded" /\ job[j].terminal = a
       /\ attempt[a].outcome = "succeeded"
  THEN "already_succeeded"
  ELSE IF pq_owns(a) THEN "succeeded" ELSE "fenced"

Finalize(e) ==
  LET a == held[e]
      reply == finalize_reply(a)
  IN
  /\ pc[e] = "finalizing"
  /\ IF reply = "succeeded" THEN pq_finalize(a) ELSE UNCHANGED vars
  /\ Conclude(e, "finalizing", IF reply = "fenced" THEN "fenced" ELSE "success")

\* pq_finalize commits and its reply is lost: it will be sent again.
FinalizeLost(e) ==
  /\ pc[e] = "finalizing"
  /\ pq_finalize(held[e])
  /\ UNCHANGED <<local, view>>

\* The process dies; its cursor and token die with it, its lease does not.
Crash(e) ==
  /\ crashes < MaxCrashes
  /\ pc[e] # "down"
  /\ pc' = [pc EXCEPT ![e] = "down"]
  /\ page' = [page EXCEPT ![e] = {}]
  /\ held' = [held EXCEPT ![e] = None]
  /\ crashes' = crashes + 1
  /\ UNCHANGED <<vars, verdict, view>>

Restart(e) ==
  /\ Go(e, "down", "idle")
  /\ UNCHANGED <<vars, page, held, verdict, crashes, view>>

-----------------------------------------------------------------------------
(* The producer, the manager and the clock.                                *)

Produce ==
  /\ \E p \in Products, k \in Keys, d \in Digests, j \in Jobs :
       pq_enqueue(p, k, d, j)
  /\ UNCHANGED <<local, view>>

\* pq_job_status: the management token and what it described.
ReadStatus(j) ==
  /\ view = None
  /\ job[j].state # "absent"
  /\ view' = [job |-> j, mgmt |-> job[j].mgmt,
              state |-> job[j].state, attempt |-> job[j].attempt]
  /\ UNCHANGED <<vars, local>>

\* pq_cancel with the version read; conflict and terminal change nothing.
Cancel ==
  /\ view # None
  /\ \/ pq_cancel(view.job, view.mgmt)
     \/ ~cancel_admits(view.job, view.mgmt) /\ UNCHANGED vars
  /\ view' = None
  /\ UNCHANGED local

ClockTick == Tick /\ UNCHANGED <<local, view>>

Progress(e) ==
  \/ Discover(e) \/ ReapNext(e) \/ ReapSkipped(e) \/ PageDone(e)
  \/ Claim(e, "executing") \/ ClaimNone(e)
  \/ Renew(e) \/ Refuse(e) \/ Accept(e) \/ BeatBeforeWork(e) \/ Finalize(e)

Mishap(e) ==
  \/ Claim(e, "renewing") \/ ClaimUncommitted(e)
  \/ BeatLost(e) \/ RefuseLost(e) \/ FinalizeLost(e)
  \/ Crash(e)

ExecNext ==
  \/ \E e \in Executors : Progress(e) \/ Mishap(e) \/ Restart(e)
  \/ Produce
  \/ \E j \in Jobs : ReadStatus(j)
  \/ Cancel
  \/ ClockTick

ExecSpec == ExecInit /\ [][ExecNext]_evars

-----------------------------------------------------------------------------
(* Safety.                                                                 *)

\* An executor's conclusion is the truth, however many replies it lost: an
\* attempt it reports as succeeded did succeed, and one it reports as fenced
\* never did and can never again touch its job (executor.py call and _execute
\* repeating pq_finalize after CommitOutcomeUnknown).
VerdictTrue ==
  \A a \in Attempts :
    /\ verdict[a] = "success" => attempt[a].outcome = "succeeded"
    /\ verdict[a] = "fenced" => attempt[a].outcome # "succeeded" /\ ~pq_owns(a)

\* A reaper working from a stale page never ends an attempt whose lease was
\* renewed after the page was read (pq_due against pq_reap_one).
ReaperSparesOwners ==
  [][\A a \in Attempts :
       attempt[a].outcome = "running" /\ attempt'[a].outcome = "expired"
         => ~pq_owns(a)]_evars

\* A cancel takes effect only on the very state and attempt the manager read:
\* it never stops a run that was claimed, ended or retried in between.
CancelSawIt ==
  [][\A j \in Jobs :
       job[j].state # "cancelled" /\ job'[j].state = "cancelled"
         => view # None /\ view.job = j /\ view.state = job[j].state
              /\ view.attempt = job[j].attempt]_evars

-----------------------------------------------------------------------------
(* Liveness.                                                               *)

\* An executor keeps running its loop, and is restarted when it dies (which
\* happens finitely often); replies are not lost for ever; a row is not held by
\* other sessions at every single visit; clocks advance.
Fairness ==
  /\ \A e \in Executors :
       /\ WF_evars(Progress(e)) /\ WF_evars(Restart(e))
       /\ SF_evars(ReapNext(e)) /\ SF_evars(Claim(e, "executing"))
  /\ WF_evars(ClockTick)

FairSpec == ExecSpec /\ Fairness

\* Every enqueued job settles: crashes, lost replies, expired leases and
\* refused inputs cost it attempts, never its end (the reaper, the backoff and
\* the attempt budget together).
EveryJobSettles ==
  \A j \in Jobs : job[j].state = "queued" ~> job[j].state \in Terminal
=============================================================================
