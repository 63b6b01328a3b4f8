------------------------------ MODULE PolisJobs ------------------------------
(***************************************************************************)
(* The polis-jobs daemon, queue-rs/src/jobs, working on the database of    *)
(* DelphiJobs: it claims attempts, journals them, runs a child process for *)
(* each, kills and reaps it, ends the attempt, and after a crash proves    *)
(* the exits it can from its journal.                                      *)
(*                                                                         *)
(* A daemon is named by its journal directory, which a lock gives to one   *)
(* process at a time; a restarted process is the same daemon with an empty *)
(* memory.  An attempt's owner_id is minted with the process, so the       *)
(* tasks of a daemon are always its present process's own.                 *)
(*                                                                         *)
(* Every call is one transaction of DelphiJobs.  It commits and is         *)
(* answered, commits and its answer is lost (CallLost, and the like), or   *)
(* does not commit, which is a stutter until the caller gives up.          *)
(*                                                                         *)
(* Abstractions.  Which of the refusals before the spawn is met, what the  *)
(* child's exit code and manifest say, and when its time is up, are        *)
(* choices.  A claim of a transaction that never committed leaves a token  *)
(* no row fits, whose calls are all fenced; it is left out.  Reaper passes *)
(* and scope releases are calls any worker or operator may make any time.  *)
(***************************************************************************)
EXTENDS DelphiJobs

CONSTANTS
  Daemons,  \* journal directories
  Faults    \* what may go wrong besides lost calls and container restarts:
            \* "host": a daemon may die and leave its children running;
            \* "stuck": a process group may survive its kill;
            \* "journal": an entry may not be written

ASSUME FaultsAssumption == Faults \subseteq {"host", "stuck", "journal"}

VARIABLES
  \* the memory of the daemons
  up,       \* the daemons that are running and past their recovery
  draining, \* those that were told to stop
  stage,    \* how far the task of each attempt has come
  plan,     \* what a reaped task will call to end its attempt
  fenced,   \* the attempts whose heartbeat thread saw a fence
  pending,  \* Ctx.pending: the calls to be repeated by the main loop
  \* the world around them
  home,     \* the daemon that claimed each attempt
  child,    \* its process group
  entry,    \* its journal file: with the group's id or written before it
  stale     \* the attempts whose entry names a boot or container that ended

memory == <<up, draining, stage, plan, fenced, pending>>
world  == <<home, child, entry, stale>>
jobsVars == <<delphiVars, memory, world>>

Plans  == {"finalize", "park", "retry", "interrupted", "confirm_exit"}
Stages == {"none", "renewing", "owned", "journaled", "spawned", "refusing",
           "running", "reaped", "confirmed"}

JobsInit ==
  /\ DelphiInit
  /\ up = {}
  /\ draining = {}
  /\ stage = [a \in Attempts |-> "none"]
  /\ plan = [a \in Attempts |-> "retry"]
  /\ fenced = {}
  /\ pending = [a \in Attempts |-> "none"]
  /\ home = [a \in Attempts |-> None]
  /\ child = [a \in Attempts |-> "none"]
  /\ entry = [a \in Attempts |-> "none"]
  /\ stale = {}

Go(a, from, to) == stage[a] \in from /\ stage' = [stage EXCEPT ![a] = to]

AttemptsAt(d) == {a \in Attempts : home[a] = d}

\* A task returns: what it knew of its attempts is gone with it.
Forget(as) ==
  /\ stage' = [a \in Attempts |-> IF a \in as THEN "none" ELSE stage[a]]
  /\ plan' = [a \in Attempts |-> IF a \in as THEN "retry" ELSE plan[a]]
  /\ fenced' = fenced \ as

-----------------------------------------------------------------------------
(* Claiming (claim.rs).                                                    *)

\* pq_claim commits.  Answered, a task is started for it; with the answer lost
\* the exact token must be renewed first, and never claimed again.
Claim(d, next) ==
  \E j \in Jobs, a \in Attempts :
    /\ d \in up \ draining
    /\ pd_claim(j, a)
    /\ Go(a, {"none"}, next)
    /\ home' = [home EXCEPT ![a] = d]
    /\ UNCHANGED <<up, draining, plan, fenced, pending, child, entry, stale>>

Renew(a) ==
  /\ Go(a, {"renewing"}, "owned")
  /\ pd_heartbeat(a)
  /\ UNCHANGED <<up, draining, plan, fenced, pending, world>>

\* The renewal is fenced, fails or is uncertain too: the attempt will be ended,
\* which is honest since no child was started.
RenewFails(a) ==
  /\ Go(a, {"renewing"}, "none")
  /\ pd_heartbeat(a) \/ UNCHANGED delphiVars
  /\ pending' = [pending EXCEPT ![a] = "fail"]
  /\ UNCHANGED <<up, draining, plan, fenced, world>>

-----------------------------------------------------------------------------
(* A task, from the claim to the running child (task.rs).                  *)

\* Nothing can be run: the frame, the job view, the journal, the input or the
\* spawn failed.
Refuse(a) ==
  /\ Go(a, {"owned", "journaled"}, "refusing")
  /\ UNCHANGED <<delphiVars, up, draining, plan, fenced, pending, world>>

\* The entry is on disk before there is a child to lose.
WriteEntry(a) ==
  /\ Go(a, {"owned"}, "journaled")
  /\ entry' = [entry EXCEPT ![a] = "bare"]
  /\ UNCHANGED <<delphiVars, up, draining, plan, fenced, pending, home, child, stale>>

Spawn(a) ==
  /\ Go(a, {"journaled"}, "spawned")
  /\ child' = [child EXCEPT ![a] = "alive"]
  /\ UNCHANGED <<delphiVars, up, draining, plan, fenced, pending, home, entry, stale>>

\* The entry is rewritten with the process group.
RewriteEntry(a) ==
  /\ Go(a, {"spawned"}, "running")
  /\ entry' = [entry EXCEPT ![a] = "full"]
  /\ UNCHANGED <<delphiVars, up, draining, plan, fenced, pending, home, child, stale>>

\* It can not be: the child is stopped while its exit can still be proved.
RewriteFails(a) ==
  /\ "journal" \in Faults
  /\ Go(a, {"spawned"}, "refusing")
  /\ child' = [child EXCEPT ![a] = "gone"]
  /\ UNCHANGED <<delphiVars, up, draining, plan, fenced, pending, home, entry, stale>>

\* The attempts with a heartbeat thread: it outlives a refused spawn.
Beating ==
  {a \in Attempts :
     \/ stage[a] \in {"journaled", "spawned", "running", "reaped", "confirmed"}
     \/ stage[a] = "refusing" /\ entry[a] # "none"}

\* The heartbeat thread: owned renews the lease, any other answer is a fence.
Beat(a) ==
  /\ a \in Beating
  /\ \/ pd_heartbeat(a) /\ UNCHANGED fenced
     \/ ~pq_owns(a) /\ fenced' = fenced \cup {a} /\ UNCHANGED delphiVars
  /\ UNCHANGED <<up, draining, stage, plan, pending, world>>

\* No heartbeat was answered for the length of a lease.
LeaseElapses(a) ==
  /\ a \in Beating
  /\ fenced' = fenced \cup {a}
  /\ UNCHANGED <<delphiVars, up, draining, stage, plan, pending, world>>

\* The task records the child's provider requests for it: its intents while it
\* runs, their results, after its end what is in doubt, and with its success
\* the end of a batch that an earlier attempt submitted.
ProviderCall(a) ==
  /\ \E r \in Requests :
       \/ stage[a] = "running" /\ pd_provider_intent(a, r)
       \/ /\ stage[a] \in {"running", "reaped"}
          /\ provider[r].attempt = a
          /\ \E s \in {"submitted", "completed", "failed"} :
               pd_provider_update(a, r, s)
       \/ /\ stage[a] = "reaped"
          /\ provider[r].attempt = a
          /\ pd_provider_update(a, r, "submission_unknown")
       \/ /\ stage[a] = "reaped"
          /\ plan[a] = "finalize"
          /\ pd_provider_update(a, r, "completed")
  /\ UNCHANGED <<memory, world>>

kill_without_waiting(a) ==
  /\ Go(a, {"running"}, "reaped")
  /\ child[a] = "alive"
  /\ plan' = [plan EXCEPT ![a] = "retry"]
  /\ UNCHANGED <<delphiVars, up, draining, fenced, pending, world>>

\* The child ended and its group is empty.  A fence seen by then decides, else
\* its exit code and manifest.
Reap(a) ==
  /\ Go(a, {"running"}, "reaped")
  /\ child[a] = "gone"
  /\ \E p \in IF a \in fenced THEN {"confirm_exit"}
              ELSE {"finalize", "park", "retry"} :
       plan' = [plan EXCEPT ![a] = p]
  /\ UNCHANGED <<delphiVars, up, draining, fenced, pending, world>>

\* The task kills the group and sees it empty: the attempt is fenced, the
\* daemon was told to stop, or the child's time is up.
Kill(a) ==
  /\ Go(a, {"running"}, "reaped")
  /\ child[a] = "alive"
  /\ child' = [child EXCEPT ![a] = "gone"]
  /\ plan' = [plan EXCEPT ![a] =
       IF a \in fenced THEN "confirm_exit"
       ELSE IF home[a] \in draining THEN "interrupted" ELSE "retry"]
  /\ UNCHANGED <<delphiVars, up, draining, fenced, pending, home, entry, stale>>

stuck_forgets_entry(a) ==
  /\ "stuck" \in Faults
  /\ stage[a] = "running"
  /\ Forget({a})
  /\ entry' = [entry EXCEPT ![a] = "none"]
  /\ UNCHANGED <<delphiVars, up, draining, pending, home, child, stale>>

\* The group outlives the kill: nothing is proved, the entry stays.
Stuck(a) ==
  /\ "stuck" \in Faults
  /\ \/ stage[a] = "running"
     \/ stage[a] = "spawned" /\ "journal" \in Faults
  /\ Forget({a})
  /\ UNCHANGED <<delphiVars, up, draining, pending, world>>

-----------------------------------------------------------------------------
(* The end of a task.                                                      *)

\* The call that settles the attempt.
EndCall(a) ==
  \/ /\ stage[a] = "refusing"
     /\ \E action \in {"permanent", "retry", "release"} : pd_end_attempt(a, action)
  \/ /\ stage[a] \in {"reaped", "confirmed"}
     /\ plan[a] # "finalize"
     /\ pd_end_attempt(a, IF plan[a] = "interrupted" THEN "retry" ELSE plan[a])
  \/ /\ stage[a] = "confirmed"
     /\ plan[a] = "finalize"
     /\ pd_finalize(a)

\* A success is preceded by its exit proof.
ConfirmCall(a) ==
  /\ stage[a] = "reaped"
  /\ plan[a] = "finalize"
  /\ pd_end_attempt(a, "confirm_exit")

\* The task is over and needs no recovery.
Leave(a) ==
  /\ Forget({a})
  /\ entry' = [entry EXCEPT ![a] = "none"]
  /\ UNCHANGED <<up, draining, pending, home, child, stale>>

End(a) == EndCall(a) /\ Leave(a)

\* The proof is recorded; without its manifest row the job is to be retried.
Confirm(a) ==
  /\ ConfirmCall(a)
  /\ Go(a, {"reaped"}, "confirmed")
  /\ \E p \in {"finalize", "retry"} : plan' = [plan EXCEPT ![a] = p]
  /\ UNCHANGED <<up, draining, fenced, pending, world>>

\* pq_finalize answers fenced or already_succeeded: the task is over.
FinalizeFenced(a) ==
  /\ stage[a] = "confirmed"
  /\ plan[a] = "finalize"
  /\ ~pq_owns(a)
  /\ Leave(a)
  /\ UNCHANGED delphiVars

\* It refuses the output, or raises because provider work is open.
FinalizeRefused(a) ==
  /\ stage[a] = "confirmed"
  /\ plan[a] = "finalize"
  /\ pq_owns(a)
  /\ plan' = [plan EXCEPT ![a] =
       IF none_in(attempt[a].job, Open) THEN "retry" ELSE "park"]
  /\ UNCHANGED <<delphiVars, up, draining, stage, fenced, pending, world>>

\* The call commits and its answer is lost: it is sent again.
CallLost(a) ==
  /\ EndCall(a) \/ ConfirmCall(a)
  /\ UNCHANGED <<memory, world>>

\* No try was answered.  A refusal is dropped, its entry too; the exit of a
\* reaped child is kept for the main loop.
GiveUp(a) ==
  \/ stage[a] = "refusing" /\ Leave(a) /\ UNCHANGED delphiVars
  \/ /\ stage[a] \in {"reaped", "confirmed"}
     /\ Forget({a})
     /\ pending' = [pending EXCEPT ![a] = "confirm"]
     /\ UNCHANGED <<delphiVars, up, draining, world>>

PendingCall(a) ==
  /\ home[a] \in up
  /\ \/ pending[a] = "fail" /\ pd_end_attempt(a, "retry")
     \/ pending[a] = "confirm" /\ pd_end_attempt(a, "confirm_exit")

\* The main loop repeats a call; the entry goes with its answer.
RetryPending(a) ==
  /\ PendingCall(a)
  /\ pending' = [pending EXCEPT ![a] = "none"]
  /\ entry' = [entry EXCEPT ![a] = "none"]
  /\ UNCHANGED <<up, draining, stage, plan, fenced, home, child, stale>>

RetryLost(a) == PendingCall(a) /\ UNCHANGED <<memory, world>>

-----------------------------------------------------------------------------
(* Death, recovery and the processes (journal.rs, claim.rs recover).       *)

\* The container or boot that held a daemon and its children is over.
EndWorld(d) ==
  /\ child' = [a \in Attempts |->
       IF a \in AttemptsAt(d) /\ child[a] = "alive" THEN "gone" ELSE child[a]]
  /\ stale' = stale \cup {a \in AttemptsAt(d) : entry[a] # "none"}

\* A daemon dies and forgets.  In a container it is the first process, and
\* everything else dies with it.
Die(d, alone) ==
  /\ d \in up
  /\ alone => "host" \in Faults
  /\ up' = up \ {d}
  /\ draining' = draining \ {d}
  /\ Forget(AttemptsAt(d))
  /\ pending' = [a \in Attempts |->
       IF a \in AttemptsAt(d) THEN "none" ELSE pending[a]]
  /\ IF alone THEN UNCHANGED <<child, stale>> ELSE EndWorld(d)
  /\ UNCHANGED <<delphiVars, home, entry>>

\* The host of a daemon that is down starts again.
Reboot(d) ==
  /\ d \notin up
  /\ EndWorld(d)
  /\ UNCHANGED <<delphiVars, memory, home, entry>>

gone_without_a_group(a) ==
  a \in stale \/ entry[a] = "bare" \/ child[a] # "alive"

gone_by_its_group_alone(a) == entry[a] = "full" /\ child[a] # "alive"

\* What a restarted daemon may conclude: the boot or container is another, or
\* the journaled group is seen to be gone.
provably_gone(a) ==
  \/ a \in stale
  \/ entry[a] = "full" /\ child[a] # "alive"

\* A daemon starts: what its journal proves is to be told to the database.
Start(d) ==
  /\ d \notin up
  /\ up' = up \cup {d}
  /\ pending' = [a \in Attempts |->
       IF home[a] = d /\ entry[a] # "none" /\ provably_gone(a)
       THEN "fail" ELSE pending[a]]
  /\ UNCHANGED <<delphiVars, draining, stage, plan, fenced, world>>

\* A daemon is told to stop: it claims no more and its tasks end.
Drain(d) ==
  /\ d \in up \ draining
  /\ draining' = draining \cup {d}
  /\ UNCHANGED <<delphiVars, up, stage, plan, fenced, pending, world>>

\* A child ends by itself, watched or orphaned.
ChildExits(a) ==
  /\ child[a] = "alive"
  /\ child' = [child EXCEPT ![a] = "gone"]
  /\ UNCHANGED <<delphiVars, memory, home, entry, stale>>

-----------------------------------------------------------------------------
(* Calls of producers, reapers, managers and operators, and the clock.     *)
DatabaseCall ==
  /\ \/ \E p \in Products, k \in Keys, d \in Digests :
          \/ \E j \in Jobs, i \in Images : pd_admit(p, k, d, j, i)
          \/ pd_alias(p, k, d)
     \/ \E p \in Products, k \in Keys : binding_expires(p, k)
     \/ \E p \in Products : pd_release_scope(p)
     \/ \E j \in Jobs : pd_reap_expired(j) \/ pd_reap_parked(j)
     \/ \E j \in Jobs : pd_cancel(j, job[j].mgmt)
     \/ DelphiTick
  /\ UNCHANGED <<memory, world>>

Prepare(a) ==
  \/ Renew(a) \/ RenewFails(a) \/ Refuse(a)
  \/ WriteEntry(a) \/ Spawn(a) \/ RewriteEntry(a) \/ RewriteFails(a)

Watch(a) ==
  \/ Beat(a) \/ LeaseElapses(a) \/ ProviderCall(a)
  \/ Reap(a) \/ Kill(a) \/ Stuck(a)

Conclude(a) ==
  \/ End(a) \/ Confirm(a) \/ FinalizeFenced(a) \/ FinalizeRefused(a)
  \/ CallLost(a) \/ GiveUp(a)

JobsNext ==
  \/ DatabaseCall
  \/ \E d \in Daemons :
       \/ Claim(d, "owned") \/ Claim(d, "renewing")
       \/ \E alone \in BOOLEAN : Die(d, alone)
       \/ Reboot(d) \/ Start(d) \/ Drain(d)
  \/ \E a \in Attempts :
       \/ Prepare(a) \/ Watch(a) \/ Conclude(a)
       \/ RetryPending(a) \/ RetryLost(a) \/ ChildExits(a)

JobsSpec == JobsInit /\ [][JobsNext]_jobsVars

-----------------------------------------------------------------------------
(* Safety.                                                                 *)

\* The daemons' memory and the world around them are of their types.
JobsTypeOK ==
  /\ DelphiTypeOK
  /\ up \subseteq Daemons
  /\ draining \subseteq up
  /\ stage \in [Attempts -> Stages]
  /\ plan \in [Attempts -> Plans]
  /\ fenced \subseteq Attempts
  /\ pending \in [Attempts -> {"none", "fail", "confirm"}]
  /\ home \in [Attempts -> Daemons \cup {None}]
  /\ child \in [Attempts -> {"none", "alive", "gone"}]
  /\ entry \in [Attempts -> {"none", "bare", "full"}]
  /\ stale \subseteq Attempts

\* What the database takes as proof is true: no attempt whose exit was
\* confirmed has a process, by whichever of the paths that confirm one.
ExitsAreReal == \A a \in proved : child[a] # "alive"

\* No two processes ever work for one scope, be they of one job or two, of one
\* daemon or two, orphaned, fenced or late.
ScopeHasOneProcess ==
  \A a, b \in Attempts :
    /\ child[a] = "alive" /\ child[b] = "alive"
    /\ run[attempt[a].job].product = run[attempt[b].job].product
    => a = b

\* A process is never without a journal entry, so whatever happens to its
\* daemon a restart finds it.
ProcessesAreJournaled ==
  \A a \in Attempts : child[a] = "alive" => entry[a] # "none"

\* No child starts while a submission of its job is in doubt, so none submits
\* again what an earlier child may have submitted (pq_claim, pq_end_attempt).
ChildrenStartResolved ==
  [][\A a \in Attempts :
       child[a] = "none" /\ child'[a] = "alive"
         => none_in(attempt[a].job, Unresolved)]_jobsVars

\* A child that runs when its daemon is told to stop is left to finish: no stop
\* interrupts it (cdk/launchTemplates.ts:71; shutdown.rs says the opposite).
DrainLetsChildFinish ==
  [][\A a \in Attempts :
       home[a] \in draining /\ child[a] = "alive" /\ child'[a] = "gone"
         => plan'[a] # "interrupted"]_jobsVars

-----------------------------------------------------------------------------
(* Liveness.                                                               *)

\* What a task does next without help: it goes on to its running child, ends
\* with it, and its last call is answered or given up.
Proceed(a) ==
  \/ RewriteEntry(a) \/ Reap(a) \/ Kill(a)
  \/ End(a) \/ Confirm(a) \/ FinalizeFenced(a) \/ FinalizeRefused(a)
  \/ GiveUp(a)

\* Tasks proceed (a child's time is bounded), a dead daemon is started again,
\* and a call its main loop repeats whenever it is up is answered at last.
JobsFairness ==
  /\ \A a \in Attempts : WF_jobsVars(Proceed(a)) /\ SF_jobsVars(RetryPending(a))
  /\ \A d \in Daemons : WF_jobsVars(Start(d))

FairJobsSpec == JobsSpec /\ JobsFairness

\* Every process that was ever started is at last known to have ended: kills,
\* lost answers and crashes at any point of a task, also while recovering from
\* a crash, do not lose its exit (task.rs exit_proof_pending, claim.rs
\* retry_pending and recover).
ExitsGetRecorded ==
  \A a \in Attempts : child[a] = "alive" ~> a \in proved
=============================================================================
