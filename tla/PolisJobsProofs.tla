--------------------------- MODULE PolisJobsProofs ---------------------------
(***************************************************************************)
(* Proofs about PolisJobs, for every set of daemons and every choice of    *)
(* faults.  What the daemons do to the database are calls of DelphiJobs,   *)
(* so its theorems hold of them; what is added here is what only the       *)
(* daemons know: which process lives.                                      *)
(***************************************************************************)
EXTENDS PolisJobs, DelphiProofs

-----------------------------------------------------------------------------
(* The daemons' memory and the world keep their types.                     *)

MemoryTypeOK ==
  /\ up \subseteq Daemons
  /\ draining \subseteq up
  /\ stage \in [Attempts -> Stages]
  /\ plan \in [Attempts -> Plans]
  /\ fenced \subseteq Attempts
  /\ pending \in [Attempts -> {"none", "fail", "confirm"}]
  /\ home \in [Attempts -> Daemons \cup {None}]
  /\ child \in [Attempts -> {"none", "alive", "gone"}]
  /\ entry \in [Attempts -> {"none", "bare", "full"}]
  /\ stale \subseteq Attempts

(* Nothing runs and nothing is remembered at first. *)
LEMMA MemoryTypeInit == JobsInit => MemoryTypeOK
BY DEF JobsInit, MemoryTypeOK, Stages, Plans

(* A task that goes on or returns is at one of its places. *)
LEMMA GoType ==
  ASSUME MemoryTypeOK, NEW a \in Attempts, NEW from, NEW to \in Stages, Go(a, from, to)
  PROVE  stage' \in [Attempts -> Stages]
BY DEF Go, MemoryTypeOK

(* So is one that forgets. *)
LEMMA ForgetType ==
  ASSUME MemoryTypeOK, NEW as \in SUBSET Attempts, Forget(as)
  PROVE  /\ stage' \in [Attempts -> Stages]
         /\ plan' \in [Attempts -> Plans]
         /\ fenced' \subseteq Attempts
BY DEF Forget, MemoryTypeOK, Stages, Plans

(* Preparing a child. *)
LEMMA PrepareType ==
  ASSUME MemoryTypeOK, NEW a \in Attempts, Prepare(a)
  PROVE  MemoryTypeOK'
<1> USE DEF MemoryTypeOK, Go, Stages, world
<1>1. CASE Renew(a)
  BY <1>1 DEF Renew
<1>2. CASE RenewFails(a)
  BY <1>2 DEF RenewFails
<1>3. CASE Refuse(a)
  BY <1>3 DEF Refuse
<1>4. CASE WriteEntry(a)
  BY <1>4 DEF WriteEntry
<1>5. CASE Spawn(a)
  BY <1>5 DEF Spawn
<1>6. CASE RewriteEntry(a)
  BY <1>6 DEF RewriteEntry
<1>7. CASE RewriteFails(a)
  BY <1>7 DEF RewriteFails
<1> QED
  BY <1>1, <1>2, <1>3, <1>4, <1>5, <1>6, <1>7 DEF Prepare

(* Watching it. *)
LEMMA WatchType ==
  ASSUME MemoryTypeOK, NEW a \in Attempts, Watch(a)
  PROVE  MemoryTypeOK'
<1> USE DEF MemoryTypeOK, world
<1>1. CASE Beat(a)
  BY <1>1 DEF Beat
<1>2. CASE LeaseElapses(a)
  BY <1>2 DEF LeaseElapses
<1>3. CASE ProviderCall(a)
  BY <1>3 DEF ProviderCall, memory
<1>4. CASE Reap(a)
  <2>1. PICK p \in Plans : plan' = [plan EXCEPT ![a] = p]
    BY <1>4 DEF Reap, Plans
  <2> QED
    BY <1>4, <2>1 DEF Reap, Go, Stages
<1>5. CASE Kill(a)
  <2>1. PICK p \in Plans : plan' = [plan EXCEPT ![a] = p]
    BY <1>5 DEF Kill, Plans
  <2> QED
    BY <1>5, <2>1 DEF Kill, Go, Stages
<1>6. CASE Stuck(a)
  BY <1>6, ForgetType DEF Stuck
<1> QED
  BY <1>1, <1>2, <1>3, <1>4, <1>5, <1>6 DEF Watch

(* Ending it, and the calls that are repeated. *)
LEMMA ConcludeType ==
  ASSUME MemoryTypeOK, NEW a \in Attempts,
         Conclude(a) \/ RetryPending(a) \/ RetryLost(a) \/ ChildExits(a)
  PROVE  MemoryTypeOK'
<1> USE DEF MemoryTypeOK, world
<1>1. ASSUME Leave(a) PROVE MemoryTypeOK'
  BY <1>1, ForgetType DEF Leave
<1>2. CASE End(a)
  BY <1>1, <1>2 DEF End
<1>3. CASE Confirm(a)
  <2>1. PICK p \in Plans : plan' = [plan EXCEPT ![a] = p]
    BY <1>3 DEF Confirm, Plans
  <2> QED
    BY <1>3, <2>1 DEF Confirm, Go, Stages
<1>4. CASE FinalizeFenced(a)
  BY <1>1, <1>4 DEF FinalizeFenced
<1>5. CASE FinalizeRefused(a)
  <2>1. PICK p \in Plans : plan' = [plan EXCEPT ![a] = p]
    BY <1>5 DEF FinalizeRefused, Plans
  <2> QED
    BY <1>5, <2>1 DEF FinalizeRefused
<1>6. CASE CallLost(a)
  BY <1>6 DEF CallLost, memory
<1>7. CASE GiveUp(a)
  BY <1>1, <1>7, ForgetType DEF GiveUp
<1>8. CASE RetryPending(a)
  BY <1>8 DEF RetryPending
<1>9. CASE RetryLost(a)
  BY <1>9 DEF RetryLost, memory
<1>10. CASE ChildExits(a)
  BY <1>10 DEF ChildExits, memory
<1> QED
  BY <1>2, <1>3, <1>4, <1>5, <1>6, <1>7, <1>8, <1>9, <1>10 DEF Conclude

(* Daemons coming and going. *)
LEMMA DaemonType ==
  ASSUME MemoryTypeOK, NEW d \in Daemons,
         \/ Claim(d, "owned") \/ Claim(d, "renewing")
         \/ \E alone \in BOOLEAN : Die(d, alone)
         \/ Reboot(d) \/ Start(d) \/ Drain(d)
  PROVE  MemoryTypeOK'
<1> USE DEF MemoryTypeOK, world
<1>1. ASSUME NEW next \in {"owned", "renewing"}, Claim(d, next)
      PROVE  MemoryTypeOK'
  <2>1. PICK j \in Jobs, a \in Attempts :
          /\ Go(a, {"none"}, next)
          /\ home' = [home EXCEPT ![a] = d]
          /\ UNCHANGED <<up, draining, plan, fenced, pending, child, entry, stale>>
    BY <1>1 DEF Claim
  <2> QED
    BY <2>1 DEF Go, Stages
<1>2. ASSUME EndWorld(d)
      PROVE  child' \in [Attempts -> {"none", "alive", "gone"}] /\ stale' \subseteq Attempts
  BY <1>2 DEF EndWorld, AttemptsAt
<1>3. ASSUME NEW alone \in BOOLEAN, Die(d, alone)
      PROVE  MemoryTypeOK'
  <2>1. AttemptsAt(d) \in SUBSET Attempts
    BY DEF AttemptsAt
  <2>2. /\ stage' \in [Attempts -> Stages]
        /\ plan' \in [Attempts -> Plans]
        /\ fenced' \subseteq Attempts
    BY <1>3, <2>1, ForgetType DEF Die
  <2>3. child' \in [Attempts -> {"none", "alive", "gone"}] /\ stale' \subseteq Attempts
    BY <1>2, <1>3 DEF Die
  <2> QED
    BY <1>3, <2>2, <2>3 DEF Die
<1>4. CASE Reboot(d)
  BY <1>2, <1>4 DEF Reboot, memory
<1>5. CASE Start(d)
  BY <1>5 DEF Start
<1>6. CASE Drain(d)
  BY <1>6 DEF Drain
<1> QED
  BY <1>1, <1>3, <1>4, <1>5, <1>6

(* So no step breaks the types. *)
LEMMA MemoryTypeStep == MemoryTypeOK /\ [JobsNext]_jobsVars => MemoryTypeOK'
<1> SUFFICES ASSUME MemoryTypeOK, [JobsNext]_jobsVars PROVE MemoryTypeOK'
  OBVIOUS
<1>1. CASE DatabaseCall
  BY <1>1 DEF DatabaseCall, MemoryTypeOK, memory, world
<1>2. CASE UNCHANGED jobsVars
  BY <1>2 DEF jobsVars, MemoryTypeOK, memory, world
<1> QED
  BY <1>1, <1>2, DaemonType, PrepareType, WatchType, ConcludeType DEF JobsNext

-----------------------------------------------------------------------------
(* The daemons use the database as DelphiJobs says.                        *)

(* Whatever a daemon does is one call, or none. *)
LEMMA TaskCalls ==
  ASSUME MemoryTypeOK, NEW a \in Attempts,
         \/ Prepare(a) \/ Watch(a) \/ Conclude(a)
         \/ RetryPending(a) \/ RetryLost(a) \/ ChildExits(a)
  PROVE  [DelphiNext]_delphiVars
<1>1. ASSUME DelphiWorkerCall(a) PROVE DelphiNext
  BY <1>1 DEF DelphiNext
<1>2. ASSUME pd_heartbeat(a) \/ UNCHANGED delphiVars PROVE [DelphiNext]_delphiVars
  BY <1>1, <1>2 DEF DelphiWorkerCall
<1>3. CASE Prepare(a)
  BY <1>2, <1>3 DEF Prepare, Renew, RenewFails, Refuse, WriteEntry, Spawn, RewriteEntry,
                    RewriteFails
<1>4. CASE Watch(a)
  <2>1. CASE ProviderCall(a)
    BY <1>1, <2>1 DEF ProviderCall, DelphiWorkerCall
  <2> QED
    BY <1>2, <1>4, <2>1 DEF Watch, Beat, LeaseElapses, Reap, Kill, Stuck
<1>5. ASSUME EndCall(a) PROVE DelphiNext
  <2>1. plan[a] \in Plans
    BY DEF MemoryTypeOK
  <2>2. CASE stage[a] \in {"reaped", "confirmed"} /\ plan[a] # "finalize"
             /\ pd_end_attempt(a, IF plan[a] = "interrupted" THEN "retry" ELSE plan[a])
    BY <1>1, <2>1, <2>2 DEF DelphiWorkerCall, Plans
  <2> QED
    BY <1>1, <1>5, <2>2 DEF EndCall, DelphiWorkerCall
<1>6. ASSUME ConfirmCall(a) \/ PendingCall(a) PROVE DelphiNext
  BY <1>1, <1>6 DEF ConfirmCall, PendingCall, DelphiWorkerCall
<1>7. CASE Conclude(a)
  BY <1>5, <1>6, <1>7 DEF Conclude, End, Confirm, FinalizeFenced, FinalizeRefused,
                          CallLost, GiveUp
<1>8. CASE RetryPending(a) \/ RetryLost(a) \/ ChildExits(a)
  BY <1>6, <1>8 DEF RetryPending, RetryLost, ChildExits
<1> QED
  BY <1>3, <1>4, <1>7, <1>8

(* And so is whatever happens at all. *)
LEMMA StepIsCall == MemoryTypeOK /\ [JobsNext]_jobsVars => [DelphiNext]_delphiVars
<1> SUFFICES ASSUME MemoryTypeOK, [JobsNext]_jobsVars PROVE [DelphiNext]_delphiVars
  OBVIOUS
<1>1. CASE DatabaseCall
  BY <1>1 DEF DatabaseCall, DelphiNext
<1>2. ASSUME NEW d \in Daemons,
             \/ Claim(d, "owned") \/ Claim(d, "renewing")
             \/ \E alone \in BOOLEAN : Die(d, alone)
             \/ Reboot(d) \/ Start(d) \/ Drain(d)
      PROVE  [DelphiNext]_delphiVars
  BY <1>2 DEF Claim, Die, Reboot, Start, Drain, DelphiNext
<1>3. CASE UNCHANGED jobsVars
  BY <1>3 DEF jobsVars
<1> QED
  BY <1>1, <1>2, <1>3, TaskCalls DEF JobsNext

(* What is proved of the database for any callers holds with the daemons as *)
(* its callers: claims, endings, confirmations and provider calls of        *)
(* queue-rs/src/jobs are calls of migrations 000023 and 000024.             *)
THEOREM DaemonsUseTheDatabase == JobsSpec => DelphiSpec
<1>1. JobsInit => DelphiInit
  BY DEF JobsInit
<1> QED
  BY <1>1, MemoryTypeInit, MemoryTypeStep, StepIsCall, PTL DEF JobsSpec, DelphiSpec

-----------------------------------------------------------------------------
(* Which process lives.                                                    *)

(* What the place of its task says of an attempt's process.  A live one is *)
(* watched or orphaned, journaled and unproved; a task that has not come to *)
(* its spawn has none; whatever is to be told to the database, or named by  *)
(* an entry of an earlier container, has ended; tasks belong to daemons     *)
(* that are up; and before its claim there is nothing of an attempt.        *)
Sound(a) ==
  /\ child[a] = "alive" =>
       /\ stage[a] \in {"spawned", "running", "none"}
       /\ entry[a] # "none" /\ a \notin proved
  /\ stage[a] \in {"renewing", "owned", "journaled"} =>
       child[a] = "none" /\ a \notin proved
  /\ stage[a] \in {"journaled", "spawned", "running"} => entry[a] # "none"
  /\ pending[a] # "none" \/ a \in stale => stage[a] = "none" /\ child[a] # "alive"
  /\ stage[a] # "none" => home[a] \in up
  /\ ~Claimed(a) =>
       /\ stage[a] = "none" /\ child[a] = "none" /\ entry[a] = "none"
       /\ pending[a] = "none" /\ a \notin stale /\ a \notin proved

(* A step that leaves an attempt, its process and its daemon alone.        *)
Untouched(a) ==
  /\ stage'[a] = stage[a] /\ child'[a] = child[a] /\ entry'[a] = entry[a]
  /\ pending'[a] = pending[a] /\ home'[a] = home[a]
  /\ a \in stale' <=> a \in stale
  /\ a \in proved' <=> a \in proved
  /\ Claimed(a) => Claimed(a)'
  /\ home[a] \in up => home[a] \in up'

(* Such a step keeps what is said of it. *)
LEMMA UntouchedSound ==
  ASSUME NEW a \in Attempts, Sound(a), Untouched(a)
  PROVE  Sound(a)'
BY DEF Sound, Untouched

(* No call undoes a claim or moves an attempt to another job.              *)
LEMMA ClaimedKept ==
  ASSUME DelphiIInv, [DelphiNext]_delphiVars, NEW a \in Attempts, Claimed(a)
  PROVE  Claimed(a)' /\ attempt'[a].job = attempt[a].job
<1> USE DEF DelphiIInv, DelphiTypeOK, TypeOK, AttemptRow
<1>1. ASSUME NEW x \in Attempts, NEW o, o # "absent",
             attempt' = [attempt EXCEPT ![x].outcome = o]
      PROVE  Claimed(a)' /\ attempt'[a].job = attempt[a].job
  BY <1>1 DEF Claimed
<1>2. ASSUME NEW j \in Jobs, NEW x \in Attempts, pd_claim(j, x)
      PROVE  Claimed(a)' /\ attempt'[a].job = attempt[a].job
  BY <1>2 DEF pd_claim, pq_claim, Claimed
<1>3. ASSUME NEW x \in Attempts,
             NEW action \in {"confirm_exit", "retry", "permanent", "release", "park"},
             pd_end_attempt(x, action)
      PROVE  Claimed(a)' /\ attempt'[a].job = attempt[a].job
  <2>1. end_state(x, action) # "absent"
    BY DEF end_state, ended
  <2>2. CASE UNCHANGED vars
    BY <2>2 DEF vars, Claimed
  <2>3. CASE ~UNCHANGED vars
    <3>1. attempt' = [attempt EXCEPT ![x].outcome = end_state(x, action)]
      BY <1>3, <2>3 DEF pd_end_attempt, terminate
    <3> QED
      BY <1>1, <2>1, <3>1
  <2> QED
    BY <2>2, <2>3
<1>4. ASSUME NEW x \in Attempts, pd_finalize(x)
      PROVE  Claimed(a)' /\ attempt'[a].job = attempt[a].job
  <2>1. attempt' = [attempt EXCEPT ![x].outcome = "succeeded"]
    BY <1>4 DEF pd_finalize, succeed
  <2> QED
    BY <1>1, <2>1
<1>5. ASSUME NEW j \in Jobs, pd_reap_expired(j)
      PROVE  Claimed(a)' /\ attempt'[a].job = attempt[a].job
  <2>1. job[j].attempt \in Attempts
    BY <1>5 DEF pd_reap_expired, DelphiLinked, RunningLinked, AttemptsOf
  <2>2. attempt' = [attempt EXCEPT ![job[j].attempt].outcome = "expired"]
    BY <1>5 DEF pd_reap_expired, terminate
  <2> QED
    BY <1>1, <2>1, <2>2
<1>6. ASSUME NEW j \in Jobs, pd_cancel(j, job[j].mgmt)
      PROVE  Claimed(a)' /\ attempt'[a].job = attempt[a].job
  <2>1. CASE attempt' = attempt
    BY <2>1 DEF Claimed
  <2>2. CASE attempt' # attempt
    <3>1. /\ attempt' = [attempt EXCEPT ![job[j].attempt].outcome = "cancelled"]
          /\ job[j].attempt \in Attempts
      BY <1>6, <2>2 DEF pd_cancel, pq_cancel, DelphiLinked, RunningLinked, AttemptsOf
    <3> QED
      BY <1>1, <3>1
  <2> QED
    BY <2>1, <2>2
<1>7. CASE attempt' = attempt
  BY <1>7 DEF Claimed
<1>8. ASSUME NEW x \in Attempts, DelphiWorkerCall(x)
      PROVE  Claimed(a)' /\ attempt'[a].job = attempt[a].job
  <2>1. CASE pd_heartbeat(x)
    BY <1>7, <2>1 DEF pd_heartbeat, pq_heartbeat
  <2>2. ASSUME NEW r \in Requests, NEW s,
               pd_provider_intent(x, r) \/ pd_provider_update(x, r, s)
        PROVE  Claimed(a)' /\ attempt'[a].job = attempt[a].job
    BY <1>7, <2>2 DEF pd_provider_intent, pd_provider_update, vars
  <2> QED
    BY <1>3, <1>4, <1>8, <2>1, <2>2 DEF DelphiWorkerCall
<1>9. ASSUME NEW p \in Products, NEW k \in Keys, NEW d \in Digests,
             \/ \E j \in Jobs, i \in Images : pd_admit(p, k, d, j, i)
             \/ pd_alias(p, k, d)
      PROVE  Claimed(a)' /\ attempt'[a].job = attempt[a].job
  BY <1>7, <1>9 DEF pd_admit, pq_enqueue, pd_alias
<1>10. CASE \E j \in Jobs : pd_reap_parked(j)
  BY <1>7, <1>10 DEF pd_reap_parked, reap_parked
<1>11. CASE DelphiTick \/ UNCHANGED delphiVars
  BY <1>7, <1>11 DEF DelphiTick, Tick, delphiVars, vars
<1>12. CASE \E p \in Products, k \in Keys : binding_expires(p, k)
  BY <1>7, <1>12 DEF binding_expires
<1>13. CASE \E p \in Products : pd_release_scope(p)
  BY <1>7, <1>13 DEF pd_release_scope, vars
<1> QED
  BY <1>2, <1>5, <1>6, <1>8, <1>9, <1>10, <1>11, <1>12, <1>13 DEF DelphiNext

(* The calls of an attempt confirm no exit but its own.                    *)
LEMMA OthersUnproved ==
  ASSUME NEW a \in Attempts,
         \/ Prepare(a) \/ Watch(a) \/ Conclude(a)
         \/ RetryPending(a) \/ RetryLost(a) \/ ChildExits(a)
  PROVE  proved' = proved \/ proved' = proved \cup {a}
<1> USE DEF delphiVars
<1>1. CASE Prepare(a)
  BY <1>1 DEF Prepare, Renew, RenewFails, Refuse, WriteEntry, Spawn, RewriteEntry,
              RewriteFails, pd_heartbeat
<1>2. CASE Watch(a)
  BY <1>2 DEF Watch, Beat, LeaseElapses, ProviderCall, Reap, Kill, Stuck, pd_heartbeat,
              pd_provider_intent, pd_provider_update
<1>3. ASSUME EndCall(a) \/ ConfirmCall(a) \/ PendingCall(a)
      PROVE  proved' = proved \/ proved' = proved \cup {a}
  BY <1>3 DEF EndCall, ConfirmCall, PendingCall, pd_end_attempt, pd_finalize
<1>4. CASE Conclude(a)
  BY <1>3, <1>4 DEF Conclude, End, Confirm, FinalizeFenced, FinalizeRefused, CallLost,
                    GiveUp
<1>5. CASE RetryPending(a) \/ RetryLost(a) \/ ChildExits(a)
  BY <1>3, <1>5 DEF RetryPending, RetryLost, ChildExits
<1> QED
  BY <1>1, <1>2, <1>4, <1>5

(* A task's step touches no attempt but its own.                           *)
LEMMA OthersUntouched ==
  ASSUME MemoryTypeOK, DelphiIInv, NEW a \in Attempts, NEW b \in Attempts \ {a},
         \/ Prepare(a) \/ Watch(a) \/ Conclude(a)
         \/ RetryPending(a) \/ RetryLost(a) \/ ChildExits(a)
  PROVE  Untouched(b)
<1>1. b \in proved' <=> b \in proved
  BY OthersUnproved
<1>2. Claimed(b) => Claimed(b)'
  BY TaskCalls, ClaimedKept
<1>3. /\ stage'[b] = stage[b] /\ child'[b] = child[b] /\ entry'[b] = entry[b]
      /\ pending'[b] = pending[b] /\ UNCHANGED <<home, stale, up>>
  <2> USE DEF Go, Forget, Leave, memory, world, MemoryTypeOK
  <2>1. CASE Prepare(a)
    BY <2>1 DEF Prepare, Renew, RenewFails, Refuse, WriteEntry, Spawn, RewriteEntry,
                RewriteFails
  <2>2. CASE Watch(a)
    BY <2>2 DEF Watch, Beat, LeaseElapses, ProviderCall, Reap, Kill, Stuck
  <2>3. CASE Conclude(a)
    BY <2>3 DEF Conclude, End, Confirm, FinalizeFenced, FinalizeRefused, CallLost, GiveUp
  <2>4. CASE RetryPending(a) \/ RetryLost(a) \/ ChildExits(a)
    BY <2>4 DEF RetryPending, RetryLost, ChildExits
  <2> QED
    BY <2>1, <2>2, <2>3, <2>4
<1> QED
  BY <1>1, <1>2, <1>3 DEF Untouched

(* A child is spawned where the attempt has its entry and no proof.        *)
LEMMA PrepareSound ==
  ASSUME MemoryTypeOK, DelphiIInv, NEW a \in Attempts, Sound(a), Prepare(a)
  PROVE  Sound(a)'
<1>1. Claimed(a)
  BY DEF Prepare, Renew, RenewFails, Refuse, WriteEntry, Spawn, RewriteEntry,
         RewriteFails, Go, Sound
<1>2. Claimed(a)'
  BY <1>1, TaskCalls, ClaimedKept
<1>3. UNCHANGED proved
  BY DEF Prepare, Renew, RenewFails, Refuse, WriteEntry, Spawn, RewriteEntry,
         RewriteFails, pd_heartbeat, delphiVars
<1> USE <1>2, <1>3 DEF Sound, Go, MemoryTypeOK, world
<1>4. CASE Renew(a)
  BY <1>4 DEF Renew
<1>5. CASE RenewFails(a)
  BY <1>5 DEF RenewFails
<1>6. CASE Refuse(a)
  BY <1>6 DEF Refuse
<1>7. CASE WriteEntry(a)
  BY <1>7 DEF WriteEntry
<1>8. CASE Spawn(a)
  BY <1>8 DEF Spawn
<1>9. CASE RewriteEntry(a)
  BY <1>9 DEF RewriteEntry
<1>10. CASE RewriteFails(a)
  BY <1>10 DEF RewriteFails
<1> QED
  BY <1>4, <1>5, <1>6, <1>7, <1>8, <1>9, <1>10 DEF Prepare

(* A watched child is forgotten only with its entry left behind.           *)
LEMMA WatchSound ==
  ASSUME MemoryTypeOK, DelphiIInv, NEW a \in Attempts, Sound(a), Watch(a)
  PROVE  Sound(a)'
<1>1. UNCHANGED proved
  BY DEF Watch, Beat, LeaseElapses, ProviderCall, Reap, Kill, Stuck, pd_heartbeat,
         pd_provider_intent, pd_provider_update, delphiVars
<1>2. Claimed(a) => Claimed(a)'
  BY TaskCalls, ClaimedKept
<1> USE <1>1, <1>2 DEF Sound, Go, MemoryTypeOK, world
<1>3. CASE Beat(a) \/ LeaseElapses(a) \/ ProviderCall(a)
  BY <1>3 DEF Beat, LeaseElapses, ProviderCall, memory
<1>4. CASE Reap(a)
  BY <1>4 DEF Reap
<1>5. CASE Kill(a)
  BY <1>5 DEF Kill
<1>6. CASE Stuck(a)
  BY <1>6 DEF Stuck, Forget
<1> QED
  BY <1>3, <1>4, <1>5, <1>6 DEF Watch

(* What is told of an exit is told of a process that has ended.            *)
LEMMA ConcludeSound ==
  ASSUME MemoryTypeOK, DelphiIInv, NEW a \in Attempts, Sound(a),
         Conclude(a) \/ RetryPending(a) \/ RetryLost(a) \/ ChildExits(a)
  PROVE  Sound(a)'
<1>1. proved' = proved \/ proved' = proved \cup {a}
  BY OthersUnproved
<1>2. Claimed(a) => Claimed(a)'
  BY TaskCalls, ClaimedKept
<1> USE DEF Sound, MemoryTypeOK, world
<1>3. ASSUME stage[a] \in {"refusing", "reaped", "confirmed"}, Leave(a)
      PROVE  Sound(a)'
  BY <1>1, <1>2, <1>3 DEF Leave, Forget
<1>4. CASE End(a)
  BY <1>3, <1>4 DEF End, EndCall
<1>5. CASE Confirm(a)
  BY <1>1, <1>2, <1>5 DEF Confirm, Go
<1>6. CASE FinalizeFenced(a)
  BY <1>3, <1>6 DEF FinalizeFenced
<1>7. CASE FinalizeRefused(a)
  BY <1>2, <1>7 DEF FinalizeRefused, delphiVars
<1>8. CASE CallLost(a)
  BY <1>1, <1>2, <1>8 DEF CallLost, EndCall, ConfirmCall, memory
<1>9. CASE GiveUp(a)
  BY <1>1, <1>2, <1>3, <1>9 DEF GiveUp, Forget, delphiVars
<1>10. CASE RetryPending(a)
  BY <1>1, <1>2, <1>10 DEF RetryPending, PendingCall
<1>11. CASE RetryLost(a)
  BY <1>1, <1>2, <1>11 DEF RetryLost, PendingCall, memory
<1>12. CASE ChildExits(a)
  BY <1>2, <1>12 DEF ChildExits, memory, delphiVars
<1> QED
  BY <1>4, <1>5, <1>6, <1>7, <1>8, <1>9, <1>10, <1>11, <1>12 DEF Conclude

(* The world of a daemon that is down ends with its children.              *)
LEMMA WorldEnds ==
  ASSUME MemoryTypeOK, NEW d \in Daemons, NEW a \in Attempts, Sound(a), EndWorld(d),
         UNCHANGED <<entry, home, attempt, proved>>,
         stage'[a] = IF home[a] = d THEN "none" ELSE stage[a],
         pending'[a] = pending[a] \/ pending'[a] = "none",
         home[a] # d /\ home[a] \in up => home[a] \in up'
  PROVE  Sound(a)'
<1>1. CASE home[a] = d
  BY <1>1 DEF EndWorld, AttemptsAt, Sound, MemoryTypeOK, Claimed
<1>2. CASE home[a] # d
  BY <1>2 DEF EndWorld, AttemptsAt, Sound, MemoryTypeOK, Claimed
<1> QED
  BY <1>1, <1>2

(* What a restarted daemon concludes from its journal is true.             *)
LEMMA DaemonSound ==
  ASSUME MemoryTypeOK, DelphiIInv, \A a \in Attempts : Sound(a), NEW d \in Daemons,
         \/ Claim(d, "owned") \/ Claim(d, "renewing")
         \/ \E alone \in BOOLEAN : Die(d, alone)
         \/ Reboot(d) \/ Start(d) \/ Drain(d),
         NEW b \in Attempts
  PROVE  Sound(b)'
<1>1. ASSUME NEW next \in {"owned", "renewing"}, Claim(d, next)
      PROVE  Sound(b)'
  <2>1. PICK j \in Jobs, a \in Attempts :
          /\ d \in up \ draining
          /\ pd_claim(j, a)
          /\ Go(a, {"none"}, next)
          /\ home' = [home EXCEPT ![a] = d]
          /\ UNCHANGED <<up, draining, plan, fenced, pending, child, entry, stale>>
    BY <1>1 DEF Claim
  <2>2. /\ ~Claimed(a) /\ UNCHANGED proved
        /\ attempt' = [attempt EXCEPT
             ![a] = [job |-> j, epoch |-> claim_epoch(j), outcome |-> "running"]]
    BY <2>1 DEF pd_claim, pq_claim
  <2>3. attempt \in [Attempts -> AttemptRow]
    BY DEF DelphiIInv, DelphiTypeOK, TypeOK
  <2>4. CASE b = a
    <3>1. Claimed(a)'
      BY <2>2, <2>3 DEF Claimed
    <3>2. Sound(a)
      OBVIOUS
    <3> QED
      BY <2>1, <2>2, <2>4, <3>1, <3>2 DEF Sound, Go, MemoryTypeOK
  <2>5. CASE b # a
    <3>1. Claimed(b)' <=> Claimed(b)
      BY <2>2, <2>3, <2>5 DEF Claimed
    <3> QED
      BY <2>1, <2>2, <2>5, <3>1, UntouchedSound DEF Untouched, Go, MemoryTypeOK
  <2> QED
    BY <2>4, <2>5
<1>2. ASSUME NEW alone \in BOOLEAN, Die(d, alone)
      PROVE  Sound(b)'
  <2>1. /\ UNCHANGED <<entry, home, attempt, proved>> /\ up' = up \ {d}
        /\ stage'[b] = IF home[b] = d THEN "none" ELSE stage[b]
        /\ pending'[b] = IF home[b] = d THEN "none" ELSE pending[b]
    BY <1>2 DEF Die, Forget, AttemptsAt, delphiVars, vars
  <2>2. CASE alone
    <3>1. UNCHANGED <<child, stale>>
      BY <1>2, <2>2 DEF Die
    <3> QED
      BY <2>1, <3>1 DEF Sound, Claimed
  <2>3. CASE ~alone
    <3>1. EndWorld(d)
      BY <1>2, <2>3 DEF Die
    <3> QED
      BY <2>1, <3>1, WorldEnds
  <2> QED
    BY <2>2, <2>3
<1>3. CASE Reboot(d)
  <2>1. home[b] = d => stage[b] = "none"
    BY <1>3 DEF Reboot, Sound
  <2> QED
    BY <1>3, <2>1, WorldEnds DEF Reboot, memory, delphiVars, vars
<1>4. CASE Start(d)
  BY <1>4 DEF Start, provably_gone, world, Sound, Claimed, delphiVars, vars, MemoryTypeOK
<1>5. CASE Drain(d)
  BY <1>5, UntouchedSound DEF Drain, Untouched, world, Claimed, delphiVars, vars
<1> QED
  BY <1>1, <1>2, <1>3, <1>4, <1>5

(* Every step of a daemon, a child or the database keeps it.               *)
LEMMA SoundStep ==
  ASSUME MemoryTypeOK, DelphiIInv, \A a \in Attempts : Sound(a), [JobsNext]_jobsVars,
         NEW b \in Attempts
  PROVE  Sound(b)'
<1>1. CASE DatabaseCall
  <2>1. Claimed(b) => Claimed(b)'
    BY StepIsCall, ClaimedKept
  <2>2. UNCHANGED proved
    BY <1>1 DEF DatabaseCall, pd_admit, pd_alias, binding_expires, pd_release_scope,
                pd_reap_expired, pd_reap_parked, pd_cancel, DelphiTick
  <2> QED
    BY <1>1, <2>1, <2>2, UntouchedSound DEF DatabaseCall, Untouched, memory, world
<1>2. ASSUME NEW a \in Attempts,
             \/ Prepare(a) \/ Watch(a) \/ Conclude(a)
             \/ RetryPending(a) \/ RetryLost(a) \/ ChildExits(a)
      PROVE  Sound(b)'
  <2>1. CASE b = a
    BY <1>2, <2>1, PrepareSound, WatchSound, ConcludeSound
  <2>2. CASE b # a
    BY <1>2, <2>2, OthersUntouched, UntouchedSound
  <2> QED
    BY <2>1, <2>2
<1>3. CASE UNCHANGED jobsVars
  BY <1>3, UntouchedSound
     DEF jobsVars, delphiVars, vars, memory, world, Untouched, Claimed
<1> QED
  BY <1>1, <1>2, <1>3, DaemonSound DEF JobsNext

-----------------------------------------------------------------------------
(* What is in doubt when a child starts.                                   *)

(* A task before its spawn: the claim found nothing of the job in doubt, and *)
(* nobody else can submit for it since.                                      *)
BeforeSpawn == {"renewing", "owned", "journaled"}

Ready(a) == stage[a] \in BeforeSpawn => none_in(attempt[a].job, Unresolved)

(* A request stays as it is, moves on, or is another job's.                *)
Moves(r, j) ==
  \/ provider'[r] = provider[r]
  \/ /\ provider'[r].attempt = provider[r].attempt
     /\ provider_transition(provider[r].state, provider'[r].state)
  \/ /\ provider'[r].attempt \in Attempts
     /\ Claimed(provider'[r].attempt)
     /\ attempt[provider'[r].attempt].job # j

(* No transition leads back into doubt.                                    *)
LEMMA DoubtNeverReturns ==
  ASSUME DelphiIInv, [DelphiNext]_delphiVars, NEW j \in Jobs, none_in(j, Unresolved),
         \A r \in Requests : Moves(r, j)
  PROVE  none_in(j, Unresolved)'
<1> SUFFICES ASSUME NEW r \in Requests, provider'[r].attempt # None,
                    attempt'[provider'[r].attempt].job = j
             PROVE  provider'[r].state \notin Unresolved
  BY DEF none_in, RequestsOf
<1>1. CASE provider'[r].attempt # provider[r].attempt
  BY <1>1, ClaimedKept DEF Moves
<1>2. CASE provider'[r].attempt = provider[r].attempt
  <2>1. provider[r].attempt \in Attempts /\ Claimed(provider[r].attempt)
    BY <1>2 DEF DelphiIInv, DelphiLinked, ProvidersLinked
  <2>2. attempt[provider[r].attempt].job = j
    BY <1>2, <2>1, ClaimedKept
  <2>3. provider[r].state \notin Unresolved
    BY <1>2, <2>2 DEF none_in, RequestsOf
  <2> QED
    BY <1>2, <2>1, <2>2, <2>3, ClaimedKept DEF Moves, provider_transition, Unresolved
<1> QED
  BY <1>1, <1>2

(* While an attempt waits for its spawn no other can submit for its job.   *)
LEMMA RequestsMove ==
  ASSUME DelphiIInv, \A x \in Attempts : Sound(x), [JobsNext]_jobsVars,
         NEW b \in Attempts, stage[b] \in BeforeSpawn,
         NEW j \in Jobs, attempt[b].job = j, NEW r \in Requests
  PROVE  Moves(r, j)
<1> USE DEF delphiVars
<1>1. provider \in [Requests -> ProviderRow]
  BY DEF DelphiIInv, DelphiTypeOK
<1>2. ASSUME NEW a \in Attempts, NEW q \in Requests, NEW s, pd_provider_update(a, q, s)
      PROVE  Moves(r, j)
  BY <1>1, <1>2 DEF pd_provider_update, Moves
<1>3. ASSUME NEW a \in Attempts, NEW q \in Requests, pd_provider_intent(a, q),
             stage[a] = "running"
      PROVE  Moves(r, j)
  <2>1. Claimed(a) /\ job[attempt[a].job].state = "running"
        /\ job[attempt[a].job].attempt = a
        /\ provider' = [provider EXCEPT ![q] = [attempt |-> a, state |-> "intent"]]
    BY <1>3 DEF pd_provider_intent, pq_owns
  <2>2. b # a /\ b \notin proved
    BY <1>3 DEF Sound, BeforeSpawn
  <2>3. attempt[a].job # j
    BY <2>1, <2>2 DEF DelphiIInv, DelphiLinked, RunningLinked, AttemptsOf
  <2> QED
    BY <1>1, <2>1, <2>3 DEF Moves
<1>4. ASSUME provider' = provider PROVE Moves(r, j)
  BY <1>4 DEF Moves
<1>5. ASSUME NEW a \in Attempts,
             \/ Prepare(a) \/ Watch(a) \/ Conclude(a)
             \/ RetryPending(a) \/ RetryLost(a) \/ ChildExits(a)
      PROVE  Moves(r, j)
  <2>1. CASE ProviderCall(a)
    BY <1>2, <1>3, <2>1 DEF ProviderCall
  <2>2. CASE Prepare(a)
    BY <1>4, <2>2 DEF Prepare, Renew, RenewFails, Refuse, WriteEntry, Spawn, RewriteEntry,
                      RewriteFails, pd_heartbeat
  <2>3. CASE Watch(a)
    BY <1>4, <2>1, <2>3 DEF Watch, Beat, LeaseElapses, Reap, Kill, Stuck, pd_heartbeat
  <2>4. ASSUME EndCall(a) \/ ConfirmCall(a) \/ PendingCall(a) PROVE provider' = provider
    BY <2>4 DEF EndCall, ConfirmCall, PendingCall, pd_end_attempt, pd_finalize
  <2>5. CASE Conclude(a)
    BY <1>4, <2>4, <2>5 DEF Conclude, End, Confirm, FinalizeFenced, FinalizeRefused,
                            CallLost, GiveUp
  <2>6. CASE RetryPending(a) \/ RetryLost(a) \/ ChildExits(a)
    BY <1>4, <2>4, <2>6 DEF RetryPending, RetryLost, ChildExits
  <2> QED
    BY <1>5, <2>2, <2>3, <2>5, <2>6
<1>6. ASSUME NEW d \in Daemons,
             \/ Claim(d, "owned") \/ Claim(d, "renewing")
             \/ \E alone \in BOOLEAN : Die(d, alone)
             \/ Reboot(d) \/ Start(d) \/ Drain(d)
      PROVE  Moves(r, j)
  BY <1>4, <1>6 DEF Claim, pd_claim, Die, Reboot, Start, Drain
<1>7. CASE DatabaseCall
  BY <1>4, <1>7 DEF DatabaseCall, pd_admit, pd_alias, binding_expires, pd_release_scope,
                    pd_reap_expired, pd_reap_parked, pd_cancel, DelphiTick
<1>8. CASE UNCHANGED jobsVars
  BY <1>4, <1>8 DEF jobsVars
<1> QED
  BY <1>5, <1>6, <1>7, <1>8 DEF JobsNext

(* Only a claim brings an attempt before its spawn.                        *)
LEMMA OnlyClaimsPrepare ==
  ASSUME MemoryTypeOK, [JobsNext]_jobsVars, NEW b \in Attempts,
         stage'[b] \in BeforeSpawn, stage[b] \notin BeforeSpawn
  PROVE  \E j \in Jobs : pd_claim(j, b)
<1> USE DEF MemoryTypeOK, BeforeSpawn, Go, Forget, Leave, memory, jobsVars
<1>1. ASSUME NEW a \in Attempts, Prepare(a) PROVE FALSE
  BY <1>1 DEF Prepare, Renew, RenewFails, Refuse, WriteEntry, Spawn, RewriteEntry,
              RewriteFails
<1>2. ASSUME NEW a \in Attempts, Watch(a) PROVE FALSE
  BY <1>2 DEF Watch, Beat, LeaseElapses, ProviderCall, Reap, Kill, Stuck
<1>3. ASSUME NEW a \in Attempts, Conclude(a) PROVE FALSE
  BY <1>3 DEF Conclude, End, Confirm, FinalizeFenced, FinalizeRefused, CallLost, GiveUp
<1>4. ASSUME NEW a \in Attempts, RetryPending(a) \/ RetryLost(a) \/ ChildExits(a)
      PROVE  FALSE
  BY <1>4 DEF RetryPending, RetryLost, ChildExits
<1>5. ASSUME NEW d \in Daemons, Claim(d, "owned") \/ Claim(d, "renewing")
      PROVE  \E j \in Jobs : pd_claim(j, b)
  BY <1>5 DEF Claim
<1>6. ASSUME NEW d \in Daemons,
             \/ \E alone \in BOOLEAN : Die(d, alone)
             \/ Reboot(d) \/ Start(d) \/ Drain(d)
      PROVE  FALSE
  BY <1>6 DEF Die, Reboot, Start, Drain
<1>7. CASE DatabaseCall \/ UNCHANGED jobsVars
  BY <1>7 DEF DatabaseCall
<1> QED
  BY <1>1, <1>2, <1>3, <1>4, <1>5, <1>6, <1>7 DEF JobsNext

(* A claim finds nothing in doubt, and nothing comes to be before the spawn. *)
LEMMA ReadyStep ==
  ASSUME MemoryTypeOK, DelphiIInv, \A a \in Attempts : Sound(a), [JobsNext]_jobsVars,
         NEW b \in Attempts, Ready(b)
  PROVE  Ready(b)'
<1> SUFFICES ASSUME stage'[b] \in BeforeSpawn
             PROVE  none_in(attempt[b].job, Unresolved)'
  BY DEF Ready
<1>1. [DelphiNext]_delphiVars
  BY StepIsCall
<1>2. CASE stage[b] \in BeforeSpawn
  <2>1. Claimed(b)
    BY <1>2 DEF Sound, BeforeSpawn
  <2>2. PICK j \in Jobs : j = attempt[b].job
    BY <2>1 DEF DelphiIInv, DelphiLinked, AttemptsLinked
  <2>3. none_in(j, Unresolved)
    BY <1>2, <2>2 DEF Ready
  <2>4. none_in(j, Unresolved)'
    BY <1>1, <1>2, <2>2, <2>3, RequestsMove, DoubtNeverReturns
  <2>5. attempt'[b].job = j
    BY <1>1, <2>1, <2>2, ClaimedKept
  <2> QED
    BY <2>4, <2>5 DEF none_in, RequestsOf
<1>3. CASE stage[b] \notin BeforeSpawn
  <2>1. PICK j \in Jobs : pd_claim(j, b)
    BY <1>3, OnlyClaimsPrepare
  <2>2. none_in(j, Unresolved) /\ \A r \in Requests : Moves(r, j)
    BY <2>1 DEF pd_claim, resolved, Moves
  <2>3. none_in(j, Unresolved)'
    BY <1>1, <2>2, DoubtNeverReturns
  <2>4. attempt'[b].job = j
    BY <2>1 DEF pd_claim, pq_claim, DelphiIInv, DelphiTypeOK, TypeOK
  <2> QED
    BY <2>3, <2>4 DEF none_in, RequestsOf
<1> QED
  BY <1>2, <1>3

-----------------------------------------------------------------------------
(* The invariant of the daemons and their database, and what follows.      *)

JobsIInv ==
  /\ MemoryTypeOK
  /\ DelphiIInv
  /\ \A a \in Attempts : Sound(a) /\ Ready(a)

(* It holds of every run of the daemons.                                   *)
THEOREM JobsInvariantHolds == JobsSpec => []JobsIInv
<1>1. JobsInit => JobsIInv
  <2> SUFFICES ASSUME JobsInit PROVE JobsIInv
    OBVIOUS
  <2>1. MemoryTypeOK
    BY MemoryTypeInit
  <2>2. DelphiIInv
    BY DelphiInitInv DEF JobsInit
  <2>3. ASSUME NEW a \in Attempts PROVE Sound(a) /\ Ready(a)
    BY DEF JobsInit, DelphiInit, Sound, Ready, BeforeSpawn
  <2> QED
    BY <2>1, <2>2, <2>3 DEF JobsIInv
<1>2. JobsIInv /\ [JobsNext]_jobsVars => JobsIInv'
  <2> SUFFICES ASSUME JobsIInv, [JobsNext]_jobsVars PROVE JobsIInv'
    OBVIOUS
  <2>1. MemoryTypeOK'
    BY MemoryTypeStep DEF JobsIInv
  <2>2. DelphiIInv'
    BY StepIsCall, DelphiStepKeeps DEF JobsIInv
  <2>3. ASSUME NEW a \in Attempts PROVE Sound(a)' /\ Ready(a)'
    BY SoundStep, ReadyStep DEF JobsIInv
  <2> QED
    BY <2>1, <2>2, <2>3 DEF JobsIInv
<1> QED
  BY <1>1, <1>2, PTL DEF JobsSpec

(* The daemons' memory and the world around them keep their types.         *)
THEOREM DaemonsWellTyped == JobsSpec => []JobsTypeOK
<1>1. JobsIInv => JobsTypeOK
  BY DEF JobsIInv, MemoryTypeOK, DelphiIInv, JobsTypeOK
<1> QED
  BY <1>1, JobsInvariantHolds, PTL

(* No exit is confirmed of a process that lives, on any path: task.rs's own *)
(* end calls, the main loop's repeats, and the recovery from the journal.   *)
THEOREM NoLiveExitConfirmed == JobsSpec => []ExitsAreReal
<1>1. JobsIInv => ExitsAreReal
  BY DEF JobsIInv, Sound, ExitsAreReal, DelphiIInv, DelphiTypeOK
<1> QED
  BY <1>1, JobsInvariantHolds, PTL

(* A live process has its journal entry, so recovery (claim.rs) sees it.   *)
THEOREM RecoveryFindsProcesses == JobsSpec => []ProcessesAreJournaled
<1>1. JobsIInv => ProcessesAreJournaled
  BY DEF JobsIInv, Sound, ProcessesAreJournaled
<1> QED
  BY <1>1, JobsInvariantHolds, PTL

(* One process per scope: a live process is unproved, so its job is busy    *)
(* and holds the scope (pd_release_scope), and no second attempt of the job *)
(* may be unproved (pq_claim).                                              *)
THEOREM OneProcessPerScope == JobsSpec => []ScopeHasOneProcess
<1>1. JobsIInv => ScopeHasOneProcess
  <2> SUFFICES ASSUME JobsIInv, NEW a \in Attempts, NEW b \in Attempts,
                      child[a] = "alive", child[b] = "alive",
                      run[attempt[a].job].product = run[attempt[b].job].product
               PROVE  a = b
    BY DEF ScopeHasOneProcess
  <2>1. ASSUME NEW x \in Attempts, child[x] = "alive"
        PROVE  /\ Claimed(x) /\ x \notin proved
               /\ guard[run[attempt[x].job].product].job = attempt[x].job
    <3>1. Claimed(x) /\ x \notin proved
      BY <2>1 DEF JobsIInv, Sound
    <3>2. attempt[x].job \in Jobs /\ job[attempt[x].job].state # "absent"
      BY <3>1 DEF JobsIInv, DelphiIInv, DelphiLinked, AttemptsLinked
    <3>3. Busy(attempt[x].job)
      BY <3>1, <3>2 DEF Busy, exits_proved, AttemptsOf
    <3> QED
      BY <3>1, <3>2, <3>3 DEF JobsIInv, DelphiIInv, ScopeHeld
  <2> QED
    BY <2>1 DEF JobsIInv, DelphiIInv, OneProcess
<1> QED
  BY <1>1, JobsInvariantHolds, PTL

(* No child starts while a submission of its job is in doubt (pq_claim,     *)
(* pq_end_attempt): between its claim and its spawn nobody else owns it.    *)
THEOREM NoChildStartsInDoubt == JobsSpec => ChildrenStartResolved
<1>1. JobsIInv /\ [JobsNext]_jobsVars =>
        [\A a \in Attempts :
           child[a] = "none" /\ child'[a] = "alive"
             => none_in(attempt[a].job, Unresolved)]_jobsVars
  <2> SUFFICES ASSUME JobsIInv, JobsNext, NEW a \in Attempts,
                      child[a] = "none", child'[a] = "alive"
               PROVE  none_in(attempt[a].job, Unresolved)
    OBVIOUS
  <2>1. stage[a] = "journaled"
    <3> USE DEF JobsIInv, MemoryTypeOK, Go, world
    <3>1. ASSUME NEW b \in Attempts, Prepare(b) PROVE stage[a] = "journaled"
      BY <3>1 DEF Prepare, Renew, RenewFails, Refuse, WriteEntry, Spawn, RewriteEntry,
                  RewriteFails
    <3>2. ASSUME NEW b \in Attempts, Watch(b) PROVE FALSE
      BY <3>2 DEF Watch, Beat, LeaseElapses, ProviderCall, Reap, Kill, Stuck
    <3>3. ASSUME NEW b \in Attempts, Conclude(b) PROVE FALSE
      BY <3>3 DEF Conclude, End, Confirm, FinalizeFenced, FinalizeRefused, CallLost,
                  GiveUp, Leave
    <3>4. ASSUME NEW b \in Attempts, RetryPending(b) \/ RetryLost(b) \/ ChildExits(b)
          PROVE  FALSE
      BY <3>4 DEF RetryPending, RetryLost, ChildExits
    <3>5. ASSUME NEW d \in Daemons,
                 \/ Claim(d, "owned") \/ Claim(d, "renewing") \/ Start(d) \/ Drain(d)
          PROVE  FALSE
      BY <3>5 DEF Claim, Start, Drain
    <3>6. ASSUME NEW d \in Daemons, EndWorld(d) PROVE FALSE
      BY <3>6 DEF EndWorld
    <3>7. ASSUME NEW d \in Daemons, (\E alone \in BOOLEAN : Die(d, alone)) \/ Reboot(d)
          PROVE  FALSE
      BY <3>6, <3>7 DEF Die, Reboot
    <3>8. CASE DatabaseCall
      BY <3>8 DEF DatabaseCall
    <3> QED
      BY <3>1, <3>2, <3>3, <3>4, <3>5, <3>7, <3>8 DEF JobsNext
  <2> QED
    BY <2>1 DEF JobsIInv, Ready, BeforeSpawn
<1> QED
  BY <1>1, JobsInvariantHolds, PTL DEF JobsSpec, ChildrenStartResolved

(* What is proved of the database holds with the daemons as its callers, and *)
(* with all their crashes, lost answers and late calls: the guards are a     *)
(* scope lock, a lost token stays lost, only an owner clears paid work, and a *)
(* job settles once (pd_release_scope, pq_owns, pd_provider_update).         *)
THEOREM DaemonsKeepTheLock ==
  JobsSpec => /\ ImplementsScopeLock /\ TokenStaysFenced
              /\ PaidWorkClearedByOwner /\ SettledForGood
BY DaemonsUseTheDatabase, GuardsAreAScopeLock, DelphiTokensStayFenced, OnlyOwnersClear,
   JobsSettleOnce, PTL

(* So do the records and the bounds on what may fail: a job, its run and its  *)
(* attempts tell one story, the latch closes a scope in time, and no job waits *)
(* for a claim that its budget refuses (pq_enqueue, pq_claim).               *)
THEOREM DaemonsKeepTheRecords ==
  JobsSpec => [](SingleOwner /\ EpochsOrdered /\ SuccessHasOneAttempt /\ RunMirrorsJob
                   /\ PoisonBounds /\ BudgetLeft)
BY DaemonsUseTheDatabase, DelphiTellsOneStory, PoisonNeverSpreads, DelphiBudgetNeverStrands,
   PTL

-----------------------------------------------------------------------------
(* No exit is lost: what ExitsGetRecorded rests on besides fairness.       *)

\* Somebody will tell the database: the task, the main loop of its daemon, or
\* the daemon's next start.
InHand(a) ==
  \/ stage[a] \in {"spawned", "running", "reaped"}
  \/ pending[a] # "none"
  \/ home[a] \notin up /\ a \in stale

\* A process whose exit the database does not know, alive or not, still has its
\* journal entry, if entries can be written; and in a container, where a daemon
\* and its children end together and a kill works, somebody will report it.
ExitsAreKept ==
  \A a \in Attempts : child[a] # "none" /\ a \notin proved =>
    /\ "journal" \notin Faults => entry[a] # "none"
    /\ Faults = {} => InHand(a)

(* It lasts because a task that is past its proof has it recorded, and one  *)
(* that refuses has started nothing that it did not prove ended.            *)
ExitKept(a) ==
  /\ stage[a] = "confirmed" => a \in proved
  /\ "journal" \notin Faults /\ stage[a] = "refusing" => child[a] = "none"
  /\ child[a] # "none" /\ a \notin proved =>
       /\ "journal" \notin Faults => entry[a] # "none"
       /\ Faults = {} => InHand(a)

LEMMA UntouchedKeepsExit ==
  ASSUME NEW a \in Attempts, ExitKept(a), Untouched(a), up' = up
  PROVE  ExitKept(a)'
BY DEF ExitKept, Untouched, InHand

LEMMA TasksStayInDaemons ==
  ASSUME NEW a \in Attempts,
         \/ Prepare(a) \/ Watch(a) \/ Conclude(a)
         \/ RetryPending(a) \/ RetryLost(a) \/ ChildExits(a)
  PROVE  up' = up /\ home' = home /\ stale' = stale
<1> USE DEF memory, world, Leave
<1>1. CASE Prepare(a)
  BY <1>1 DEF Prepare, Renew, RenewFails, Refuse, WriteEntry, Spawn, RewriteEntry,
              RewriteFails
<1>2. CASE Watch(a)
  BY <1>2 DEF Watch, Beat, LeaseElapses, ProviderCall, Reap, Kill, Stuck
<1>3. CASE Conclude(a)
  BY <1>3 DEF Conclude, End, Confirm, FinalizeFenced, FinalizeRefused, CallLost, GiveUp
<1>4. CASE RetryPending(a) \/ RetryLost(a) \/ ChildExits(a)
  BY <1>4 DEF RetryPending, RetryLost, ChildExits
<1> QED
  BY <1>1, <1>2, <1>3, <1>4

LEMMA PrepareKeepsExit ==
  ASSUME MemoryTypeOK, NEW a \in Attempts, Sound(a), ExitKept(a), Prepare(a)
  PROVE  ExitKept(a)'
<1>1. UNCHANGED <<proved, up, home, stale>>
  BY TasksStayInDaemons
     DEF Prepare, Renew, RenewFails, Refuse, WriteEntry, Spawn, RewriteEntry,
         RewriteFails, pd_heartbeat, delphiVars
<1> USE <1>1 DEF Sound, ExitKept, InHand, Go, MemoryTypeOK, world
<1>2. CASE Renew(a) \/ RenewFails(a) \/ Refuse(a)
  BY <1>2 DEF Renew, RenewFails, Refuse
<1>3. CASE WriteEntry(a)
  BY <1>3 DEF WriteEntry
<1>4. CASE Spawn(a)
  BY <1>4 DEF Spawn
<1>5. CASE RewriteEntry(a)
  BY <1>5 DEF RewriteEntry
<1>6. CASE RewriteFails(a)
  BY <1>6 DEF RewriteFails
<1> QED
  BY <1>2, <1>3, <1>4, <1>5, <1>6 DEF Prepare

LEMMA WatchKeepsExit ==
  ASSUME MemoryTypeOK, NEW a \in Attempts, Sound(a), ExitKept(a), Watch(a)
  PROVE  ExitKept(a)'
<1>1. UNCHANGED <<proved, up, home, stale>>
  BY TasksStayInDaemons
     DEF Watch, Beat, LeaseElapses, ProviderCall, Reap, Kill, Stuck, pd_heartbeat,
         pd_provider_intent, pd_provider_update, delphiVars
<1> USE <1>1 DEF Sound, ExitKept, InHand, Go, MemoryTypeOK, world
<1>2. CASE Beat(a) \/ LeaseElapses(a) \/ ProviderCall(a)
  BY <1>2 DEF Beat, LeaseElapses, ProviderCall, memory
<1>3. CASE Reap(a)
  BY <1>3 DEF Reap
<1>4. CASE Kill(a)
  BY <1>4 DEF Kill
<1>5. CASE Stuck(a)
  BY <1>5 DEF Stuck, Forget
<1> QED
  BY <1>2, <1>3, <1>4, <1>5 DEF Watch

(* An entry goes only with its proof, or where nothing was started.        *)
LEMMA ConcludeKeepsExit ==
  ASSUME MemoryTypeOK, NEW a \in Attempts, Sound(a), ExitKept(a),
         Conclude(a) \/ RetryPending(a) \/ RetryLost(a) \/ ChildExits(a)
  PROVE  ExitKept(a)'
<1>1. (proved' = proved \/ proved' = proved \cup {a}) /\ UNCHANGED <<up, home, stale>>
  BY OthersUnproved, TasksStayInDaemons
<1>2. EndCall(a) => a \in proved'
  <2>1. EndCall(a) /\ stage[a] = "confirmed" => a \in proved
    BY DEF ExitKept
  <2> QED
    BY <1>1, <2>1 DEF EndCall, pd_end_attempt, pd_finalize
<1>3. ConfirmCall(a) \/ PendingCall(a) => a \in proved'
  BY DEF ConfirmCall, PendingCall, pd_end_attempt
<1> USE DEF ExitKept, MemoryTypeOK, world
<1>4. CASE End(a) \/ Confirm(a) \/ RetryPending(a)
  <2>1. a \in proved'
    BY <1>2, <1>3, <1>4 DEF End, Confirm, RetryPending
  <2>2. stage'[a] # "refusing"
    BY <1>4 DEF End, Leave, Forget, Confirm, Go, RetryPending, Sound, PendingCall
  <2> QED
    BY <2>1, <2>2
<1>5. CASE FinalizeFenced(a)
  BY <1>1, <1>5 DEF FinalizeFenced, Leave, Forget
<1>6. CASE FinalizeRefused(a)
  BY <1>1, <1>6 DEF FinalizeRefused, delphiVars, InHand
<1>7. CASE CallLost(a) \/ RetryLost(a)
  <2>1. a \in proved' /\ UNCHANGED <<stage, child>>
    BY <1>2, <1>3, <1>7 DEF CallLost, RetryLost, memory
  <2> QED
    BY <2>1
<1>8. CASE GiveUp(a)
  BY <1>1, <1>8 DEF GiveUp, Leave, Forget, delphiVars, InHand, Sound
<1>9. CASE ChildExits(a)
  BY <1>1, <1>9 DEF ChildExits, memory, delphiVars, InHand
<1> QED
  BY <1>4, <1>5, <1>6, <1>7, <1>8, <1>9 DEF Conclude

(* A daemon's end makes its entries stale, and its start reports them.     *)
LEMMA DaemonKeepsExit ==
  ASSUME MemoryTypeOK, \A a \in Attempts : Sound(a) /\ ExitKept(a), NEW d \in Daemons,
         \/ Claim(d, "owned") \/ Claim(d, "renewing")
         \/ \E alone \in BOOLEAN : Die(d, alone)
         \/ Reboot(d) \/ Start(d) \/ Drain(d),
         NEW b \in Attempts
  PROVE  ExitKept(b)'
<1>0. Sound(b) /\ ExitKept(b)
  OBVIOUS
<1> USE <1>0 DEF ExitKept, InHand, Sound, MemoryTypeOK
<1>1. ASSUME NEW next \in {"owned", "renewing"}, Claim(d, next)
      PROVE  ExitKept(b)'
  <2>1. PICK j \in Jobs, a \in Attempts :
          /\ pd_claim(j, a)
          /\ Go(a, {"none"}, next)
          /\ home' = [home EXCEPT ![a] = d]
          /\ UNCHANGED <<up, draining, plan, fenced, pending, child, entry, stale>>
    BY <1>1 DEF Claim
  <2>2. ~Claimed(a) /\ UNCHANGED proved
    BY <2>1 DEF pd_claim, pq_claim
  <2>3. CASE b = a
    BY <2>1, <2>2, <2>3 DEF Go
  <2>4. CASE b # a
    BY <2>1, <2>2, <2>4 DEF Go
  <2> QED
    BY <2>3, <2>4
<1>2. ASSUME EndWorld(d), up' = up \ {d}, UNCHANGED <<entry, home, proved>>,
             home[b] = d => stage'[b] = "none",
             home[b] # d => stage'[b] = stage[b] /\ pending'[b] = pending[b]
      PROVE  ExitKept(b)'
  <2>1. CASE home[b] = d
    BY <1>2, <2>1 DEF EndWorld, AttemptsAt
  <2>2. CASE home[b] # d
    BY <1>2, <2>2 DEF EndWorld, AttemptsAt
  <2> QED
    BY <2>1, <2>2
<1>3. ASSUME NEW alone \in BOOLEAN, Die(d, alone)
      PROVE  ExitKept(b)'
  <2>1. /\ UNCHANGED <<entry, home, proved>> /\ up' = up \ {d}
        /\ stage'[b] = IF home[b] = d THEN "none" ELSE stage[b]
        /\ pending'[b] = IF home[b] = d THEN "none" ELSE pending[b]
    BY <1>3 DEF Die, Forget, AttemptsAt, delphiVars
  <2>2. CASE alone
    BY <1>3, <2>1, <2>2 DEF Die
  <2>3. CASE ~alone
    BY <1>2, <1>3, <2>1, <2>3 DEF Die
  <2> QED
    BY <2>2, <2>3
<1>4. CASE Reboot(d)
  <2>1. EndWorld(d) /\ UNCHANGED <<up, entry, home, proved, stage, pending>> /\ d \notin up
    BY <1>4 DEF Reboot, memory, delphiVars
  <2> QED
    BY <1>2, <2>1
<1>5. CASE Start(d)
  <2>1. /\ up' = up \cup {d} /\ UNCHANGED <<entry, home, child, stale, proved, stage>>
        /\ pending'[b] = IF home[b] = d /\ entry[b] # "none" /\ provably_gone(b)
                         THEN "fail" ELSE pending[b]
    BY <1>5 DEF Start, world, delphiVars
  <2> QED
    BY <2>1 DEF provably_gone
<1>6. CASE Drain(d)
  BY <1>6 DEF Drain, world, delphiVars
<1> QED
  BY <1>1, <1>3, <1>4, <1>5, <1>6

LEMMA ExitKeptStep ==
  ASSUME JobsIInv, \A a \in Attempts : ExitKept(a), [JobsNext]_jobsVars, NEW b \in Attempts
  PROVE  ExitKept(b)'
<1> USE DEF JobsIInv
<1>1. ASSUME UNCHANGED <<memory, world, proved>> PROVE ExitKept(b)'
  BY <1>1 DEF ExitKept, InHand, memory, world
<1>2. CASE DatabaseCall
  <2>1. UNCHANGED proved
    BY <1>2 DEF DatabaseCall, pd_admit, pd_alias, binding_expires, pd_release_scope,
                pd_reap_expired, pd_reap_parked, pd_cancel, DelphiTick
  <2> QED
    BY <1>1, <1>2, <2>1 DEF DatabaseCall
<1>3. ASSUME NEW a \in Attempts,
             \/ Prepare(a) \/ Watch(a) \/ Conclude(a)
             \/ RetryPending(a) \/ RetryLost(a) \/ ChildExits(a)
      PROVE  ExitKept(b)'
  <2>1. CASE b = a
    BY <1>3, <2>1, PrepareKeepsExit, WatchKeepsExit, ConcludeKeepsExit
  <2>2. CASE b # a
    BY <1>3, <2>2, OthersUntouched, TasksStayInDaemons, UntouchedKeepsExit
  <2> QED
    BY <2>1, <2>2
<1>4. CASE UNCHANGED jobsVars
  BY <1>1, <1>4 DEF jobsVars, delphiVars
<1> QED
  BY <1>2, <1>3, <1>4, DaemonKeepsExit DEF JobsNext

(* Lost answers, kills, fences and crashes at any point of a task never take *)
(* the last trace of a process whose exit is not recorded (task.rs           *)
(* exit_proof_pending, claim.rs retry_pending and recover).                 *)
THEOREM NoExitIsLost == JobsSpec => []ExitsAreKept
<1>1. JobsInit => \A a \in Attempts : ExitKept(a)
  BY DEF JobsInit, ExitKept
<1>2. JobsIInv /\ (\A a \in Attempts : ExitKept(a)) /\ [JobsNext]_jobsVars
        => (\A a \in Attempts : ExitKept(a))'
  BY ExitKeptStep
<1>3. (\A a \in Attempts : ExitKept(a)) => ExitsAreKept
  BY DEF ExitKept, ExitsAreKept
<1> QED
  BY <1>1, <1>2, <1>3, JobsInvariantHolds, PTL DEF JobsSpec
=============================================================================
