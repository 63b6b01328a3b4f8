----------------------------- MODULE NoopProofs -----------------------------
(***************************************************************************)
(* Proofs about NoopExecutor, for every set of executors, jobs, products,  *)
(* keys and attempts, every budget and any number of crashes and lost      *)
(* replies.                                                                *)
(***************************************************************************)
EXTENDS NoopExecutor, PolisQueueProofs

-----------------------------------------------------------------------------
(* What one call of the database does, as far as its callers can tell: a    *)
(* claimed attempt stays claimed and a succeeded one succeeded; only an     *)
(* owner in S succeeds, and only an attempt whose lease ran out expires; a  *)
(* job's version never falls, and where it stays so do state and owner;     *)
(* only a job in C is cancelled.                                            *)

AttemptMoves(a, S) ==
  /\ Claimed(a) => Claimed(a)'
  /\ attempt[a].outcome = "succeeded" => attempt'[a].outcome = "succeeded"
  /\ attempt'[a].outcome = "succeeded"
       => attempt[a].outcome = "succeeded" \/ (a \in S /\ pq_owns(a))
  /\ attempt[a].outcome = "running" /\ attempt'[a].outcome = "expired" => ~pq_owns(a)

JobMoves(j, C) ==
  /\ job[j].state # "absent" => job'[j].state # "absent"
  /\ job[j].mgmt <= job'[j].mgmt
  /\ job[j].state # "absent" /\ job'[j].mgmt = job[j].mgmt
       => job'[j].state = job[j].state /\ job'[j].attempt = job[j].attempt
  /\ job'[j].state = "cancelled" => job[j].state = "cancelled" \/ j \in C

Moves(S, C) ==
  (\A a \in Attempts : AttemptMoves(a, S)) /\ (\A j \in Jobs : JobMoves(j, C))

(* Attempts that stay as they are, and jobs that move on to a new version. *)
LEMMA SameAttempt ==
  ASSUME NEW a, NEW S, attempt'[a].outcome = attempt[a].outcome
  PROVE  AttemptMoves(a, S)
BY DEF AttemptMoves, Claimed

LEMMA SameJob ==
  ASSUME NEW j, NEW C, job[j].mgmt \in Nat, job'[j].mgmt = job[j].mgmt,
         job'[j].state = job[j].state, job'[j].attempt = job[j].attempt
  PROVE  JobMoves(j, C)
BY DEF JobMoves

LEMMA NewVersion ==
  ASSUME NEW j, NEW C, job[j].mgmt \in Nat, job'[j].mgmt = job[j].mgmt + 1,
         job'[j].state # "absent", job'[j].state = "cancelled" => j \in C
  PROVE  JobMoves(j, C)
BY DEF JobMoves

(* An attempt that ends without success, with its job. *)
LEMMA EndingMoves ==
  ASSUME IInv, NEW a \in Attempts, attempt[a].job \in Jobs,
         attempt[a].outcome = "running",
         NEW s \in {"retry_wait", "parked", "dead"},
         NEW o \in Outcomes \ {"absent", "succeeded"}, o = "expired" => ~pq_owns(a),
         NEW i, pq_terminate_attempt(a, s, o, i), NEW S, NEW C
  PROVE  Moves(S, C)
<1> DEFINE x == attempt[a].job
<1>1. PICK w \in IF i \/ s = "dead" THEN {0} ELSE 1..WaitTicks :
        job' = [job EXCEPT ![x].state = s, ![x].terminal = a,
          ![x].attempt = None, ![x].lease = 0, ![x].epoch = @ + 1,
          ![x].mgmt = @ + 1, ![x].wait = w,
          ![x].parked = IF s = "parked" THEN @ + 1 ELSE @]
  BY DEF pq_terminate_attempt, terminate
<1>2. attempt' = [attempt EXCEPT ![a].outcome = o]
  BY DEF pq_terminate_attempt, terminate
<1> HIDE DEF x
<1>3. ASSUME NEW j \in Jobs
      PROVE  JobMoves(j, C)
  <2>1. job[j].mgmt \in Nat
    BY DEF IInv, TypeOK, JobRow
  <2>2. CASE j = x
    <3>1. job'[j].mgmt = job[j].mgmt + 1 /\ job'[j].state = s
      BY <1>1, <2>2 DEF IInv, TypeOK, JobRow
    <3> QED
      BY <2>1, <3>1, NewVersion
  <2>3. CASE j # x
    <3>1. job'[j] = job[j]
      BY <1>1, <2>3 DEF IInv, TypeOK
    <3> QED
      BY <2>1, <3>1, SameJob
  <2> QED
    BY <2>2, <2>3
<1>4. ASSUME NEW b \in Attempts
      PROVE  AttemptMoves(b, S)
  <2>1. CASE b = a
    <3>1. attempt'[b].outcome = o
      BY <1>2, <2>1 DEF IInv, TypeOK, AttemptRow
    <3> QED
      BY <2>1, <3>1 DEF AttemptMoves, Claimed
  <2>2. CASE b # a
    <3>1. attempt'[b] = attempt[b]
      BY <1>2, <2>2 DEF IInv, TypeOK
    <3> QED
      BY <3>1, SameAttempt
  <2> QED
    BY <2>1, <2>2
<1> QED
  BY <1>3, <1>4 DEF Moves

LEMMA EnqueueMoves ==
  ASSUME IInv, NEW p \in Products, NEW k \in Keys, NEW d \in Digests, NEW x \in Jobs,
         pq_enqueue(p, k, d, x), NEW S, NEW C
  PROVE  Moves(S, C)
<1>1. /\ attempt' = attempt /\ job[x].state = "absent"
      /\ job' = [job EXCEPT ![x].state = "queued"]
  BY DEF pq_enqueue
<1>2. ASSUME NEW j \in Jobs
      PROVE  JobMoves(j, C)
  <2>1. job[j].mgmt \in Nat
    BY DEF IInv, TypeOK, JobRow
  <2>2. CASE j = x
    <3>1. job'[j].mgmt = job[j].mgmt /\ job'[j].state = "queued"
      BY <1>1, <2>2 DEF IInv, TypeOK, JobRow
    <3> QED
      BY <1>1, <2>1, <2>2, <3>1 DEF JobMoves
  <2>3. CASE j # x
    <3>1. job'[j] = job[j]
      BY <1>1, <2>3 DEF IInv, TypeOK
    <3> QED
      BY <2>1, <3>1, SameJob
  <2> QED
    BY <2>2, <2>3
<1>3. \A a \in Attempts : AttemptMoves(a, S)
  BY <1>1, SameAttempt
<1> QED
  BY <1>2, <1>3 DEF Moves

LEMMA ClaimMoves ==
  ASSUME IInv, NEW x \in Jobs, NEW b \in Attempts, pq_claim(x, b), NEW S, NEW C
  PROVE  Moves(S, C)
<1>1. /\ ~Claimed(b)
      /\ job' = [job EXCEPT ![x].state = "running", ![x].attempt = b,
           ![x].lease = LeaseTicks, ![x].epoch = claim_epoch(x),
           ![x].mgmt = @ + 1, ![x].count = @ + 1]
      /\ attempt' = [attempt EXCEPT
           ![b] = [job |-> x, epoch |-> claim_epoch(x), outcome |-> "running"]]
  BY DEF pq_claim
<1>2. ASSUME NEW j \in Jobs
      PROVE  JobMoves(j, C)
  <2>1. job[j].mgmt \in Nat
    BY DEF IInv, TypeOK, JobRow
  <2>2. CASE j = x
    <3>1. job'[j].mgmt = job[j].mgmt + 1 /\ job'[j].state = "running"
      BY <1>1, <2>2 DEF IInv, TypeOK, JobRow
    <3> QED
      BY <2>1, <3>1, NewVersion
  <2>3. CASE j # x
    <3>1. job'[j] = job[j]
      BY <1>1, <2>3 DEF IInv, TypeOK
    <3> QED
      BY <2>1, <3>1, SameJob
  <2> QED
    BY <2>2, <2>3
<1>3. ASSUME NEW a \in Attempts
      PROVE  AttemptMoves(a, S)
  <2>1. CASE a = b
    <3>1. attempt'[a].outcome = "running"
      BY <1>1, <2>1 DEF IInv, TypeOK
    <3> QED
      BY <1>1, <2>1, <3>1 DEF AttemptMoves, Claimed
  <2>2. CASE a # b
    <3>1. attempt'[a] = attempt[a]
      BY <1>1, <2>2 DEF IInv, TypeOK
    <3> QED
      BY <3>1, SameAttempt
  <2> QED
    BY <2>1, <2>2
<1> QED
  BY <1>2, <1>3 DEF Moves

(* Leases and due times move no version. *)
LEMMA TimesMove ==
  ASSUME IInv, attempt' = attempt,
         \A j \in Jobs : /\ job'[j].mgmt = job[j].mgmt /\ job'[j].state = job[j].state
                         /\ job'[j].attempt = job[j].attempt,
         NEW S, NEW C
  PROVE  Moves(S, C)
<1>1. \A j \in Jobs : job[j].mgmt \in Nat
  BY DEF IInv, TypeOK, JobRow
<1> QED
  BY <1>1, SameJob, SameAttempt DEF Moves

LEMMA HeartbeatMoves ==
  ASSUME IInv, NEW a \in Attempts, pq_heartbeat(a), NEW S, NEW C
  PROVE  Moves(S, C)
<1> DEFINE x == attempt[a].job
<1>1. attempt' = attempt /\ job' = [job EXCEPT ![x].lease = LeaseTicks]
  BY DEF pq_heartbeat
<1> HIDE DEF x
<1>2. \A j \in Jobs : /\ job'[j].mgmt = job[j].mgmt /\ job'[j].state = job[j].state
                      /\ job'[j].attempt = job[j].attempt
  BY <1>1 DEF IInv, TypeOK, JobRow
<1> QED
  BY <1>1, <1>2, TimesMove

LEMMA TickMoves ==
  ASSUME IInv, Tick, NEW S, NEW C
  PROVE  Moves(S, C)
<1>1. ASSUME NEW j \in Jobs
      PROVE  /\ job'[j].mgmt = job[j].mgmt /\ job'[j].state = job[j].state
             /\ job'[j].attempt = job[j].attempt
  <2>1. /\ job[j] \in JobRow
        /\ job'[j] = [job[j] EXCEPT !.lease = IF @ > 0 THEN @ - 1 ELSE 0,
                                    !.wait = IF @ > 0 THEN @ - 1 ELSE 0]
    BY DEF Tick, IInv, TypeOK
  <2> QED
    BY <2>1 DEF JobRow
<1> QED
  BY <1>1, TimesMove DEF Tick

LEMMA StutterMoves ==
  ASSUME IInv, UNCHANGED vars, NEW S, NEW C
  PROVE  Moves(S, C)
BY TimesMove DEF vars

LEMMA FinalizeMoves ==
  ASSUME IInv, NEW a \in Attempts, pq_finalize(a), NEW C
  PROVE  Moves({a}, C)
<1> DEFINE x == attempt[a].job
<1>1. /\ attempt' = [attempt EXCEPT ![a].outcome = "succeeded"]
      /\ job' = [job EXCEPT ![x].state = "succeeded", ![x].terminal = a,
                 ![x].attempt = None, ![x].lease = 0, ![x].mgmt = @ + 1]
      /\ pq_owns(a)
  BY DEF pq_finalize, succeed
<1> HIDE DEF x
<1>2. ASSUME NEW j \in Jobs
      PROVE  JobMoves(j, C)
  <2>1. job[j].mgmt \in Nat
    BY DEF IInv, TypeOK, JobRow
  <2>2. CASE j = x
    <3>1. job'[j].mgmt = job[j].mgmt + 1 /\ job'[j].state = "succeeded"
      BY <1>1, <2>2 DEF IInv, TypeOK, JobRow
    <3> QED
      BY <2>1, <3>1, NewVersion
  <2>3. CASE j # x
    <3>1. job'[j] = job[j]
      BY <1>1, <2>3 DEF IInv, TypeOK
    <3> QED
      BY <2>1, <3>1, SameJob
  <2> QED
    BY <2>2, <2>3
<1>3. ASSUME NEW b \in Attempts
      PROVE  AttemptMoves(b, {a})
  <2>1. CASE b = a
    <3>1. attempt'[b].outcome = "succeeded"
      BY <1>1, <2>1 DEF IInv, TypeOK, AttemptRow
    <3> QED
      BY <1>1, <2>1, <3>1 DEF AttemptMoves, Claimed
  <2>2. CASE b # a
    <3>1. attempt'[b] = attempt[b]
      BY <1>1, <2>2 DEF IInv, TypeOK
    <3> QED
      BY <3>1, SameAttempt
  <2> QED
    BY <2>1, <2>2
<1> QED
  BY <1>2, <1>3 DEF Moves

LEMMA EndAttemptMoves ==
  ASSUME IInv, NEW a \in Attempts,
         NEW action \in {"retry", "permanent", "release", "park"},
         pq_end_attempt(a, action), NEW S, NEW C
  PROVE  Moves(S, C)
<1> DEFINE s == CASE action = "park" -> "parked"
                  [] action = "permanent" -> "dead"
                  [] OTHER -> ended(attempt[a].job)
<1>1. Claimed(a) /\ pq_owns(a) /\ pq_terminate_attempt(a, s, s, action = "release")
  BY DEF pq_end_attempt
<1>2. s \in {"retry_wait", "parked", "dead"}
  BY DEF ended
<1> HIDE DEF s
<1>3. s \in Outcomes \ {"absent", "succeeded"} /\ s # "expired"
  BY <1>2 DEF Outcomes
<1>4. attempt[a].job \in Jobs /\ attempt[a].outcome = "running"
  BY <1>1, OwnerIsRunning DEF IInv, SingleOwner
<1> QED
  BY <1>1, <1>2, <1>3, <1>4, EndingMoves

LEMMA ReapMoves ==
  ASSUME IInv, NEW x \in Jobs, pq_reap_one(x), NEW S, NEW C
  PROVE  Moves(S, C)
<1>1. CASE reap_expired(x)
  <2> DEFINE a == job[x].attempt
  <2>1. /\ a \in Attempts /\ attempt[a].job = x /\ attempt[a].outcome = "running"
        /\ pq_terminate_attempt(a, ended(x), "expired", FALSE)
    BY <1>1 DEF reap_expired, IInv, RowsLinked, OwnersLinked, SingleOwner
  <2>2. ended(x) \in {"retry_wait", "parked", "dead"}
    BY DEF ended
  <2>3. ~pq_owns(a)
    BY <1>1, <2>1 DEF reap_expired, pq_owns
  <2>4. "expired" \in Outcomes \ {"absent", "succeeded"}
    BY DEF Outcomes
  <2> HIDE DEF a
  <2> QED
    BY <2>1, <2>2, <2>3, <2>4, EndingMoves
<1>2. CASE reap_parked(x)
  <2>1. PICK s \in {"dead", "queued"} :
          job' = [job EXCEPT ![x].state = s, ![x].mgmt = @ + 1]
    BY <1>2 DEF reap_parked
  <2>2. attempt' = attempt
    BY <1>2 DEF reap_parked
  <2>3. ASSUME NEW j \in Jobs
        PROVE  JobMoves(j, C)
    <3>1. job[j].mgmt \in Nat
      BY DEF IInv, TypeOK, JobRow
    <3>2. CASE j = x
      <4>1. job'[j].mgmt = job[j].mgmt + 1 /\ job'[j].state = s
        BY <2>1, <3>2 DEF IInv, TypeOK, JobRow
      <4> QED
        BY <3>1, <4>1, NewVersion
    <3>3. CASE j # x
      <4>1. job'[j] = job[j]
        BY <2>1, <3>3 DEF IInv, TypeOK
      <4> QED
        BY <3>1, <4>1, SameJob
    <3> QED
      BY <3>2, <3>3
  <2> QED
    BY <2>2, <2>3, SameAttempt DEF Moves
<1> QED
  BY <1>1, <1>2 DEF pq_reap_one

LEMMA CancelMoves ==
  ASSUME IInv, NEW x \in Jobs, pq_cancel(x, job[x].mgmt), NEW S
  PROVE  Moves(S, {x})
<1>1. ASSUME NEW j \in Jobs
      PROVE  JobMoves(j, {x})
  <2>1. job[j].mgmt \in Nat
    BY DEF IInv, TypeOK, JobRow
  <2>2. CASE j = x
    <3>1. job'[j].mgmt = job[j].mgmt + 1 /\ job'[j].state = "cancelled"
      BY <2>2 DEF pq_cancel, IInv, TypeOK, JobRow
    <3> QED
      BY <2>1, <2>2, <3>1, NewVersion
  <2>3. CASE j # x
    <3>1. job'[j] = job[j]
      BY <2>3 DEF pq_cancel, IInv, TypeOK
    <3> QED
      BY <2>1, <3>1, SameJob
  <2> QED
    BY <2>2, <2>3
<1>2. ASSUME NEW a \in Attempts
      PROVE  AttemptMoves(a, S)
  <2> DEFINE b == job[x].attempt
  <2>1. CASE b # None /\ a = b
    <3>1. attempt[a].outcome = "running"
      BY <2>1 DEF IInv, RowsLinked, OwnersLinked, SingleOwner
    <3>2. attempt'[a].outcome = "cancelled"
      BY <2>1 DEF pq_cancel, IInv, TypeOK, AttemptRow
    <3> QED
      BY <3>1, <3>2 DEF AttemptMoves, Claimed
  <2>2. CASE b = None \/ a # b
    <3>1. attempt'[a] = attempt[a]
      BY <2>2 DEF pq_cancel, IInv, TypeOK, AttemptRow
    <3> QED
      BY <3>1, SameAttempt
  <2> QED
    BY <2>1, <2>2
<1> QED
  BY <1>1, <1>2 DEF Moves

-----------------------------------------------------------------------------
(* The inductive invariant of the processes.                               *)

Acting == {"renewing", "executing", "beating", "finalizing"}
Resting == {"idle", "reaping", "claiming", "down"}
Verdicts == {"open", "success", "failed", "fenced"}

LocalTypeOK ==
  /\ pc \in [Executors -> Acting \cup Resting]
  /\ page \in [Executors -> SUBSET Jobs]
  /\ held \in [Executors -> Attempts \cup {None}]
  /\ verdict \in [Attempts -> Verdicts]

\* An executor works on a claimed attempt of its own, which cannot have
\* succeeded before it was finalized.
HeldRight ==
  \A e \in Executors :
    IF pc[e] \in Acting
    THEN /\ held[e] \in Attempts /\ Claimed(held[e])
         /\ pc[e] # "finalizing" => attempt[held[e]].outcome # "succeeded"
    ELSE held[e] = None

HeldApart ==
  \A e, f \in Executors : held[e] # None /\ e # f => held[e] # held[f]

\* What was concluded is concluded of a claimed attempt.
VerdictsClaimed == \A a \in Attempts : verdict[a] # "open" => Claimed(a)

\* The job the manager read is at a later version, or as it was read.
ViewRight ==
  view # None =>
    /\ view.job \in Jobs /\ view.mgmt \in Nat
    /\ job[view.job].state # "absent"
    /\ view.mgmt <= job[view.job].mgmt
    /\ view.mgmt = job[view.job].mgmt
         => view.state = job[view.job].state /\ view.attempt = job[view.job].attempt

ExecIInv ==
  /\ IInv /\ LocalTypeOK /\ HeldRight /\ HeldApart /\ VerdictsClaimed /\ VerdictTrue
  /\ ViewRight

-----------------------------------------------------------------------------
(* What a call of the database leaves true of the processes around it.     *)

LEMMA HeldKept ==
  ASSUME ExecIInv, NEW S, NEW C, Moves(S, C), NEW e \in Executors, pc[e] \in Acting,
         held[e] \notin S \/ pc[e] = "finalizing"
  PROVE  /\ held[e] \in Attempts /\ attempt'[held[e]].outcome # "absent"
         /\ pc[e] # "finalizing" => attempt'[held[e]].outcome # "succeeded"
<1>1. /\ held[e] \in Attempts /\ attempt[held[e]].outcome # "absent"
      /\ pc[e] # "finalizing" => attempt[held[e]].outcome # "succeeded"
  BY DEF ExecIInv, HeldRight, Claimed
<1>2. AttemptMoves(held[e], S)
  BY <1>1 DEF Moves
<1> DEFINE a == held[e]
<1> HIDE DEF a
<1>3. AttemptMoves(a, S)
  BY <1>2 DEF a
<1>4. /\ attempt[a].outcome # "absent" => attempt'[a].outcome # "absent"
      /\ attempt'[a].outcome = "succeeded" => attempt[a].outcome = "succeeded" \/ a \in S
  BY <1>1 DEF Moves, AttemptMoves, Claimed, a
<1> QED
  BY <1>1, <1>4 DEF a

LEMMA VerdictKept ==
  ASSUME ExecIInv, [Next]_vars, NEW S, NEW C, Moves(S, C), NEW a \in Attempts
  PROVE  /\ verdict[a] # "open" => Claimed(a)'
         /\ verdict[a] = "success" => attempt'[a].outcome = "succeeded"
         /\ verdict[a] = "fenced" => attempt'[a].outcome # "succeeded" /\ ~pq_owns(a)'
<1>1. AttemptMoves(a, S)
  BY DEF Moves
<1>2. IInv /\ VerdictsClaimed /\ VerdictTrue
  BY DEF ExecIInv
<1>3. verdict[a] # "open" => Claimed(a)'
  BY <1>1, <1>2 DEF VerdictsClaimed, AttemptMoves
<1>4. verdict[a] = "success" => attempt'[a].outcome = "succeeded"
  BY <1>1, <1>2 DEF VerdictTrue, AttemptMoves
<1>5. ASSUME verdict[a] = "fenced"
      PROVE  attempt'[a].outcome # "succeeded" /\ ~pq_owns(a)'
  <2>1. Claimed(a) /\ attempt[a].outcome # "succeeded" /\ ~pq_owns(a)
    BY <1>2, <1>5 DEF VerdictsClaimed, VerdictTrue
  <2>2. ~pq_owns(a)'
    BY <1>2, <2>1, StepKeepsFenced
  <2> QED
    BY <1>1, <2>1, <2>2 DEF AttemptMoves
<1> QED
  BY <1>3, <1>4, <1>5

LEMMA ViewKept ==
  ASSUME ExecIInv, IInv', NEW S, NEW C, Moves(S, C), view # None
  PROVE  /\ view.job \in Jobs /\ view.mgmt \in Nat
         /\ job'[view.job].state # "absent"
         /\ view.mgmt <= job'[view.job].mgmt
         /\ view.mgmt = job'[view.job].mgmt
              => view.state = job'[view.job].state /\ view.attempt = job'[view.job].attempt
<1> DEFINE j == view.job
           v == view.mgmt
<1>1. /\ j \in Jobs /\ v \in Nat /\ job[j].state # "absent" /\ v <= job[j].mgmt
      /\ v = job[j].mgmt => view.state = job[j].state /\ view.attempt = job[j].attempt
  BY DEF ExecIInv, ViewRight
<1> HIDE DEF j, v
<1>2. job[j].mgmt \in Nat /\ job'[j].mgmt \in Nat
  BY <1>1 DEF ExecIInv, IInv, TypeOK, JobRow
<1>3. /\ job'[j].state # "absent" /\ job[j].mgmt <= job'[j].mgmt
      /\ job'[j].mgmt = job[j].mgmt
           => job'[j].state = job[j].state /\ job'[j].attempt = job[j].attempt
  BY <1>1 DEF Moves, JobMoves
<1>4. v = job'[j].mgmt => v = job[j].mgmt
  BY <1>1, <1>2, <1>3
<1>5. v <= job'[j].mgmt
  BY <1>1, <1>2, <1>3
<1> QED
  BY <1>1, <1>3, <1>4, <1>5 DEF j, v

(* A call is harmless to an executor that is about to hear of its success,   *)
(* or whose attempt the call does not make succeed.                        *)
Harmless(S, T) == \A f \in T : held[f] \notin S \/ pc[f] = "finalizing"

LEMMA NobodySucceeds == ASSUME NEW T PROVE Harmless({}, T)
BY DEF Harmless

\* How an executor moves on with what it holds, and how it leaves it.
MovesOn(e, next) ==
  /\ pc[e] # "finalizing" /\ (pc[e] \in Acting <=> next \in Acting)
  /\ pc' = [pc EXCEPT ![e] = next]
  /\ page' \in [Executors -> SUBSET Jobs]
  /\ UNCHANGED <<held, verdict, view>>

Leaves(e, next) ==
  /\ pc' = [pc EXCEPT ![e] = next] /\ held' = [held EXCEPT ![e] = None]
  /\ page' \in [Executors -> SUBSET Jobs]
  /\ UNCHANGED view

ConcludesTruly(e, v) ==
  /\ pc[e] \in Acting /\ verdict' = [verdict EXCEPT ![held[e]] = v]
  /\ v = "success" => attempt'[held[e]].outcome = "succeeded"
  /\ v = "fenced" => /\ attempt'[held[e]].outcome # "succeeded"
                     /\ ~pq_owns(held[e]) /\ UNCHANGED vars

(* Calls that change nothing of the processes but what the manager keeps. *)
LEMMA LocalsStayKeeps ==
  ASSUME ExecIInv, [Next]_vars, NEW S, NEW C, Moves(S, C),
         Harmless(S, Executors), UNCHANGED local, view' = view \/ view' = None
  PROVE  ExecIInv'
<1>1. pc' = pc /\ page' = page /\ held' = held /\ verdict' = verdict
  BY DEF local
<1>2. IInv'
  BY InvariantInductive DEF ExecIInv
<1>3. LocalTypeOK'
  BY <1>1 DEF ExecIInv, LocalTypeOK
<1>4. HeldRight'
  <2>1. ASSUME NEW e \in Executors
        PROVE  IF pc[e] \in Acting
               THEN /\ held[e] \in Attempts /\ attempt'[held[e]].outcome # "absent"
                    /\ pc[e] # "finalizing" => attempt'[held[e]].outcome # "succeeded"
               ELSE held[e] = None
    BY HeldKept DEF Harmless, ExecIInv, HeldRight
  <2> QED
    BY <1>1, <2>1 DEF HeldRight, Claimed
<1>5. HeldApart'
  BY <1>1 DEF ExecIInv, HeldApart
<1>6. VerdictsClaimed' /\ VerdictTrue'
  BY <1>1, VerdictKept DEF VerdictsClaimed, VerdictTrue
<1>7. ViewRight'
  BY <1>2, ViewKept DEF ViewRight
<1> QED
  BY <1>2, <1>3, <1>4, <1>5, <1>6, <1>7 DEF ExecIInv

(* An executor moves on with what it holds. *)
LEMMA MoveOnKeeps ==
  ASSUME ExecIInv, [Next]_vars, NEW S, NEW C, Moves(S, C),
         Harmless(S, Executors),
         NEW e \in Executors, NEW next \in Acting \cup Resting, MovesOn(e, next)
  PROVE  ExecIInv'
<1>1. IInv'
  BY InvariantInductive DEF ExecIInv
<1>2. LocalTypeOK'
  BY DEF MovesOn, ExecIInv, LocalTypeOK
<1>3. HeldRight'
  <2>1. ASSUME NEW f \in Executors
        PROVE  IF pc'[f] \in Acting
               THEN /\ held[f] \in Attempts /\ attempt'[held[f]].outcome # "absent"
                    /\ pc'[f] # "finalizing" => attempt'[held[f]].outcome # "succeeded"
               ELSE held[f] = None
    <3>1. pc'[f] = IF f = e THEN next ELSE pc[f]
      BY DEF MovesOn, ExecIInv, LocalTypeOK
    <3>2. CASE pc[f] \in Acting
      <4>1. /\ held[f] \in Attempts /\ attempt'[held[f]].outcome # "absent"
            /\ pc[f] # "finalizing" => attempt'[held[f]].outcome # "succeeded"
        BY <3>2, HeldKept DEF Harmless
      <4> QED
        BY <3>1, <3>2, <4>1 DEF MovesOn
    <3>3. CASE pc[f] \notin Acting
      BY <3>1, <3>3 DEF MovesOn, ExecIInv, HeldRight
    <3> QED
      BY <3>2, <3>3
  <2> QED
    BY <2>1 DEF MovesOn, HeldRight, Claimed
<1>4. HeldApart'
  BY DEF MovesOn, ExecIInv, HeldApart
<1>5. VerdictsClaimed' /\ VerdictTrue'
  BY VerdictKept DEF MovesOn, VerdictsClaimed, VerdictTrue
<1>6. ViewRight'
  BY <1>1, ViewKept DEF MovesOn, ViewRight
<1> QED
  BY <1>1, <1>2, <1>3, <1>4, <1>5, <1>6 DEF ExecIInv

(* An executor leaves its attempt, with a conclusion that is true after the *)
(* call or with none.                                                      *)
LEMMA LeaveKeeps ==
  ASSUME ExecIInv, [Next]_vars, NEW S, NEW C, Moves(S, C), NEW e \in Executors,
         Harmless(S, Executors \ {e}), NEW next \in Resting, Leaves(e, next),
         NEW v \in Verdicts, verdict' = verdict \/ ConcludesTruly(e, v)
  PROVE  ExecIInv'
<1>1. IInv'
  BY InvariantInductive DEF ExecIInv
<1>2. LocalTypeOK'
  <2>1. verdict' \in [Attempts -> Verdicts]
    BY DEF ConcludesTruly, ExecIInv, LocalTypeOK
  <2>2. pc' \in [Executors -> Acting \cup Resting]
    BY DEF Leaves, ExecIInv, LocalTypeOK
  <2>3. held' \in [Executors -> Attempts \cup {None}]
    BY DEF Leaves, ExecIInv, LocalTypeOK
  <2> QED
    BY <2>1, <2>2, <2>3 DEF Leaves, LocalTypeOK
<1>3. HeldRight'
  <2>1. ASSUME NEW f \in Executors
        PROVE  IF pc'[f] \in Acting
               THEN /\ held'[f] \in Attempts /\ attempt'[held'[f]].outcome # "absent"
                    /\ pc'[f] # "finalizing" => attempt'[held'[f]].outcome # "succeeded"
               ELSE held'[f] = None
    <3>1. CASE f = e
      <4>1. pc'[f] = next /\ held'[f] = None
        BY <3>1 DEF Leaves, ExecIInv, LocalTypeOK
      <4> QED
        BY <4>1 DEF Acting, Resting
    <3>2. CASE f # e
      <4>1. pc'[f] = pc[f] /\ held'[f] = held[f]
        BY <3>2 DEF Leaves, ExecIInv, LocalTypeOK
      <4>2. CASE pc[f] \in Acting
        BY <3>2, <4>1, <4>2, HeldKept DEF Harmless
      <4>3. CASE pc[f] \notin Acting
        BY <4>1, <4>3 DEF ExecIInv, HeldRight
      <4> QED
        BY <4>2, <4>3
    <3> QED
      BY <3>1, <3>2
  <2> QED
    BY <2>1 DEF HeldRight, Claimed
<1>4. HeldApart'
  <2>1. \A f \in Executors : held'[f] = IF f = e THEN None ELSE held[f]
    BY DEF Leaves, ExecIInv, LocalTypeOK
  <2> QED
    BY <2>1 DEF ExecIInv, HeldApart
<1>5. ASSUME NEW a \in Attempts
      PROVE  /\ verdict'[a] # "open" => Claimed(a)'
             /\ verdict'[a] = "success" => attempt'[a].outcome = "succeeded"
             /\ verdict'[a] = "fenced" => attempt'[a].outcome # "succeeded" /\ ~pq_owns(a)'
  <2>1. CASE verdict'[a] = verdict[a]
    BY <2>1, VerdictKept
  <2>2. CASE verdict'[a] # verdict[a]
    <3>1. ConcludesTruly(e, v)
      BY <2>2
    <3>2. a = held[e] /\ verdict'[a] = v /\ pc[e] \in Acting
      BY <2>2, <3>1 DEF ConcludesTruly, ExecIInv, LocalTypeOK
    <3>3. Claimed(a)
      BY <3>2 DEF ExecIInv, HeldRight
    <3>4. Claimed(a)'
      BY <3>3 DEF Moves, AttemptMoves
    <3>5. v = "fenced" => ~pq_owns(a)'
      <4>1. ASSUME v = "fenced" PROVE ~pq_owns(a)'
        <5>1. ~pq_owns(a)
          BY <3>1, <3>2, <4>1 DEF ConcludesTruly
        <5> QED
          BY <3>3, <5>1, StepKeepsFenced DEF ExecIInv
      <4> QED
        BY <4>1
    <3> QED
      BY <3>1, <3>2, <3>4, <3>5 DEF ConcludesTruly
  <2> QED
    BY <2>1, <2>2
<1>6. VerdictsClaimed' /\ VerdictTrue'
  BY <1>5 DEF VerdictsClaimed, VerdictTrue
<1>7. ViewRight'
  BY <1>1, ViewKept DEF Leaves, ViewRight
<1> QED
  BY <1>1, <1>2, <1>3, <1>4, <1>6, <1>7 DEF ExecIInv

-----------------------------------------------------------------------------
(* Every step of the processes keeps the invariant, is a step of the        *)
(* database or none, expires no live lease and cancels only what was seen.  *)

Spared ==
  \A a \in Attempts :
    attempt[a].outcome = "running" /\ attempt'[a].outcome = "expired" => ~pq_owns(a)

Seen(j) ==
  view # None /\ view.job = j /\ view.state = job[j].state /\ view.attempt = job[j].attempt

SeenFirst ==
  \A j \in Jobs : job[j].state # "cancelled" /\ job'[j].state = "cancelled" => Seen(j)

GoodStep == ExecIInv' /\ [Next]_vars /\ Spared /\ SeenFirst

LEMMA MovesAreGood ==
  ASSUME ExecIInv', [Next]_vars, NEW S, NEW C, Moves(S, C), \A j \in C : Seen(j)
  PROVE  GoodStep
<1>1. Spared
  BY DEF Moves, AttemptMoves, Spared
<1>2. SeenFirst
  BY DEF Moves, JobMoves, SeenFirst
<1> QED
  BY <1>1, <1>2 DEF GoodStep

(* Steps of one executor between two calls. *)
LEMMA QuietKeeps ==
  ASSUME ExecIInv, UNCHANGED vars, NEW e \in Executors,
         NEW next \in Acting \cup Resting, MovesOn(e, next)
  PROVE  GoodStep
<1>1. Moves({}, {})
  BY StutterMoves DEF ExecIInv
<1>2. ExecIInv'
  <2>1. Harmless({}, Executors)
    BY NobodySucceeds
  <2> QED
    BY <1>1, <2>1, MoveOnKeeps
<1> QED
  BY <1>1, <1>2, MovesAreGood

(* Calls after which the processes are where they were. *)
LEMMA CallKeeps ==
  ASSUME ExecIInv, Next, NEW S, Moves(S, {}),
         Harmless(S, Executors), UNCHANGED <<local, view>>
  PROVE  GoodStep
<1>1. ExecIInv'
  BY LocalsStayKeeps
<1> QED
  BY <1>1, MovesAreGood

LEMMA WalkKeeps ==
  ASSUME ExecIInv, NEW e \in Executors,
         \/ Discover(e) \/ ReapSkipped(e) \/ PageDone(e) \/ ClaimUncommitted(e)
         \/ ClaimNone(e) \/ Accept(e) \/ Restart(e)
  PROVE  GoodStep
<1>1. LocalTypeOK
  BY DEF ExecIInv
<1>2. CASE Discover(e)
  <2>1. pq_due \in SUBSET Jobs
    BY DEF pq_due
  <2>2. UNCHANGED vars /\ MovesOn(e, "reaping")
    BY <1>1, <1>2, <2>1 DEF Discover, Go, LocalTypeOK,
       MovesOn, Acting
  <2> QED
    BY <2>2, QuietKeeps DEF Acting, Resting
<1>3. CASE ReapSkipped(e)
  <2>1. UNCHANGED vars /\ MovesOn(e, "reaping")
    BY <1>1, <1>3 DEF ReapSkipped, LocalTypeOK,
       MovesOn, Acting
  <2> QED
    BY <2>1, QuietKeeps DEF Acting, Resting
<1>4. CASE PageDone(e)
  <2>1. UNCHANGED vars /\ MovesOn(e, "claiming")
    BY <1>1, <1>4 DEF PageDone, Go, LocalTypeOK,
       MovesOn, Acting
  <2> QED
    BY <2>1, QuietKeeps DEF Acting, Resting
<1>5. CASE ClaimUncommitted(e) \/ ClaimNone(e)
  <2>1. UNCHANGED vars /\ MovesOn(e, "idle")
    BY <1>1, <1>5 DEF ClaimUncommitted, ClaimNone, Go, LocalTypeOK,
       MovesOn, Acting
  <2> QED
    BY <2>1, QuietKeeps DEF Acting, Resting
<1>6. CASE Accept(e)
  <2>1. UNCHANGED vars /\ MovesOn(e, "beating")
    BY <1>1, <1>6 DEF Accept, Go, LocalTypeOK,
       MovesOn, Acting
  <2> QED
    BY <2>1, QuietKeeps DEF Acting, Resting
<1>7. CASE Restart(e)
  <2>1. UNCHANGED vars /\ MovesOn(e, "idle")
    BY <1>1, <1>7 DEF Restart, Go, LocalTypeOK,
       MovesOn, Acting
  <2> QED
    BY <2>1, QuietKeeps DEF Acting, Resting
<1> QED
  BY <1>2, <1>3, <1>4, <1>5, <1>6, <1>7

(* The reaper works from its page, but only the row itself is due. *)
LEMMA ReapKeeps ==
  ASSUME ExecIInv, NEW e \in Executors, ReapNext(e)
  PROVE  GoodStep
<1>1. LocalTypeOK
  BY DEF ExecIInv
<1>2. PICK j \in page[e] :
        /\ pc[e] = "reaping" /\ pq_reap_one(j)
        /\ page' = [page EXCEPT ![e] = @ \ {j}]
        /\ UNCHANGED <<pc, held, verdict, crashes, view>>
  BY DEF ReapNext
<1>3. j \in Jobs
  BY <1>1, <1>2 DEF LocalTypeOK
<1>4. Next
  BY <1>2, <1>3 DEF Next
<1>5. Moves({}, {})
  BY <1>2, <1>3, ReapMoves DEF ExecIInv
<1>6. MovesOn(e, "reaping")
  BY <1>1, <1>2 DEF LocalTypeOK, MovesOn, Acting
<1>7. "reaping" \in Acting \cup Resting
  BY DEF Acting, Resting
<1>8. ExecIInv'
  <2>1. Harmless({}, Executors)
    BY NobodySucceeds
  <2> QED
    BY <1>4, <1>5, <1>6, <1>7, <2>1, MoveOnKeeps
<1> QED
  BY <1>4, <1>5, <1>8, MovesAreGood

(* A claimed attempt was nobody's: what the others hold and what was        *)
(* concluded is of other attempts.                                          *)
LEMMA ClaimKeeps ==
  ASSUME ExecIInv, NEW e \in Executors, NEW next \in {"executing", "renewing"},
         Claim(e, next)
  PROVE  GoodStep
<1>1. LocalTypeOK
  BY DEF ExecIInv
<1>2. PICK j \in Jobs, a \in Attempts :
        /\ pc[e] = "claiming" /\ pc' = [pc EXCEPT ![e] = next]
        /\ ~Claimed(a) /\ pq_claim(j, a)
        /\ held' = [held EXCEPT ![e] = a]
        /\ UNCHANGED <<page, verdict, crashes, view>>
  BY DEF Claim, Go
<1>3. Next
  BY <1>2 DEF Next
<1>4. Moves({}, {})
  BY <1>2, ClaimMoves DEF ExecIInv
<1>5. IInv'
  BY <1>3, InvariantInductive DEF ExecIInv
<1>6. attempt'[a].outcome = "running"
  BY <1>2 DEF pq_claim, ExecIInv, IInv, TypeOK
<1>7. next \in Acting /\ next # "finalizing"
  BY DEF Acting
<1>8. \A f \in Executors : /\ pc'[f] = IF f = e THEN next ELSE pc[f]
                          /\ held'[f] = IF f = e THEN a ELSE held[f]
  BY <1>1, <1>2 DEF LocalTypeOK
<1>9. \A f \in Executors : held[f] # None => Claimed(held[f])
  BY DEF ExecIInv, HeldRight
<1>10. LocalTypeOK'
  <2>1. pc' \in [Executors -> Acting \cup Resting]
    BY <1>1, <1>2, <1>7 DEF LocalTypeOK
  <2>2. held' \in [Executors -> Attempts \cup {None}]
    BY <1>1, <1>2 DEF LocalTypeOK
  <2> QED
    BY <1>1, <1>2, <2>1, <2>2 DEF LocalTypeOK
<1>11. HeldRight'
  <2>1. ASSUME NEW f \in Executors
        PROVE  IF pc'[f] \in Acting
               THEN /\ held'[f] \in Attempts /\ attempt'[held'[f]].outcome # "absent"
                    /\ pc'[f] # "finalizing" => attempt'[held'[f]].outcome # "succeeded"
               ELSE held'[f] = None
    <3>1. CASE f = e
      BY <1>6, <1>7, <1>8, <3>1
    <3>2. CASE f # e
      <4>1. pc'[f] = pc[f] /\ held'[f] = held[f]
        BY <1>8, <3>2
      <4>2. CASE pc[f] \in Acting
        BY <1>4, <4>1, <4>2, HeldKept
      <4>3. CASE pc[f] \notin Acting
        BY <4>1, <4>3 DEF ExecIInv, HeldRight
      <4> QED
        BY <4>2, <4>3
    <3> QED
      BY <3>1, <3>2
  <2> QED
    BY <2>1 DEF HeldRight, Claimed
<1>12. HeldApart'
  <2>1. ASSUME NEW f \in Executors, NEW g \in Executors, held'[f] # None, f # g
        PROVE  held'[f] # held'[g]
    <3>1. a # None
      BY ConstantsAssumption
    <3>2. CASE f = e
      BY <1>2, <1>8, <1>9, <2>1, <3>1, <3>2
    <3>3. CASE g = e
      BY <1>2, <1>8, <1>9, <2>1, <3>1, <3>3
    <3>4. CASE f # e /\ g # e
      BY <1>8, <2>1, <3>4 DEF ExecIInv, HeldApart
    <3> QED
      BY <3>2, <3>3, <3>4
  <2> QED
    BY <2>1 DEF HeldApart
<1>13. VerdictsClaimed' /\ VerdictTrue'
  BY <1>2, <1>3, <1>4, VerdictKept DEF VerdictsClaimed, VerdictTrue
<1>14. ViewRight'
  BY <1>2, <1>4, <1>5, ViewKept DEF ViewRight
<1>15. ExecIInv'
  BY <1>5, <1>10, <1>11, <1>12, <1>13, <1>14 DEF ExecIInv
<1> QED
  BY <1>3, <1>4, <1>15, MovesAreGood

(* What a working executor holds. *)
LEMMA ActingHolds ==
  ASSUME ExecIInv, NEW e \in Executors, pc[e] \in Acting
  PROVE  /\ held[e] \in Attempts /\ Claimed(held[e]) /\ attempt[held[e]].job \in Jobs
         /\ pc[e] # "finalizing" => attempt[held[e]].outcome # "succeeded"
         /\ \A f \in Executors \ {e} : held[f] # held[e]
<1>1. /\ held[e] \in Attempts /\ Claimed(held[e])
      /\ pc[e] # "finalizing" => attempt[held[e]].outcome # "succeeded"
  BY DEF ExecIInv, HeldRight
<1>2. attempt[held[e]].job \in Jobs
  BY <1>1 DEF ExecIInv, IInv, RowsLinked, AttemptsLinked
<1>3. held[e] # None
  BY <1>1, ConstantsAssumption
<1>4. \A f \in Executors \ {e} : held[f] # held[e]
  BY <1>3 DEF ExecIInv, HeldApart
<1> QED
  BY <1>1, <1>2, <1>4

(* An executor leaves with a conclusion that the call made true. *)
LEMMA ConcludeKeeps ==
  ASSUME ExecIInv, [Next]_vars, NEW S, Moves(S, {}), NEW e \in Executors,
         Harmless(S, Executors \ {e}), NEW from \in Acting, NEW v \in Verdicts,
         Conclude(e, from, v),
         v = "success" => attempt'[held[e]].outcome = "succeeded",
         v = "fenced" => /\ attempt'[held[e]].outcome # "succeeded"
                         /\ ~pq_owns(held[e]) /\ UNCHANGED vars
  PROVE  GoodStep
<1>1. Leaves(e, "idle")
  BY DEF Leaves, Conclude, Go, ExecIInv, LocalTypeOK
<1>2. ConcludesTruly(e, v)
  BY DEF ConcludesTruly, Conclude, Go
<1>3. "idle" \in Resting
  BY DEF Resting
<1>4. ExecIInv'
  BY <1>1, <1>2, <1>3, LeaveKeeps
<1> QED
  BY <1>4, MovesAreGood

(* A token the database knows no more: the attempt did not succeed. *)
LEMMA FencedKeeps ==
  ASSUME ExecIInv, NEW e \in Executors, NEW from \in Acting,
         attempt[held[e]].outcome # "succeeded",
         ~pq_owns(held[e]), UNCHANGED vars, Conclude(e, from, "fenced")
  PROVE  GoodStep
<1>1. Moves({}, {}) /\ Harmless({}, Executors \ {e})
  BY StutterMoves, NobodySucceeds DEF ExecIInv
<1>2. "fenced" \in Verdicts /\ attempt' = attempt
  BY DEF Verdicts, vars
<1> QED
  BY <1>1, <1>2, ConcludeKeeps

LEMMA BeatKeeps ==
  ASSUME ExecIInv, NEW e \in Executors, NEW from \in {"renewing", "beating"},
         NEW next \in {"executing", "finalizing"}, Beat(e, from, next)
  PROVE  GoodStep
<1>1. /\ pc[e] = from /\ pc[e] \in Acting /\ next \in Acting
      /\ from \in Acting /\ pc[e] # "finalizing"
  BY DEF Beat, Acting
<1>2. /\ held[e] \in Attempts /\ attempt[held[e]].outcome # "succeeded"
  BY <1>1, ActingHolds
<1>3. CASE pq_heartbeat(held[e]) /\ Go(e, from, next)
             /\ UNCHANGED <<page, held, verdict, crashes, view>>
  <2>1. Next
    BY <1>2, <1>3 DEF Next, WorkerCall
  <2>2. Moves({}, {})
    BY <1>2, <1>3, HeartbeatMoves DEF ExecIInv
  <2>3. MovesOn(e, next)
    BY <1>1, <1>3 DEF Go, MovesOn, ExecIInv, LocalTypeOK
  <2>4. Harmless({}, Executors)
    BY NobodySucceeds
  <2>5. ExecIInv'
    BY <1>1, <2>1, <2>2, <2>3, <2>4, MoveOnKeeps
  <2> QED
    BY <2>1, <2>2, <2>5, MovesAreGood
<1>4. CASE ~pq_owns(held[e]) /\ Conclude(e, from, "fenced") /\ UNCHANGED vars
  BY <1>1, <1>2, <1>4, FencedKeeps
<1> QED
  BY <1>3, <1>4 DEF Beat

LEMMA RefuseKeeps ==
  ASSUME ExecIInv, NEW e \in Executors, Refuse(e)
  PROVE  GoodStep
<1> DEFINE a == held[e]
<1>1. /\ pc[e] = "executing" /\ pc[e] \in Acting /\ "executing" \in Acting
  BY DEF Refuse, Acting
<1>2. a \in Attempts /\ attempt[a].outcome # "succeeded"
  BY <1>1, ActingHolds
<1>3. CASE pq_end_attempt(a, "permanent") /\ Conclude(e, "executing", "failed")
  <2>1. Next
    BY <1>2, <1>3 DEF Next, WorkerCall
  <2>2. Moves({}, {})
    BY <1>2, <1>3, EndAttemptMoves DEF ExecIInv
  <2>3. "failed" \in Verdicts /\ Harmless({}, Executors \ {e})
    BY NobodySucceeds DEF Verdicts
  <2> QED
    BY <1>1, <1>3, <2>1, <2>2, <2>3, ConcludeKeeps
<1>4. CASE ~pq_owns(a) /\ UNCHANGED vars /\ Conclude(e, "executing", "fenced")
  BY <1>1, <1>2, <1>4, FencedKeeps
<1> QED
  BY <1>3, <1>4 DEF Refuse

(* Calls that commit and whose reply is lost. *)
LEMMA LostReplyKeeps ==
  ASSUME ExecIInv, NEW e \in Executors,
         BeatLost(e) \/ RefuseLost(e) \/ FinalizeLost(e)
  PROVE  GoodStep
<1> DEFINE a == held[e]
<1>1. UNCHANGED <<local, view>>
  BY DEF BeatLost, RefuseLost, FinalizeLost
<1>2. pc[e] \in Acting
  BY DEF BeatLost, RefuseLost, FinalizeLost, Acting
<1>3. a \in Attempts /\ \A f \in Executors \ {e} : held[f] # a
  BY <1>2, ActingHolds
<1>4. Harmless({}, Executors)
  BY NobodySucceeds
<1>5. CASE BeatLost(e)
  <2>1. Next /\ Moves({}, {})
    BY <1>3, <1>5, HeartbeatMoves DEF BeatLost, Next, WorkerCall, ExecIInv
  <2> QED
    BY <1>1, <1>4, <2>1, CallKeeps
<1>6. CASE RefuseLost(e)
  <2>1. pq_end_attempt(a, "permanent")
    BY <1>6 DEF RefuseLost
  <2>2. Next
    BY <1>3, <2>1 DEF Next, WorkerCall
  <2>3. Moves({}, {})
    BY <1>3, <2>1, EndAttemptMoves DEF ExecIInv
  <2> QED
    BY <1>1, <1>4, <2>2, <2>3, CallKeeps
<1>7. CASE FinalizeLost(e)
  <2>1. pc[e] = "finalizing" /\ pq_finalize(a)
    BY <1>7 DEF FinalizeLost
  <2>2. Next
    BY <1>3, <2>1 DEF Next, WorkerCall
  <2>3. Moves({a}, {})
    BY <1>3, <2>1, FinalizeMoves DEF ExecIInv
  <2>4. Harmless({a}, Executors)
    BY <1>3, <2>1 DEF Harmless
  <2> QED
    BY <1>1, <2>2, <2>3, <2>4, CallKeeps
<1> QED
  BY <1>5, <1>6, <1>7

(* The replay test: an attempt that succeeded is told so, because its job    *)
(* succeeded with it as terminal attempt, and stayed so.                   *)
LEMMA FinalizeKeeps ==
  ASSUME ExecIInv, NEW e \in Executors, Finalize(e)
  PROVE  GoodStep
<1> DEFINE a == held[e]
<1>1. /\ pc[e] = "finalizing" /\ pc[e] \in Acting /\ "finalizing" \in Acting
  BY DEF Finalize, Acting
<1>2. /\ a \in Attempts /\ attempt[a].job \in Jobs
      /\ \A f \in Executors \ {e} : held[f] # a
  BY <1>1, ActingHolds
<1>3. attempt[a].outcome = "succeeded"
        => job[attempt[a].job].state = "succeeded" /\ job[attempt[a].job].terminal = a
  BY <1>2 DEF ExecIInv, IInv, SuccessHasOneAttempt
<1>4. CASE attempt[a].outcome # "succeeded" /\ ~pq_owns(a)
  <2>1. finalize_reply(a) = "fenced"
    BY <1>4 DEF finalize_reply
  <2>2. UNCHANGED vars /\ Conclude(e, "finalizing", "fenced")
    BY <2>1 DEF Finalize
  <2> QED
    BY <1>1, <1>4, <2>2, FencedKeeps
<1>5. CASE attempt[a].outcome = "succeeded" \/ pq_owns(a)
  <2>1. /\ Conclude(e, "finalizing", "success")
        /\ \/ attempt[a].outcome = "succeeded" /\ UNCHANGED vars
           \/ pq_finalize(a)
    <3>1. CASE attempt[a].outcome = "succeeded"
      <4>1. finalize_reply(a) = "already_succeeded"
        BY <1>3, <3>1 DEF finalize_reply
      <4> QED
        BY <3>1, <4>1 DEF Finalize
    <3>2. CASE attempt[a].outcome # "succeeded" /\ pq_owns(a)
      <4>1. finalize_reply(a) = "succeeded"
        BY <3>2 DEF finalize_reply
      <4> QED
        BY <4>1 DEF Finalize
    <3> QED
      BY <1>5, <3>1, <3>2
  <2>2. /\ [Next]_vars /\ Moves({a}, {}) /\ attempt'[a].outcome = "succeeded"
    <3>1. CASE attempt[a].outcome = "succeeded" /\ UNCHANGED vars
      <4>1. Moves({a}, {})
        BY <3>1, StutterMoves DEF ExecIInv
      <4> QED
        BY <3>1, <4>1 DEF vars
    <3>2. CASE pq_finalize(a)
      <4>1. Next
        BY <1>2, <3>2 DEF Next, WorkerCall
      <4>2. Moves({a}, {})
        BY <1>2, <3>2, FinalizeMoves DEF ExecIInv
      <4>3. attempt'[a].outcome = "succeeded"
        BY <1>2, <3>2 DEF pq_finalize, succeed, ExecIInv, IInv, TypeOK, AttemptRow
      <4> QED
        BY <4>1, <4>2, <4>3
    <3> QED
      BY <2>1, <3>1, <3>2
  <2>3. "success" \in Verdicts /\ Harmless({a}, Executors \ {e})
    BY <1>2 DEF Verdicts, Harmless
  <2> QED
    BY <1>1, <2>1, <2>2, <2>3, ConcludeKeeps
<1> QED
  BY <1>4, <1>5

LEMMA CrashKeeps ==
  ASSUME ExecIInv, NEW e \in Executors, Crash(e)
  PROVE  GoodStep
<1>1. Moves({}, {})
  BY StutterMoves DEF Crash, ExecIInv
<1>2. UNCHANGED vars /\ verdict' = verdict /\ Leaves(e, "down")
  BY DEF Crash, Leaves, ExecIInv, LocalTypeOK
<1>3. "down" \in Resting /\ "open" \in Verdicts /\ Harmless({}, Executors \ {e})
  BY NobodySucceeds DEF Resting, Verdicts
<1>4. ExecIInv'
  BY <1>1, <1>2, <1>3, LeaveKeeps
<1> QED
  BY <1>1, <1>2, <1>4, MovesAreGood

LEMMA ProduceKeeps ==
  ASSUME ExecIInv, Produce
  PROVE  GoodStep
<1>1. PICK p \in Products, k \in Keys, d \in Digests, j \in Jobs : pq_enqueue(p, k, d, j)
  BY DEF Produce
<1>2. Next
  BY <1>1 DEF Next
<1>3. Moves({}, {})
  BY <1>1, EnqueueMoves DEF ExecIInv
<1>4. Harmless({}, Executors)
  BY NobodySucceeds
<1>5. UNCHANGED <<local, view>>
  BY DEF Produce
<1> QED
  BY <1>2, <1>3, <1>4, <1>5, CallKeeps

LEMMA ClockKeeps ==
  ASSUME ExecIInv, ClockTick
  PROVE  GoodStep
<1>1. Next
  BY DEF ClockTick, Next
<1>2. Moves({}, {})
  BY TickMoves DEF ClockTick, ExecIInv
<1>3. Harmless({}, Executors)
  BY NobodySucceeds
<1>4. UNCHANGED <<local, view>>
  BY DEF ClockTick
<1> QED
  BY <1>1, <1>2, <1>3, <1>4, CallKeeps

LEMMA StandStillKeeps ==
  ASSUME ExecIInv, UNCHANGED evars
  PROVE  GoodStep
<1>1. UNCHANGED vars /\ UNCHANGED local /\ view' = view
  BY DEF evars
<1>2. Moves({}, {})
  BY <1>1, StutterMoves DEF ExecIInv
<1>3. Harmless({}, Executors)
  BY NobodySucceeds
<1>4. ExecIInv'
  BY <1>1, <1>2, <1>3, LocalsStayKeeps
<1> QED
  BY <1>1, <1>2, <1>4, MovesAreGood

(* The manager's copy is right when it is made. *)
LEMMA ReadStatusKeeps ==
  ASSUME ExecIInv, NEW j \in Jobs, ReadStatus(j)
  PROVE  GoodStep
<1>1. /\ UNCHANGED vars /\ UNCHANGED local /\ job[j].state # "absent"
      /\ view' = [job |-> j, mgmt |-> job[j].mgmt,
                  state |-> job[j].state, attempt |-> job[j].attempt]
  BY DEF ReadStatus
<1>2. job' = job /\ attempt' = attempt
  BY <1>1 DEF vars
<1>3. job[j].mgmt \in Nat
  BY DEF ExecIInv, IInv, TypeOK, JobRow
<1>4. ViewRight'
  BY <1>1, <1>2, <1>3 DEF ViewRight
<1>5. IInv'
  BY <1>1, InvariantInductive DEF ExecIInv
<1>6. (LocalTypeOK /\ HeldRight /\ HeldApart /\ VerdictsClaimed /\ VerdictTrue)'
  BY <1>1, <1>2
     DEF ExecIInv, local, LocalTypeOK, HeldRight, HeldApart, VerdictsClaimed, VerdictTrue,
         Claimed, pq_owns
<1>7. ExecIInv'
  BY <1>4, <1>5, <1>6 DEF ExecIInv
<1>8. Moves({}, {})
  BY <1>1, StutterMoves DEF ExecIInv
<1> QED
  BY <1>1, <1>7, <1>8, MovesAreGood

(* The version admits a cancel only of the state the manager saw. *)
LEMMA CancelKeeps ==
  ASSUME ExecIInv, Cancel
  PROVE  GoodStep
<1>1. view # None /\ view' = None /\ UNCHANGED local /\ view.job \in Jobs
  BY DEF Cancel, ExecIInv, ViewRight
<1>2. Harmless({}, Executors)
  BY NobodySucceeds
<1>3. CASE pq_cancel(view.job, view.mgmt)
  <2>1. view.mgmt = job[view.job].mgmt
    BY <1>3 DEF pq_cancel, cancel_admits
  <2>2. pq_cancel(view.job, job[view.job].mgmt)
    BY <1>3, <2>1
  <2>3. Next
    BY <1>1, <2>2 DEF Next
  <2>4. Moves({}, {view.job})
    BY <1>1, <2>2, CancelMoves DEF ExecIInv
  <2>5. Seen(view.job)
    BY <1>1, <2>1 DEF Seen, ExecIInv, ViewRight
  <2>6. ExecIInv'
    BY <1>1, <1>2, <2>3, <2>4, LocalsStayKeeps
  <2> QED
    BY <2>3, <2>4, <2>5, <2>6, MovesAreGood
<1>4. CASE UNCHANGED vars
  <2>1. Moves({}, {})
    BY <1>4, StutterMoves DEF ExecIInv
  <2>2. ExecIInv'
    BY <1>1, <1>2, <1>4, <2>1, LocalsStayKeeps
  <2> QED
    BY <1>4, <2>1, <2>2, MovesAreGood
<1> QED
  BY <1>3, <1>4 DEF Cancel

LEMMA ExecStep == ExecIInv /\ [ExecNext]_evars => GoodStep
<1> SUFFICES ASSUME ExecIInv, [ExecNext]_evars PROVE GoodStep
  OBVIOUS
<1>1. ASSUME NEW e \in Executors, Progress(e) PROVE GoodStep
  <2>1. CASE Renew(e) \/ BeatBeforeWork(e)
    BY <2>1, BeatKeeps DEF Renew, BeatBeforeWork
  <2>2. CASE Claim(e, "executing")
    BY <2>2, ClaimKeeps
  <2> QED
    BY <1>1, <2>1, <2>2, WalkKeeps, ReapKeeps, RefuseKeeps, FinalizeKeeps DEF Progress
<1>2. ASSUME NEW e \in Executors, Mishap(e) PROVE GoodStep
  <2>1. CASE Claim(e, "renewing")
    BY <2>1, ClaimKeeps
  <2> QED
    BY <1>2, <2>1, WalkKeeps, LostReplyKeeps, CrashKeeps DEF Mishap
<1> QED
  BY <1>1, <1>2, WalkKeeps, ProduceKeeps, ReadStatusKeeps, CancelKeeps, ClockKeeps,
     StandStillKeeps DEF ExecNext

LEMMA ExecInitInv == ExecInit => ExecIInv
<1> SUFFICES ASSUME ExecInit PROVE ExecIInv
  OBVIOUS
<1>1. IInv
  BY InitInv DEF ExecInit
<1>2. LocalTypeOK
  BY DEF ExecInit, LocalTypeOK, Resting, Verdicts
<1>3. HeldRight /\ HeldApart
  BY DEF ExecInit, HeldRight, HeldApart, Acting
<1>4. VerdictsClaimed /\ VerdictTrue /\ ViewRight
  BY DEF ExecInit, VerdictsClaimed, VerdictTrue, ViewRight
<1> QED
  BY <1>1, <1>2, <1>3, <1>4 DEF ExecIInv

-----------------------------------------------------------------------------
(* The theorems.                                                           *)

(* Every state the executors, the producer and the manager can reach has     *)
(* the invariant ExecIInv (executor.py run_once, call and _execute).        *)
THEOREM ExecutorsInvariant == ExecSpec => []ExecIInv
<1>1. ExecIInv /\ [ExecNext]_evars => ExecIInv'
  BY ExecStep DEF GoodStep
<1> QED
  BY <1>1, ExecInitInv, PTL DEF ExecSpec

(* The processes use the database only through its functions, so whatever is *)
(* proved of the database alone holds while they run, crash and lose replies *)
(* (executor.py call, which sends nothing but pq_* statements).             *)
THEOREM ExecutorsUseTheQueue == ExecSpec => Spec
<1>1. ExecInit => Init
  BY DEF ExecInit
<1>2. ExecIInv /\ [ExecNext]_evars => [Next]_vars
  BY ExecStep DEF GoodStep
<1> QED
  BY <1>1, <1>2, ExecutorsInvariant, PTL DEF ExecSpec, Spec

(* An executor that reports success did succeed, and one that reports a       *)
(* fence never did and never can, however many replies it lost (executor.py  *)
(* _execute and call, repeating pq_finalize with the same token).           *)
THEOREM VerdictsAreTrue == ExecSpec => []VerdictTrue
BY ExecutorsInvariant, PTL DEF ExecIInv

(* A reaper with a stale page never ends an attempt that renewed its lease    *)
(* (pq_due against the recheck in pq_reap_one).                             *)
THEOREM RenewedLeasesAreSpared == ExecSpec => ReaperSparesOwners
<1>1. ExecIInv /\ [ExecNext]_evars => Spared
  BY ExecStep DEF GoodStep
<1> QED
  BY <1>1, ExecutorsInvariant, PTL DEF ExecSpec, ReaperSparesOwners, Spared

(* A cancel takes effect only on the state and the attempt that the manager   *)
(* read, whatever happened to the job in between (pq_job_status, pq_cancel). *)
THEOREM CancelsWereSeen == ExecSpec => CancelSawIt
<1>1. ExecIInv /\ [ExecNext]_evars =>
        \A j \in Jobs :
          job[j].state # "cancelled" /\ job'[j].state = "cancelled"
            => view # None /\ view.job = j /\ view.state = job[j].state
                 /\ view.attempt = job[j].attempt
  BY ExecStep DEF GoodStep, SeenFirst, Seen
<1> QED
  BY <1>1, ExecutorsInvariant, PTL DEF ExecSpec, CancelSawIt

(* What is proved of the queue holds with the executors as its callers,       *)
(* however they crash and repeat calls: users see a ledger, a lost token stays *)
(* lost, one attempt owns a running job, and budgets never strand it.         *)
THEOREM ExecutorsKeepTheLedger ==
  ExecSpec => ImplementsLedger /\ FencedForever /\ [](SingleOwner /\ BudgetLeft)
BY ExecutorsUseTheQueue, QueueIsALedger, FencedStaysFenced, OneOwner,
   BudgetNeverStrands, PTL
=============================================================================
