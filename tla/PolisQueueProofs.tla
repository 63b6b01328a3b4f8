-------------------------- MODULE PolisQueueProofs --------------------------
(***************************************************************************)
(* Proofs about PolisQueue, for every set of jobs, products, keys and      *)
(* attempts and every budget, lease and backoff.                           *)
(***************************************************************************)
EXTENDS PolisQueue, TLAPS

(* Every counter of a job stays a natural number when it grows. *)
LEMMA CountersGrow ==
  ASSUME TypeOK, NEW j \in Jobs
  PROVE  /\ job[j].count + 1 \in Nat /\ job[j].parked + 1 \in Nat
         /\ job[j].epoch + 1 \in Nat /\ job[j].mgmt + 1 \in Nat
         /\ 0 \in 0..LeaseTicks /\ LeaseTicks \in 0..LeaseTicks
         /\ 0 \in 0..WaitTicks
BY ConstantsAssumption DEF TypeOK, JobRow

(* A run that dies with its job stays a run row. *)
LEMMA RunAfterType ==
  ASSUME TypeOK, NEW j \in Jobs, NEW s
  PROVE  run_after(j, s) \in [Jobs -> RunRow]
<1>1. "dead" \in Terminal \cup {"absent", "pending"}
  BY DEF Terminal
<1> QED
  BY <1>1 DEF TypeOK, run_after, RunRow

(* Ending an attempt keeps every row within its table's declaration. *)
LEMMA EndingType ==
  ASSUME TypeOK, NEW a \in Attempts, attempt[a].job \in Jobs,
         NEW s \in JobStates, NEW o \in Outcomes,
         NEW waits \in SUBSET (0..WaitTicks), NEW refunded \in BOOLEAN,
         terminate(a, s, o, waits, refunded)
  PROVE  TypeOK'
<1> DEFINE j == attempt[a].job
<1>1. j \in Jobs
  OBVIOUS
<1>2. PICK w \in waits :
        job' = [job EXCEPT ![j].state = s, ![j].terminal = a,
          ![j].attempt = None, ![j].lease = 0, ![j].epoch = @ + 1,
          ![j].mgmt = @ + 1, ![j].wait = w,
          ![j].parked = IF refunded THEN @ + 1 ELSE @]
  BY DEF terminate
<1>3. job' \in [Jobs -> JobRow]
  <2>1. w \in 0..WaitTicks
    OBVIOUS
  <2>2. (IF refunded THEN job[j].parked + 1 ELSE job[j].parked) \in Nat
    BY <1>1, CountersGrow DEF TypeOK, JobRow
  <2> HIDE DEF j
  <2> QED
    BY <1>1, <1>2, <2>1, <2>2, CountersGrow DEF TypeOK, JobRow
<1>4. attempt' \in [Attempts -> AttemptRow]
  <2>1. [attempt[a] EXCEPT !.outcome = o] \in AttemptRow
    BY DEF TypeOK, AttemptRow
  <2>2. attempt' = [attempt EXCEPT ![a] = [attempt[a] EXCEPT !.outcome = o]]
    BY DEF terminate
  <2> QED
    BY <2>1, <2>2 DEF TypeOK
<1>5. run' \in [Jobs -> RunRow]
  BY <1>1, RunAfterType DEF terminate
<1> QED
  BY <1>3, <1>4, <1>5 DEF terminate, TypeOK

LEMMA TerminateType ==
  ASSUME TypeOK, NEW a \in Attempts, attempt[a].job \in Jobs,
         NEW s \in JobStates, NEW o \in Outcomes,
         NEW i \in BOOLEAN, pq_terminate_attempt(a, s, o, i)
  PROVE  TypeOK'
<1> DEFINE waits == IF i \/ s = "dead" THEN {0} ELSE 1..WaitTicks
<1>1. waits \in SUBSET (0..WaitTicks) /\ (s = "parked") \in BOOLEAN
  BY ConstantsAssumption
<1>2. terminate(a, s, o, waits, s = "parked")
  BY DEF pq_terminate_attempt
<1> HIDE DEF waits
<1> QED
  BY <1>1, <1>2, EndingType

(* A success keeps every row within its table's declaration. *)
LEMMA SucceedType ==
  ASSUME TypeOK, NEW a \in Attempts, attempt[a].job \in Jobs, succeed(a)
  PROVE  /\ attempt' \in [Attempts -> AttemptRow]
         /\ job' \in [Jobs -> JobRow] /\ run' \in [Jobs -> RunRow]
<1> DEFINE j == attempt[a].job
<1>1. j \in Jobs
  OBVIOUS
<1>2. /\ "succeeded" \in JobStates /\ "succeeded" \in Outcomes
      /\ "succeeded" \in Terminal \cup {"absent", "pending"}
  BY DEF JobStates, Outcomes, Terminal
<1>3. attempt' \in [Attempts -> AttemptRow]
  BY <1>2 DEF succeed, TypeOK, AttemptRow
<1>4. /\ job' = [job EXCEPT ![j].state = "succeeded", ![j].terminal = a,
                 ![j].attempt = None, ![j].lease = 0, ![j].mgmt = @ + 1]
      /\ run' = [run EXCEPT ![j].state = "succeeded"]
  BY DEF succeed
<1> HIDE DEF j
<1>5. job' \in [Jobs -> JobRow]
  <2> DEFINE row == [job[j] EXCEPT !.state = "succeeded", !.terminal = a,
                       !.attempt = None, !.lease = 0, !.mgmt = @ + 1]
  <2>1. row \in JobRow
    <3>1. job[j] \in JobRow /\ job[j].mgmt + 1 \in Nat /\ 0 \in 0..LeaseTicks
      BY <1>1, CountersGrow DEF TypeOK
    <3> QED
      BY <1>2, <3>1 DEF JobRow
  <2>2. job' = [job EXCEPT ![j] = row]
    BY <1>4
  <2> QED
    BY <2>1, <2>2 DEF TypeOK
<1>6. run' \in [Jobs -> RunRow]
  BY <1>2, <1>4 DEF TypeOK, RunRow
<1> QED
  BY <1>3, <1>5, <1>6

(* Every action keeps every row within its table's declaration. *)
LEMMA EnqueueType ==
  ASSUME TypeOK, NEW p \in Products, NEW k \in Keys, NEW d \in Digests,
         NEW j \in Jobs, pq_enqueue(p, k, d, j)
  PROVE  TypeOK'
<1>1. request' \in [Products \X Keys -> RequestRow]
  BY DEF pq_enqueue, TypeOK, RequestRow
<1>2. head[p].requested + 1 \in Nat
  BY DEF TypeOK, HeadRow
<1>3. head' \in [Products -> HeadRow]
  <2> DEFINE h == [head[p] EXCEPT !.requested = head[p].requested + 1, !.desired = j]
  <2>1. h \in HeadRow
    BY <1>2 DEF TypeOK, HeadRow
  <2>2. head' = [head EXCEPT ![p] = h]
    BY DEF pq_enqueue
  <2> QED
    BY <2>1, <2>2 DEF TypeOK
<1>4. run' \in [Jobs -> RunRow]
  <2>1. "pending" \in Terminal \cup {"absent", "pending"}
    OBVIOUS
  <2> QED
    BY <1>2, <2>1 DEF pq_enqueue, TypeOK, RunRow
<1>5. job' \in [Jobs -> JobRow]
  <2>1. "queued" \in JobStates
    BY DEF JobStates, Waiting
  <2>2. [job[j] EXCEPT !.state = "queued"] \in JobRow
    BY <2>1 DEF TypeOK, JobRow
  <2>3. job' = [job EXCEPT ![j] = [job[j] EXCEPT !.state = "queued"]]
    BY DEF pq_enqueue
  <2> QED
    BY <2>2, <2>3 DEF TypeOK
<1> QED
  BY <1>1, <1>3, <1>4, <1>5 DEF pq_enqueue, TypeOK

LEMMA ClaimType ==
  ASSUME TypeOK, NEW j \in Jobs, NEW a \in Attempts, pq_claim(j, a)
  PROVE  TypeOK'
<1>1. "running" \in JobStates /\ "running" \in Outcomes
  BY DEF JobStates, Outcomes
<1>2. job' \in [Jobs -> JobRow]
  BY <1>1, CountersGrow DEF pq_claim, claim_epoch, TypeOK, JobRow
<1>3. attempt' \in [Attempts -> AttemptRow]
  BY <1>1, CountersGrow DEF pq_claim, claim_epoch, TypeOK, AttemptRow
<1> QED
  BY <1>2, <1>3 DEF pq_claim, TypeOK

LEMMA HeartbeatType ==
  ASSUME TypeOK, NEW a \in Attempts, pq_heartbeat(a)
  PROVE  TypeOK'
<1>1. LeaseTicks \in 0..LeaseTicks
  BY ConstantsAssumption
<1>2. job' \in [Jobs -> JobRow]
  BY <1>1 DEF pq_heartbeat, TypeOK, JobRow
<1> QED
  BY <1>2 DEF pq_heartbeat, TypeOK

LEMMA FinalizeType ==
  ASSUME TypeOK, NEW a \in Attempts, attempt[a].job \in Jobs, pq_finalize(a)
  PROVE  TypeOK'
<1> DEFINE j == attempt[a].job
<1>1. j \in Jobs
  OBVIOUS
<1>2. succeed(a)
  BY DEF pq_finalize
<1>3. head' \in [Products -> HeadRow]
  <2>1. run[j].generation \in Nat
    BY <1>1 DEF TypeOK, RunRow
  <2> DEFINE p == run[j].product
  <2>2. head' = head \/ head' = [head EXCEPT ![p].published = j,
                                              ![p].generation = run[j].generation]
    BY DEF pq_finalize
  <2> HIDE DEF p, j
  <2>3. CASE p \in Products
    BY <1>1, <2>1, <2>2, <2>3 DEF TypeOK, HeadRow
  <2>4. CASE p \notin Products
    BY <2>2, <2>4 DEF TypeOK
  <2> QED
    BY <2>3, <2>4
<1> QED
  BY <1>2, <1>3, SucceedType DEF succeed, TypeOK

LEMMA ReapParkedType ==
  ASSUME TypeOK, NEW j \in Jobs, reap_parked(j)
  PROVE  TypeOK'
<1>1. PICK s \in {"dead", "queued"} :
        /\ job' = [job EXCEPT ![j].state = s, ![j].mgmt = @ + 1]
        /\ run' = run_after(j, s)
  BY DEF reap_parked
<1>2. s \in JobStates
  BY DEF JobStates, Waiting, Terminal
<1>3. job' \in [Jobs -> JobRow]
  BY <1>1, <1>2, CountersGrow DEF TypeOK, JobRow
<1>4. run' \in [Jobs -> RunRow]
  BY <1>1, RunAfterType
<1> QED
  BY <1>3, <1>4 DEF reap_parked, TypeOK

LEMMA CancelType ==
  ASSUME TypeOK, NEW j \in Jobs, NEW v, pq_cancel(j, v)
  PROVE  TypeOK'
<1>1. /\ "cancelled" \in JobStates /\ "cancelled" \in Outcomes
      /\ "cancelled" \in Terminal \cup {"absent", "pending"}
  BY DEF JobStates, Outcomes, Terminal
<1>2. attempt' \in [Attempts -> AttemptRow]
  BY <1>1 DEF pq_cancel, TypeOK, AttemptRow
<1>3. run' \in [Jobs -> RunRow]
  BY <1>1 DEF pq_cancel, TypeOK, RunRow
<1>4. job' \in [Jobs -> JobRow]
  <2>1. (IF job[j].attempt = None THEN job[j].terminal ELSE job[j].attempt)
          \in Attempts \cup {None}
    BY DEF TypeOK, JobRow
  <2> DEFINE t == IF job[j].attempt = None THEN job[j].terminal ELSE job[j].attempt
             row == [job[j] EXCEPT !.state = "cancelled", !.terminal = t,
                       !.attempt = None, !.lease = 0, !.wait = 0,
                       !.epoch = @ + 1, !.mgmt = @ + 1]
  <2>2. job' = [job EXCEPT ![j] = row]
    BY DEF pq_cancel
  <2>3. row \in JobRow
    <3> HIDE DEF t
    <3> QED
      BY <1>1, <2>1, CountersGrow DEF TypeOK, JobRow, t
  <2> QED
    BY <2>2, <2>3 DEF TypeOK
<1> QED
  BY <1>2, <1>3, <1>4 DEF pq_cancel, TypeOK

LEMMA TickType == TypeOK /\ Tick => TypeOK'
<1> SUFFICES ASSUME TypeOK, Tick PROVE TypeOK'
  OBVIOUS
<1>1. ASSUME NEW j \in Jobs
      PROVE  [job[j] EXCEPT !.lease = IF @ > 0 THEN @ - 1 ELSE 0,
                            !.wait = IF @ > 0 THEN @ - 1 ELSE 0] \in JobRow
  <2>1. (IF job[j].lease > 0 THEN job[j].lease - 1 ELSE 0) \in 0..LeaseTicks
    BY ConstantsAssumption DEF TypeOK, JobRow
  <2>2. (IF job[j].wait > 0 THEN job[j].wait - 1 ELSE 0) \in 0..WaitTicks
    BY ConstantsAssumption DEF TypeOK, JobRow
  <2> QED
    BY <2>1, <2>2 DEF TypeOK, JobRow
<1>2. job' \in [Jobs -> JobRow]
  BY <1>1 DEF Tick
<1> QED
  BY <1>2 DEF Tick, TypeOK

-----------------------------------------------------------------------------
(* The safety invariants support each other, so they are proved together.  *)

IInv ==
  /\ TypeOK /\ RowsLinked
  /\ SingleOwner /\ EpochsOrdered /\ SuccessHasOneAttempt
  /\ RunMirrorsJob /\ HeadShowsDesired /\ BudgetLeft

(* Enqueueing keeps the invariants: the new job is nobody's yet. *)
LEMMA EnqueueInv ==
  ASSUME IInv, NEW p \in Products, NEW k \in Keys, NEW d \in Digests,
         NEW j \in Jobs, pq_enqueue(p, k, d, j)
  PROVE  IInv'
<1>1. TypeOK'
  BY EnqueueType DEF IInv
<1>2. /\ job[j].state = "absent" /\ job'[j].state = "queued"
      /\ job'[j].count = job[j].count /\ job'[j].parked = job[j].parked
      /\ job'[j].epoch = job[j].epoch /\ job'[j].attempt = job[j].attempt
      /\ job'[j].terminal = job[j].terminal /\ job'[j].lease = job[j].lease
      /\ \A x \in Jobs \ {j} : job'[x] = job[x]
      /\ attempt' = attempt
  BY DEF pq_enqueue, IInv, TypeOK, JobRow
<1>3. /\ run'[j] = [product |-> p, generation |-> head[p].requested + 1,
                    state |-> "pending"]
      /\ \A x \in Jobs \ {j} : run'[x] = run[x]
  BY DEF pq_enqueue, IInv, TypeOK
<1>4. /\ head'[p].requested = head[p].requested + 1 /\ head'[p].desired = j
      /\ head'[p].published = head[p].published
      /\ head'[p].generation = head[p].generation
      /\ \A q \in Products \ {p} : head'[q] = head[q]
  BY DEF pq_enqueue, IInv, TypeOK, HeadRow
<1>5. RowsLinked'
  <2>1. AttemptsLinked'
    BY <1>2 DEF IInv, RowsLinked, AttemptsLinked, Claimed
  <2>2. OwnersLinked'
    BY <1>2 DEF IInv, RowsLinked, OwnersLinked
  <2>3. RunsLinked'
    BY <1>2, <1>3 DEF IInv, RowsLinked, RunsLinked
  <2>4. HeadsLinked'
    BY <1>1, <1>2, <1>3, <1>4 DEF IInv, TypeOK, HeadRow, RowsLinked, HeadsLinked
  <2> QED
    BY <2>1, <2>2, <2>3, <2>4 DEF RowsLinked
<1>6. SingleOwner'
  BY <1>2 DEF IInv, SingleOwner, Claimed, RowsLinked, AttemptsLinked
<1>7. EpochsOrdered'
  BY <1>2 DEF IInv, EpochsOrdered, Claimed, RowsLinked, AttemptsLinked
<1>8. SuccessHasOneAttempt'
  BY <1>2 DEF IInv, SuccessHasOneAttempt
<1>9. RunMirrorsJob'
  BY <1>2, <1>3 DEF IInv, RunMirrorsJob, Terminal
<1>10. HeadShowsDesired'
  <2>1. ASSUME NEW x \in Jobs, run[x].state = "succeeded" PROVE x # j
    BY <1>2, <2>1 DEF IInv, RunMirrorsJob
  <2>2. ASSUME NEW q \in Products
        PROVE  /\ head[q].published \in Jobs \cup {None}
               /\ head[q].desired \in Jobs \cup {None}
               /\ head[q].requested \in Nat /\ head[q].generation \in Nat
    BY DEF IInv, TypeOK, HeadRow
  <2>3. ASSUME NEW q \in Products, head[q].desired # None PROVE head[q].desired # j
    BY <1>2, <2>3 DEF IInv, RowsLinked, HeadsLinked
  <2>4. ASSUME NEW q \in Products, head'[q].desired # None,
               run'[head'[q].desired].state = "succeeded"
        PROVE  head'[q].published = head'[q].desired
    BY <1>3, <1>4, <2>2, <2>3, <2>4 DEF IInv, HeadShowsDesired
  <2>5. ASSUME NEW q \in Products, head'[q].published # None
        PROVE  /\ run'[head'[q].published].state = "succeeded"
               /\ run'[head'[q].published].product = q
               /\ run'[head'[q].published].generation = head'[q].generation
               /\ head'[q].generation <= head'[q].requested
    BY <1>3, <1>4, <2>1, <2>2, <2>5 DEF IInv, HeadShowsDesired
  <2> QED
    BY <2>4, <2>5 DEF HeadShowsDesired
<1>11. BudgetLeft'
  BY <1>2, ConstantsAssumption DEF IInv, BudgetLeft, Spent, RowsLinked, RunsLinked, Waiting
<1> QED
  BY <1>1, <1>5, <1>6, <1>7, <1>8, <1>9, <1>10, <1>11 DEF IInv

(* The heads' invariants rest only on the runs, and on no job being lost. *)
LEMMA HeadsUntouched ==
  ASSUME IInv, head' = head,
         \A x \in Jobs : /\ run'[x].product = run[x].product
                         /\ run'[x].generation = run[x].generation
                         /\ run'[x].state = "succeeded" <=> run[x].state = "succeeded"
                         /\ job[x].state # "absent" => job'[x].state # "absent"
  PROVE  HeadsLinked' /\ HeadShowsDesired'
<1>1. ASSUME NEW q \in Products
      PROVE  /\ head[q].published \in Jobs \cup {None}
             /\ head[q].desired \in Jobs \cup {None}
  BY DEF IInv, TypeOK, HeadRow
<1>2. HeadsLinked'
  BY <1>1 DEF IInv, RowsLinked, HeadsLinked
<1>3. HeadShowsDesired'
  BY <1>1 DEF IInv, HeadShowsDesired
<1> QED
  BY <1>2, <1>3

(* A claim takes the epoch no earlier attempt of the job has had. *)
LEMMA ClaimInv ==
  ASSUME IInv, NEW j \in Jobs, NEW a \in Attempts, pq_claim(j, a)
  PROVE  IInv'
<1>1. TypeOK'
  BY ClaimType DEF IInv
<1>2. /\ job[j].state \in Waiting /\ Spent(j) < MaxAttempts
      /\ job'[j].state = "running" /\ job'[j].attempt = a
      /\ job'[j].count = job[j].count + 1 /\ job'[j].parked = job[j].parked
      /\ job'[j].epoch = job[j].epoch + 1 /\ job'[j].terminal = job[j].terminal
      /\ \A x \in Jobs \ {j} : job'[x] = job[x]
  BY DEF pq_claim, claimable, claim_epoch, IInv, TypeOK, JobRow
<1>3. /\ attempt[a].outcome = "absent" /\ attempt[a].job = None
      /\ attempt'[a].job = j /\ attempt'[a].epoch = job[j].epoch + 1
      /\ attempt'[a].outcome = "running"
      /\ \A b \in Attempts \ {a} : attempt'[b] = attempt[b]
  BY DEF pq_claim, claim_epoch, Claimed, IInv, TypeOK, AttemptRow, RowsLinked, AttemptsLinked
<1>4. run' = run /\ head' = head
  BY DEF pq_claim
<1>5. /\ job[j].state # "absent" /\ job[j].state # "running"
      /\ job[j].state \notin Terminal
  BY <1>2 DEF Waiting, Terminal
<1>6. ASSUME NEW b \in Attempts, attempt[b].outcome # "absent"
      PROVE  /\ attempt[b].job \in Jobs /\ job[attempt[b].job].state # "absent"
             /\ b # a
  BY <1>3, <1>6 DEF IInv, RowsLinked, AttemptsLinked, Claimed
<1>7. ASSUME NEW x \in Jobs
      PROVE  /\ job[x].count \in Nat /\ job[x].parked \in Nat /\ job[x].epoch \in Nat
             /\ job[x].parked <= job[x].count
  BY DEF IInv, TypeOK, JobRow, BudgetLeft
<1>8. RowsLinked'
  <2>1. AttemptsLinked'
    BY <1>2, <1>3, <1>6 DEF IInv, RowsLinked, AttemptsLinked, Claimed
  <2>2. OwnersLinked'
    <3>1. ASSUME NEW x \in Jobs \ {j}, job[x].state = "running"
          PROVE  job[x].attempt # a
      BY <1>3, <3>1, ConstantsAssumption DEF IInv, RowsLinked, OwnersLinked
    <3> QED
      BY <1>2, <1>3, <1>7, <3>1 DEF IInv, RowsLinked, OwnersLinked
  <2>3. RunsLinked'
    BY <1>2, <1>4, <1>5 DEF IInv, RowsLinked, RunsLinked
  <2>4. HeadsLinked'
    BY <1>2, <1>4, HeadsUntouched
  <2> QED
    BY <2>1, <2>2, <2>3, <2>4 DEF RowsLinked
<1>9. SingleOwner'
  BY <1>2, <1>3, <1>5, <1>6, ConstantsAssumption
     DEF IInv, SingleOwner, RowsLinked, OwnersLinked
<1>10. EpochsOrdered'
  <2>1. ASSUME NEW b \in Attempts \ {a}, Claimed(b)
        PROVE  /\ attempt'[b].epoch <= job'[attempt'[b].job].epoch
               /\ attempt'[b].job = j => attempt'[b].epoch < attempt'[a].epoch
    <3>1. attempt[b].epoch \in Nat /\ attempt[b].epoch <= job[attempt[b].job].epoch
      BY <2>1 DEF IInv, EpochsOrdered, TypeOK, AttemptRow
    <3> QED
      BY <1>2, <1>3, <1>6, <1>7, <2>1, <3>1 DEF Claimed
  <2>2. attempt'[a].epoch \in Nat /\ attempt'[a].epoch <= job'[attempt'[a].job].epoch
    BY <1>2, <1>3, <1>7
  <2>3. \A b \in Attempts \ {a} : Claimed(b)' <=> Claimed(b)
    BY <1>3 DEF Claimed
  <2>4. ASSUME NEW b \in Attempts \ {a}, NEW c \in Attempts \ {a}, b # c,
               Claimed(b), Claimed(c), attempt[b].job = attempt[c].job
        PROVE  attempt'[b].epoch # attempt'[c].epoch
    BY <1>3, <2>4 DEF IInv, EpochsOrdered
  <2>5. \A b \in Attempts \ {a} : attempt[b].epoch \in Nat
    BY DEF IInv, TypeOK, AttemptRow
  <2> QED
    BY <1>3, <2>1, <2>2, <2>3, <2>4, <2>5 DEF EpochsOrdered
<1>11. SuccessHasOneAttempt'
  BY <1>2, <1>3, <1>5 DEF IInv, SuccessHasOneAttempt, Terminal
<1>12. RunMirrorsJob'
  BY <1>2, <1>4, <1>5 DEF IInv, RunMirrorsJob, Terminal
<1>13. HeadShowsDesired'
  BY <1>2, <1>4, HeadsUntouched
<1>14. BudgetLeft'
  BY <1>2, <1>7, ConstantsAssumption DEF IInv, BudgetLeft, Spent, Waiting
<1> QED
  BY <1>1, <1>8, <1>9, <1>10, <1>11, <1>12, <1>13, <1>14 DEF IInv

(* Renewing a lease changes the lease of an owned job and nothing else. *)
LEMMA HeartbeatInv ==
  ASSUME IInv, NEW a \in Attempts, pq_heartbeat(a)
  PROVE  IInv'
<1> DEFINE j == attempt[a].job
<1>1. TypeOK'
  BY HeartbeatType DEF IInv
<1>2. j \in Jobs /\ job[j].state = "running"
  BY DEF pq_heartbeat, pq_owns, IInv, RowsLinked, AttemptsLinked
<1>3. /\ \A x \in Jobs : /\ job'[x].state = job[x].state
                         /\ job'[x].attempt = job[x].attempt
                         /\ job'[x].terminal = job[x].terminal
                         /\ job'[x].epoch = job[x].epoch
                         /\ job'[x].count = job[x].count
                         /\ job'[x].parked = job[x].parked
                         /\ job[x].state # "running" => job'[x].lease = job[x].lease
      /\ attempt' = attempt /\ run' = run /\ head' = head
  BY <1>2 DEF pq_heartbeat, IInv, TypeOK, JobRow
<1> HIDE DEF j
<1>4. RowsLinked'
  <2>1. AttemptsLinked'
    BY <1>3 DEF IInv, RowsLinked, AttemptsLinked, Claimed
  <2>2. OwnersLinked'
    BY <1>3 DEF IInv, RowsLinked, OwnersLinked
  <2>3. RunsLinked'
    BY <1>3 DEF IInv, RowsLinked, RunsLinked
  <2>4. HeadsLinked'
    BY <1>3, HeadsUntouched
  <2> QED
    BY <2>1, <2>2, <2>3, <2>4 DEF RowsLinked
<1>5. SingleOwner'
  BY <1>3 DEF IInv, SingleOwner, RowsLinked, AttemptsLinked, Claimed
<1>6. EpochsOrdered'
  BY <1>3 DEF IInv, EpochsOrdered, RowsLinked, AttemptsLinked, Claimed
<1>7. SuccessHasOneAttempt'
  BY <1>3 DEF IInv, SuccessHasOneAttempt
<1>8. RunMirrorsJob'
  BY <1>3 DEF IInv, RunMirrorsJob
<1>9. HeadShowsDesired'
  BY <1>3, HeadsUntouched
<1>10. BudgetLeft'
  BY <1>3 DEF IInv, BudgetLeft, Spent
<1> QED
  BY <1>1, <1>4, <1>5, <1>6, <1>7, <1>8, <1>9, <1>10 DEF IInv

(* However a running job's attempt ends, if both rows and the run are told   *)
(* the same story, the job keeps its other columns and the heads are right,  *)
(* then the invariants hold again.                                           *)
LEMMA EndingInv ==
  ASSUME IInv, TypeOK', HeadsLinked', HeadShowsDesired',
         NEW j \in Jobs, NEW a \in Attempts, NEW s \in JobStates, NEW o \in Outcomes,
         job[j].state = "running", job[j].attempt = a,
         s \notin {"absent", "running", "queued"},
         o \notin {"absent", "running"},
         s = "succeeded" <=> o = "succeeded",
         s = "retry_wait" => Spent(j) < MaxAttempts,
         job'[j].state = s, job'[j].attempt = None, job'[j].lease = 0,
         job'[j].terminal = a, job'[j].count = job[j].count,
         job'[j].epoch \in {job[j].epoch, job[j].epoch + 1},
         job'[j].parked = IF s = "parked" THEN job[j].parked + 1 ELSE job[j].parked,
         \A x \in Jobs \ {j} : job'[x] = job[x],
         attempt'[a].job = attempt[a].job, attempt'[a].epoch = attempt[a].epoch,
         attempt'[a].outcome = o,
         \A b \in Attempts \ {a} : attempt'[b] = attempt[b],
         run'[j].product = run[j].product,
         run'[j].state = IF s \in Terminal THEN s ELSE run[j].state,
         \A x \in Jobs \ {j} : run'[x] = run[x]
  PROVE  IInv'
<1>1. attempt[a].job = j /\ attempt[a].outcome = "running"
  BY DEF IInv, SingleOwner, RowsLinked, OwnersLinked
<1>2. ASSUME NEW b \in Attempts, attempt[b].outcome # "absent"
      PROVE  attempt[b].job \in Jobs /\ job[attempt[b].job].state # "absent"
  BY <1>2 DEF IInv, RowsLinked, AttemptsLinked, Claimed
<1>3. ASSUME NEW x \in Jobs
      PROVE  /\ job[x].count \in Nat /\ job[x].parked \in Nat /\ job[x].epoch \in Nat
             /\ job[x].parked <= job[x].count
             /\ job[x].state = "running" => job[x].parked < job[x].count
  BY DEF IInv, TypeOK, JobRow, BudgetLeft, RowsLinked, OwnersLinked
<1>4. RowsLinked'
  <2>1. AttemptsLinked'
    BY <1>1, <1>2 DEF IInv, RowsLinked, AttemptsLinked, Claimed
  <2>2. OwnersLinked'
    <3>1. ASSUME NEW x \in Jobs \ {j}, job[x].state = "running"
          PROVE  job[x].attempt \in Attempts \ {a}
      BY <1>1, <3>1 DEF IInv, RowsLinked, OwnersLinked
    <3> QED
      BY <3>1 DEF IInv, RowsLinked, OwnersLinked
  <2>3. RunsLinked'
    BY DEF IInv, RowsLinked, RunsLinked
  <2> QED
    BY <2>1, <2>2, <2>3 DEF RowsLinked
<1>5. SingleOwner'
  <2>1. ASSUME NEW b \in Attempts, attempt'[b].outcome = "running"
        PROVE  b # a /\ attempt[b].job # j
    BY <1>1, <2>1 DEF IInv, SingleOwner
  <2>2. ASSUME NEW x \in Jobs, job'[x].state = "running"
        PROVE  x # j /\ job[x].attempt \in Attempts \ {a}
    BY <1>1, <2>2 DEF IInv, RowsLinked, OwnersLinked
  <2> QED
    BY <1>2, <2>1, <2>2, ConstantsAssumption DEF IInv, SingleOwner
<1>6. EpochsOrdered'
  <2>1. ASSUME NEW b \in Attempts, Claimed(b)'
        PROVE  /\ Claimed(b) /\ attempt[b].epoch \in Nat
               /\ attempt'[b].job = attempt[b].job /\ attempt'[b].epoch = attempt[b].epoch
               /\ job[attempt[b].job].epoch <= job'[attempt[b].job].epoch
    BY <1>1, <1>2, <1>3, <2>1 DEF Claimed, IInv, TypeOK, AttemptRow
  <2>2. ASSUME NEW b \in Attempts, Claimed(b)'
        PROVE  attempt'[b].epoch <= job'[attempt'[b].job].epoch
    <3>1. attempt[b].epoch <= job[attempt[b].job].epoch
      BY <2>1, <2>2 DEF IInv, EpochsOrdered
    <3>2. job[attempt[b].job].epoch \in Nat /\ job'[attempt[b].job].epoch \in Nat
      BY <1>2, <1>3, <2>1, <2>2 DEF Claimed
    <3> QED
      BY <2>1, <2>2, <3>1, <3>2
  <2> QED
    BY <2>1, <2>2 DEF IInv, EpochsOrdered
<1>7. SuccessHasOneAttempt'
  <2>1. ASSUME NEW b \in Attempts, attempt[b].job = j PROVE attempt[b].outcome # "succeeded"
    BY <2>1 DEF IInv, SuccessHasOneAttempt
  <2> QED
    BY <1>1, <2>1 DEF IInv, SuccessHasOneAttempt
<1>8. RunMirrorsJob'
  BY DEF IInv, RunMirrorsJob, Terminal
<1>9. BudgetLeft'
  BY <1>3, ConstantsAssumption DEF IInv, BudgetLeft, Spent, Waiting
<1> QED
  BY <1>4, <1>5, <1>6, <1>7, <1>8, <1>9 DEF IInv

(* pq_terminate_attempt, as every caller uses it. *)
LEMMA TerminateInv ==
  ASSUME IInv, NEW a \in Attempts, attempt[a].job \in Jobs,
         job[attempt[a].job].state = "running", job[attempt[a].job].attempt = a,
         NEW s \in {"retry_wait", "parked", "dead"},
         s = "retry_wait" => Spent(attempt[a].job) < MaxAttempts,
         NEW o \in {"retry_wait", "parked", "dead", "expired"},
         NEW i \in BOOLEAN, pq_terminate_attempt(a, s, o, i)
  PROVE  IInv'
<1> DEFINE j == attempt[a].job
<1>1. s \in JobStates \ {"absent", "running", "queued"} /\ o \in Outcomes
  BY DEF JobStates, Waiting, Terminal, Outcomes
<1>2. TypeOK'
  BY <1>1, TerminateType DEF IInv
<1>3. PICK w \in IF i \/ s = "dead" THEN {0} ELSE 1..WaitTicks :
        job' = [job EXCEPT ![j].state = s, ![j].terminal = a,
          ![j].attempt = None, ![j].lease = 0, ![j].epoch = @ + 1,
          ![j].mgmt = @ + 1, ![j].wait = w,
          ![j].parked = IF s = "parked" THEN @ + 1 ELSE @]
  BY DEF pq_terminate_attempt, terminate
<1>4. /\ attempt' = [attempt EXCEPT ![a].outcome = o]
      /\ run' = run_after(j, s) /\ head' = head
  BY DEF pq_terminate_attempt, terminate
<1>5. j \in Jobs /\ job[j].state = "running" /\ job[j].attempt = a
      /\ (s = "retry_wait" => Spent(j) < MaxAttempts)
  OBVIOUS
<1> HIDE DEF j
<1>6. /\ job'[j].state = s /\ job'[j].attempt = None /\ job'[j].lease = 0
      /\ job'[j].terminal = a /\ job'[j].count = job[j].count
      /\ job'[j].epoch = job[j].epoch + 1
      /\ job'[j].parked = IF s = "parked" THEN job[j].parked + 1 ELSE job[j].parked
      /\ \A x \in Jobs \ {j} : job'[x] = job[x]
  BY <1>3, <1>5 DEF IInv, TypeOK, JobRow
<1>7. /\ attempt'[a].job = attempt[a].job /\ attempt'[a].epoch = attempt[a].epoch
      /\ attempt'[a].outcome = o /\ \A b \in Attempts \ {a} : attempt'[b] = attempt[b]
  BY <1>4 DEF IInv, TypeOK, AttemptRow
<1>8. run[j].state = "pending"
  BY <1>5 DEF IInv, RunMirrorsJob, Terminal
<1>9. /\ run'[j].product = run[j].product /\ run'[j].generation = run[j].generation
      /\ run'[j].state = IF s \in Terminal THEN s ELSE run[j].state
      /\ run'[j].state # "succeeded"
      /\ \A x \in Jobs \ {j} : run'[x] = run[x]
  BY <1>4, <1>5, <1>8 DEF run_after, IInv, TypeOK, RunRow, Terminal
<1>10. HeadsLinked' /\ HeadShowsDesired'
  BY <1>1, <1>4, <1>6, <1>8, <1>9, HeadsUntouched
<1> QED
  BY <1>1, <1>2, <1>5, <1>6, <1>7, <1>9, <1>10, EndingInv

(* A claimed attempt that pq_owns is the running attempt of a real job. *)
LEMMA OwnerIsRunning ==
  ASSUME IInv, NEW a \in Attempts, Claimed(a), pq_owns(a)
  PROVE  /\ attempt[a].job \in Jobs /\ job[attempt[a].job].state = "running"
         /\ job[attempt[a].job].attempt = a
BY DEF pq_owns, IInv, RowsLinked, AttemptsLinked

LEMMA EndAttemptInv ==
  ASSUME IInv, NEW a \in Attempts,
         NEW action \in {"retry", "permanent", "release", "park"},
         pq_end_attempt(a, action)
  PROVE  IInv'
<1> DEFINE s == CASE action = "park" -> "parked"
                  [] action = "permanent" -> "dead"
                  [] OTHER -> ended(attempt[a].job)
<1>1. Claimed(a) /\ pq_owns(a) /\ pq_terminate_attempt(a, s, s, action = "release")
  BY DEF pq_end_attempt
<1>2. /\ s \in {"retry_wait", "parked", "dead"}
      /\ s = "retry_wait" => ~(Spent(attempt[a].job) >= MaxAttempts)
  BY DEF ended
<1>3. Spent(attempt[a].job) \in Int /\ MaxAttempts \in Int
  BY <1>1, OwnerIsRunning, ConstantsAssumption DEF Spent, IInv, TypeOK, JobRow
<1>4. s = "retry_wait" => Spent(attempt[a].job) < MaxAttempts
  BY <1>2, <1>3
<1> HIDE DEF s
<1> QED
  BY <1>1, <1>2, <1>4, OwnerIsRunning, TerminateInv

LEMMA ReapExpiredInv ==
  ASSUME IInv, NEW j \in Jobs, reap_expired(j)
  PROVE  IInv'
<1> DEFINE a == job[j].attempt
<1>1. /\ a \in Attempts /\ attempt[a].job = j /\ job[j].state = "running"
      /\ pq_terminate_attempt(a, ended(j), "expired", FALSE)
  BY DEF reap_expired, IInv, RowsLinked, OwnersLinked
<1>2. Spent(j) \in Int /\ MaxAttempts \in Int
  BY ConstantsAssumption DEF Spent, IInv, TypeOK, JobRow
<1>3. /\ ended(j) \in {"retry_wait", "parked", "dead"}
      /\ ended(j) = "retry_wait" => Spent(j) < MaxAttempts
  BY <1>2 DEF ended
<1> QED
  BY <1>1, <1>3, TerminateInv

(* A success moves its own product's head or none. *)
LEMMA FinalizeInv ==
  ASSUME IInv, NEW a \in Attempts, pq_finalize(a)
  PROVE  IInv'
<1> DEFINE j == attempt[a].job
           p == run[j].product
<1>1. j \in Jobs /\ job[j].state = "running" /\ job[j].attempt = a
  BY OwnerIsRunning DEF pq_finalize, succeed
<1>2. TypeOK'
  BY <1>1, FinalizeType DEF IInv
<1>3. /\ attempt' = [attempt EXCEPT ![a].outcome = "succeeded"]
      /\ job' = [job EXCEPT ![j].state = "succeeded", ![j].terminal = a,
                 ![j].attempt = None, ![j].lease = 0, ![j].mgmt = @ + 1]
      /\ run' = [run EXCEPT ![j].state = "succeeded"]
      /\ head' = IF pq_publish_allowed(j)
                 THEN [head EXCEPT ![p].published = j,
                                   ![p].generation = run[j].generation]
                 ELSE head
  BY DEF pq_finalize, succeed
<1>4. p \in Products /\ run[j].generation \in Nat /\ run[j].state = "pending"
  BY <1>1 DEF IInv, TypeOK, RunRow, RowsLinked, RunsLinked, RunMirrorsJob, Terminal
<1> HIDE DEF j
<1>5. /\ job'[j].state = "succeeded" /\ job'[j].attempt = None /\ job'[j].lease = 0
      /\ job'[j].terminal = a /\ job'[j].count = job[j].count
      /\ job'[j].epoch = job[j].epoch /\ job'[j].parked = job[j].parked
      /\ \A x \in Jobs \ {j} : job'[x] = job[x]
  BY <1>1, <1>3 DEF IInv, TypeOK, JobRow
<1>6. /\ attempt'[a].job = attempt[a].job /\ attempt'[a].epoch = attempt[a].epoch
      /\ attempt'[a].outcome = "succeeded"
      /\ \A b \in Attempts \ {a} : attempt'[b] = attempt[b]
  BY <1>3 DEF IInv, TypeOK, AttemptRow
<1>7. /\ run'[j].product = p /\ run'[j].generation = run[j].generation
      /\ run'[j].state = "succeeded"
      /\ \A x \in Jobs \ {j} : run'[x] = run[x]
  BY <1>1, <1>3 DEF IInv, TypeOK, RunRow
<1>8. ASSUME NEW q \in Products
      PROVE  /\ head[q].requested \in Nat /\ head[q].generation \in Nat
             /\ head[q].desired \in Jobs \cup {None}
             /\ head[q].published \in Jobs \cup {None}
             /\ head[q].generation <= head[q].requested
             /\ head[q].desired = j =>
                  /\ q = p /\ head[q].requested = run[j].generation
                  /\ pq_publish_allowed(j)
             /\ j # None
  BY <1>1, <1>4, ConstantsAssumption
     DEF IInv, TypeOK, HeadRow, RowsLinked, HeadsLinked, pq_publish_allowed
<1>9. ASSUME NEW q \in Products
      PROVE  /\ head'[q].requested = head[q].requested /\ head'[q].desired = head[q].desired
             /\ IF head[q].desired = j
                THEN head'[q].published = j /\ head'[q].generation = run[j].generation
                ELSE /\ head'[q].published = head[q].published
                     /\ head'[q].generation = head[q].generation
  <2> HIDE DEF p
  <2>1. CASE pq_publish_allowed(j)
    <3>1. head[p].desired = j
      BY <2>1 DEF pq_publish_allowed, p
    <3> QED
      BY <1>3, <1>4, <1>8, <2>1, <3>1 DEF IInv, TypeOK, HeadRow
  <2>2. CASE ~pq_publish_allowed(j)
    BY <1>3, <1>8, <2>2
  <2> QED
    BY <2>1, <2>2
<1> HIDE DEF p
<1>10. HeadsLinked'
  <2>1. ASSUME NEW q \in Products, head[q].desired # None
        PROVE  /\ head[q].desired \in Jobs /\ job'[head[q].desired].state # "absent"
               /\ run'[head[q].desired].product = q
               /\ run'[head[q].desired].generation = head[q].requested
    BY <1>5, <1>7, <1>8, <2>1 DEF IInv, RowsLinked, HeadsLinked, p
  <2> QED
    BY <1>8, <1>9, <1>4, <2>1 DEF HeadsLinked
<1>11. HeadShowsDesired'
  <2>1. ASSUME NEW q \in Products, head[q].desired # j
        PROVE  /\ head[q].desired # None /\ run'[head[q].desired].state = "succeeded"
                    => head[q].published = head[q].desired
               /\ head[q].published # None =>
                    /\ head[q].published # j
                    /\ run'[head[q].published].state = "succeeded"
                    /\ run'[head[q].published].product = q
                    /\ run'[head[q].published].generation = head[q].generation
                    /\ head[q].generation <= head[q].requested
    BY <1>4, <1>7, <1>8, <2>1 DEF IInv, HeadShowsDesired
  <2> QED
    BY <1>4, <1>7, <1>8, <1>9, <2>1 DEF HeadShowsDesired
<1>12. /\ "succeeded" \in JobStates /\ "succeeded" \in Outcomes
       /\ "succeeded" \in Terminal
  BY DEF JobStates, Outcomes, Terminal
<1> QED
  BY <1>1, <1>2, <1>5, <1>6, <1>7, <1>10, <1>11, <1>12, EndingInv DEF p

(* A job that nobody owns may be put back, or end, with its run.           *)
LEMMA UnownedInv ==
  ASSUME IInv, TypeOK', NEW j \in Jobs, NEW s \in {"queued", "dead", "cancelled"},
         job[j].state \in Waiting \cup {"parked"},
         s = "queued" => Spent(j) < MaxAttempts,
         job'[j].state = s, job'[j].attempt = None, job'[j].lease = 0,
         job'[j].terminal = job[j].terminal, job'[j].count = job[j].count,
         job'[j].parked = job[j].parked,
         job'[j].epoch \in {job[j].epoch, job[j].epoch + 1},
         \A x \in Jobs \ {j} : job'[x] = job[x],
         run'[j].product = run[j].product, run'[j].generation = run[j].generation,
         run'[j].state = IF s = "queued" THEN run[j].state ELSE s,
         \A x \in Jobs \ {j} : run'[x] = run[x],
         attempt' = attempt, head' = head
  PROVE  IInv'
<1>1. /\ job[j].state \notin {"absent", "running"} /\ job[j].state \notin Terminal
      /\ run[j].state = "pending"
  BY DEF IInv, RunMirrorsJob, Waiting, Terminal
<1>2. ASSUME NEW b \in Attempts, attempt[b].outcome # "absent"
      PROVE  attempt[b].job \in Jobs /\ job[attempt[b].job].state # "absent"
  BY <1>2 DEF IInv, RowsLinked, AttemptsLinked, Claimed
<1>3. HeadsLinked' /\ HeadShowsDesired'
  BY <1>1, HeadsUntouched
<1>4. RowsLinked'
  <2>1. AttemptsLinked'
    BY <1>2 DEF IInv, RowsLinked, AttemptsLinked, Claimed
  <2>2. OwnersLinked'
    BY <1>1 DEF IInv, RowsLinked, OwnersLinked
  <2>3. RunsLinked'
    BY <1>1 DEF IInv, RowsLinked, RunsLinked
  <2> QED
    BY <1>3, <2>1, <2>2, <2>3 DEF RowsLinked
<1>5. SingleOwner'
  BY <1>1, <1>2 DEF IInv, SingleOwner
<1>6. EpochsOrdered'
  <2>1. ASSUME NEW b \in Attempts, Claimed(b)
        PROVE  attempt[b].epoch <= job'[attempt[b].job].epoch
    <3>1. /\ attempt[b].epoch \in Nat /\ attempt[b].job \in Jobs
          /\ job[attempt[b].job].epoch \in Nat
          /\ attempt[b].epoch <= job[attempt[b].job].epoch
      BY <1>2, <2>1 DEF Claimed, IInv, EpochsOrdered, TypeOK, AttemptRow, JobRow
    <3> QED
      BY <3>1
  <2> QED
    BY <2>1 DEF IInv, EpochsOrdered, Claimed
<1>7. SuccessHasOneAttempt'
  BY <1>1 DEF IInv, SuccessHasOneAttempt, Terminal
<1>8. RunMirrorsJob'
  BY <1>1 DEF IInv, RunMirrorsJob, Terminal
<1>9. BudgetLeft'
  BY DEF IInv, BudgetLeft, Spent, Waiting
<1> QED
  BY <1>3, <1>4, <1>5, <1>6, <1>7, <1>8, <1>9 DEF IInv

LEMMA ReapParkedInv ==
  ASSUME IInv, NEW j \in Jobs, reap_parked(j)
  PROVE  IInv'
<1>1. TypeOK'
  BY ReapParkedType DEF IInv
<1>2. /\ job[j].state = "parked" /\ attempt' = attempt /\ head' = head
      /\ job[j].attempt = None /\ job[j].lease = 0 /\ run[j].state = "pending"
  BY DEF reap_parked, IInv, RowsLinked, OwnersLinked, RunMirrorsJob, Terminal
<1>3. Spent(j) \in Int /\ MaxAttempts \in Int
  BY ConstantsAssumption DEF Spent, IInv, TypeOK, JobRow
<1> DEFINE s == IF Spent(j) >= MaxAttempts THEN "dead" ELSE "queued"
<1>4. /\ s \in {"queued", "dead"}
      /\ s = "queued" => Spent(j) < MaxAttempts
      /\ job' = [job EXCEPT ![j].state = s, ![j].mgmt = @ + 1]
      /\ run' = run_after(j, s)
  BY <1>3 DEF reap_parked
<1> HIDE DEF s
<1>5. /\ job'[j].state = s /\ job'[j].attempt = None /\ job'[j].lease = 0
      /\ job'[j].terminal = job[j].terminal /\ job'[j].count = job[j].count
      /\ job'[j].parked = job[j].parked /\ job'[j].epoch = job[j].epoch
      /\ \A x \in Jobs \ {j} : job'[x] = job[x]
  BY <1>2, <1>4 DEF IInv, TypeOK, JobRow
<1>6. /\ run'[j].product = run[j].product /\ run'[j].generation = run[j].generation
      /\ run'[j].state = IF s = "queued" THEN run[j].state ELSE s
      /\ \A x \in Jobs \ {j} : run'[x] = run[x]
  BY <1>4 DEF run_after, IInv, TypeOK, RunRow
<1>7. /\ s \in {"queued", "dead", "cancelled"} /\ job[j].state \in Waiting \cup {"parked"}
      /\ job'[j].epoch \in {job[j].epoch, job[j].epoch + 1}
  BY <1>2, <1>4, <1>5
<1> QED
  BY <1>1, <1>2, <1>4, <1>5, <1>6, <1>7, UnownedInv

(* A cancel ends the job's attempt with it, if there is one.               *)
LEMMA CancelInv ==
  ASSUME IInv, NEW j \in Jobs, NEW v, pq_cancel(j, v)
  PROVE  IInv'
<1>1. TypeOK'
  BY CancelType DEF IInv
<1>2. /\ job[j].state \in Waiting \cup {"parked", "running"}
      /\ head' = head /\ run' = [run EXCEPT ![j].state = "cancelled"]
  BY DEF pq_cancel, cancel_admits, IInv, TypeOK, JobRow, JobStates
<1>3. /\ job'[j].state = "cancelled" /\ job'[j].attempt = None /\ job'[j].lease = 0
      /\ job'[j].terminal = IF job[j].attempt = None THEN job[j].terminal
                                                   ELSE job[j].attempt
      /\ job'[j].count = job[j].count /\ job'[j].parked = job[j].parked
      /\ job'[j].epoch = job[j].epoch + 1
      /\ \A x \in Jobs \ {j} : job'[x] = job[x]
  BY DEF pq_cancel, IInv, TypeOK, JobRow
<1>4. /\ run[j].state = "pending" /\ run'[j].state = "cancelled"
      /\ run'[j].product = run[j].product /\ run'[j].generation = run[j].generation
      /\ \A x \in Jobs \ {j} : run'[x] = run[x]
  BY <1>2 DEF IInv, TypeOK, RunRow, RunMirrorsJob, Waiting, Terminal
<1>5. "cancelled" \in Terminal /\ "cancelled" \in JobStates /\ "cancelled" \in Outcomes
  BY DEF Terminal, JobStates, Outcomes
<1>6. CASE job[j].state = "running"
  <2> DEFINE a == job[j].attempt
  <2>1. a \in Attempts /\ a # None
    BY <1>6, ConstantsAssumption DEF IInv, RowsLinked, OwnersLinked
  <2>2. attempt' = [attempt EXCEPT ![a].outcome = "cancelled"]
    BY <2>1 DEF pq_cancel
  <2>3. /\ attempt'[a].job = attempt[a].job /\ attempt'[a].epoch = attempt[a].epoch
        /\ attempt'[a].outcome = "cancelled"
        /\ \A b \in Attempts \ {a} : attempt'[b] = attempt[b]
    BY <2>1, <2>2 DEF IInv, TypeOK, AttemptRow
  <2>4. HeadsLinked' /\ HeadShowsDesired'
    BY <1>2, <1>3, <1>4, HeadsUntouched
  <2> HIDE DEF a
  <2> QED
    BY <1>1, <1>3, <1>4, <1>5, <1>6, <2>1, <2>3, <2>4, EndingInv DEF a
<1>7. CASE job[j].state # "running"
  <2>1. job[j].attempt = None /\ attempt' = attempt
    BY <1>7 DEF pq_cancel, IInv, RowsLinked, OwnersLinked
  <2> QED
    BY <1>1, <1>2, <1>3, <1>4, <1>7, <2>1, UnownedInv
<1> QED
  BY <1>6, <1>7

(* The clock touches only the time that is left.                           *)
LEMMA TickInv ==
  ASSUME IInv, Tick
  PROVE  IInv'
<1>1. TypeOK'
  BY TickType DEF IInv
<1>2. /\ \A x \in Jobs : /\ job'[x].state = job[x].state
                         /\ job'[x].attempt = job[x].attempt
                         /\ job'[x].terminal = job[x].terminal
                         /\ job'[x].epoch = job[x].epoch
                         /\ job'[x].count = job[x].count
                         /\ job'[x].parked = job[x].parked
                         /\ job[x].lease = 0 => job'[x].lease = 0
      /\ attempt' = attempt /\ run' = run /\ head' = head
  <2>1. ASSUME NEW x \in Jobs
        PROVE  /\ job[x] \in JobRow
               /\ job'[x] = [job[x] EXCEPT !.lease = IF @ > 0 THEN @ - 1 ELSE 0,
                                           !.wait = IF @ > 0 THEN @ - 1 ELSE 0]
    BY DEF Tick, IInv, TypeOK
  <2>2. ASSUME NEW x \in Jobs
        PROVE  /\ job'[x].state = job[x].state /\ job'[x].attempt = job[x].attempt
               /\ job'[x].terminal = job[x].terminal /\ job'[x].epoch = job[x].epoch
               /\ job'[x].count = job[x].count /\ job'[x].parked = job[x].parked
               /\ job'[x].lease = IF job[x].lease > 0 THEN job[x].lease - 1 ELSE 0
    BY <2>1 DEF JobRow
  <2>3. attempt' = attempt /\ run' = run /\ head' = head
    BY DEF Tick
  <2>4. \A x \in Jobs : job[x].lease \in Nat
    BY ConstantsAssumption DEF IInv, TypeOK, JobRow
  <2> QED
    BY <2>2, <2>3, <2>4
<1>3. RowsLinked'
  <2>1. AttemptsLinked'
    BY <1>2 DEF IInv, RowsLinked, AttemptsLinked, Claimed
  <2>2. OwnersLinked'
    BY <1>2 DEF IInv, RowsLinked, OwnersLinked
  <2>3. RunsLinked'
    BY <1>2 DEF IInv, RowsLinked, RunsLinked
  <2>4. HeadsLinked'
    BY <1>2, HeadsUntouched
  <2> QED
    BY <2>1, <2>2, <2>3, <2>4 DEF RowsLinked
<1>4. SingleOwner'
  BY <1>2 DEF IInv, SingleOwner, RowsLinked, AttemptsLinked, Claimed
<1>5. EpochsOrdered'
  BY <1>2 DEF IInv, EpochsOrdered, RowsLinked, AttemptsLinked, Claimed
<1>6. SuccessHasOneAttempt'
  BY <1>2 DEF IInv, SuccessHasOneAttempt
<1>7. RunMirrorsJob'
  BY <1>2 DEF IInv, RunMirrorsJob
<1>8. HeadShowsDesired'
  BY <1>2, HeadsUntouched
<1>9. BudgetLeft'
  BY <1>2 DEF IInv, BudgetLeft, Spent
<1> QED
  BY <1>1, <1>3, <1>4, <1>5, <1>6, <1>7, <1>8, <1>9 DEF IInv

LEMMA InitInv == Init => IInv
<1> SUFFICES ASSUME Init PROVE IInv
  OBVIOUS
<1>1. TypeOK
  <2>1. \A t \in {"absent"} : t \in JobStates /\ t \in Outcomes
          /\ t \in Terminal \cup {"absent", "pending"}
    BY DEF JobStates, Outcomes
  <2> QED
    BY <2>1, ConstantsAssumption
       DEF Init, TypeOK, RequestRow, HeadRow, RunRow, JobRow, AttemptRow
<1>2. RowsLinked
  BY DEF Init, RowsLinked, AttemptsLinked, OwnersLinked, RunsLinked, HeadsLinked, Claimed
<1>3. SingleOwner /\ EpochsOrdered /\ SuccessHasOneAttempt
  BY DEF Init, SingleOwner, EpochsOrdered, SuccessHasOneAttempt, Claimed
<1>4. RunMirrorsJob /\ HeadShowsDesired
  BY DEF Init, RunMirrorsJob, HeadShowsDesired
<1>5. BudgetLeft
  <2>1. \A j \in Jobs : job[j].count = 0 /\ job[j].parked = 0 /\ job[j].state = "absent"
    BY DEF Init
  <2>2. ASSUME NEW j \in Jobs
        PROVE  /\ job[j].parked <= job[j].count /\ Spent(j) <= MaxAttempts
               /\ job[j].state \notin Waiting
    <3>1. job[j].count \in Nat /\ job[j].parked \in Nat
      BY <1>1 DEF TypeOK, JobRow
    <3> QED
      BY <2>1, <3>1, ConstantsAssumption DEF Spent, Waiting
  <2> QED
    BY <2>2 DEF BudgetLeft
<1> QED
  BY <1>1, <1>2, <1>3, <1>4, <1>5 DEF IInv

(* Every call of every worker, producer, reaper and manager, in any order,   *)
(* keeps the invariants.                                                     *)
THEOREM InvariantInductive == IInv /\ [Next]_vars => IInv'
<1> SUFFICES ASSUME IInv, [Next]_vars PROVE IInv'
  OBVIOUS
<1>1. ASSUME NEW p \in Products, NEW k \in Keys, NEW d \in Digests, NEW j \in Jobs,
             pq_enqueue(p, k, d, j)
      PROVE  IInv'
  BY <1>1, EnqueueInv
<1>2. ASSUME NEW j \in Jobs, NEW a \in Attempts, pq_claim(j, a)
      PROVE  IInv'
  BY <1>2, ClaimInv
<1>3. ASSUME NEW a \in Attempts, WorkerCall(a)
      PROVE  IInv'
  <2>1. CASE pq_heartbeat(a)
    BY <2>1, HeartbeatInv
  <2>2. CASE pq_finalize(a)
    BY <2>2, FinalizeInv
  <2>3. ASSUME NEW action \in {"retry", "permanent", "release", "park"},
               pq_end_attempt(a, action)
        PROVE  IInv'
    BY <2>3, EndAttemptInv
  <2> QED
    BY <1>3, <2>1, <2>2, <2>3 DEF WorkerCall
<1>4. ASSUME NEW j \in Jobs, pq_reap_one(j)
      PROVE  IInv'
  BY <1>4, ReapExpiredInv, ReapParkedInv DEF pq_reap_one
<1>5. ASSUME NEW j \in Jobs, pq_cancel(j, job[j].mgmt)
      PROVE  IInv'
  BY <1>5, CancelInv
<1>6. CASE Tick
  BY <1>6, TickInv
<1>7. CASE UNCHANGED vars
  BY <1>7 DEF vars, IInv, TypeOK, RowsLinked, AttemptsLinked, OwnersLinked, RunsLinked,
     HeadsLinked, SingleOwner, EpochsOrdered, SuccessHasOneAttempt, RunMirrorsJob,
     HeadShowsDesired, BudgetLeft, Claimed, Spent
<1> QED
  BY <1>1, <1>2, <1>3, <1>4, <1>5, <1>6, <1>7 DEF Next

THEOREM InvariantHolds == Spec => []IInv
<1>1. Init => IInv
  BY InitInv
<1>2. IInv /\ [Next]_vars => IInv'
  BY InvariantInductive
<1> QED
  BY <1>1, <1>2, PTL DEF Spec

-----------------------------------------------------------------------------
(* What the invariant says, property by property.                          *)

(* The rows keep the ranges their tables declare and point where they must. *)
THEOREM RowsWellFormed == Spec => [](TypeOK /\ RowsLinked)
<1>1. IInv => TypeOK /\ RowsLinked
  BY DEF IInv
<1> QED
  BY <1>1, InvariantHolds, PTL

(* No two workers ever own one job.                                        *)
THEOREM OneOwner == Spec => []SingleOwner
<1>1. IInv => SingleOwner
  BY DEF IInv
<1> QED
  BY <1>1, InvariantHolds, PTL

(* An epoch names one ownership, and no claim runs into UNIQUE(env, job_id, *)
(* lease_epoch).                                                           *)
THEOREM EpochNamesOwnership == Spec => []EpochsOrdered
<1>1. IInv => EpochsOrdered
  BY DEF IInv
<1> QED
  BY <1>1, InvariantHolds, PTL

(* A success belongs to one attempt.                                       *)
THEOREM OneSuccess == Spec => []SuccessHasOneAttempt
<1>1. IInv => SuccessHasOneAttempt
  BY DEF IInv
<1> QED
  BY <1>1, InvariantHolds, PTL

(* Job and run agree on every ending.                                      *)
THEOREM OneStory == Spec => []RunMirrorsJob
<1>1. IInv => RunMirrorsJob
  BY DEF IInv
<1> QED
  BY <1>1, InvariantHolds, PTL

(* A head shows the desired run once it succeeded and never a lesser one.  *)
THEOREM HeadsRight == Spec => []HeadShowsDesired
<1>1. IInv => HeadShowsDesired
  BY DEF IInv
<1> QED
  BY <1>1, InvariantHolds, PTL

(* A waiting job always has budget for the claim it waits for.             *)
THEOREM BudgetNeverStrands == Spec => []BudgetLeft
<1>1. IInv => BudgetLeft
  BY DEF IInv
<1> QED
  BY <1>1, InvariantHolds, PTL

(* What any function does to one job, as far as ownership can tell: it       *)
(* leaves the owner and epoch, gives the job to an unclaimed attempt, or     *)
(* leaves it not running; and a lease rises only in the owner's hand.        *)
LEMMA StepKeepsFenced ==
  ASSUME IInv, [Next]_vars, NEW a \in Attempts, Claimed(a), ~pq_owns(a)
  PROVE  ~pq_owns(a)'
<1> DEFINE j == attempt[a].job
<1>1. j \in Jobs
  BY DEF IInv, RowsLinked, AttemptsLinked
<1>2. ASSUME NEW p \in Products, NEW k \in Keys, NEW d \in Digests, NEW x \in Jobs,
             pq_enqueue(p, k, d, x)
      PROVE  ~pq_owns(a)'
  <2>1. attempt' = attempt /\ (job'[j].state # "queued" => job'[j] = job[j])
    BY <1>1, <1>2 DEF pq_enqueue, IInv, TypeOK, JobRow
  <2> QED
    BY <2>1 DEF pq_owns
<1>3. ASSUME NEW x \in Jobs, NEW b \in Attempts, pq_claim(x, b)
      PROVE  ~pq_owns(a)'
  <2>1. a # b
    BY <1>3 DEF pq_claim
  <2>2. attempt'[a] = attempt[a]
    BY <1>3, <2>1 DEF pq_claim, IInv, TypeOK
  <2>3. job'[j].attempt = b \/ job'[j] = job[j]
    BY <1>1, <1>3 DEF pq_claim, IInv, TypeOK, JobRow
  <2> QED
    BY <2>1, <2>2, <2>3 DEF pq_owns
<1>4. ASSUME NEW b \in Attempts, pq_heartbeat(b)
      PROVE  ~pq_owns(a)'
  <2>1. a # b /\ attempt' = attempt /\ job[attempt[b].job].attempt = b
    BY <1>4 DEF pq_heartbeat, pq_owns
  <2>2. job'[j] = job[j] \/ (j = attempt[b].job /\ job'[j].attempt = job[j].attempt)
    BY <1>1, <1>4 DEF pq_heartbeat, IInv, TypeOK, JobRow
  <2> QED
    BY <2>1, <2>2 DEF pq_owns
<1>5. ASSUME NEW b \in Attempts, pq_finalize(b)
      PROVE  ~pq_owns(a)'
  <2>1. job'[j] = job[j] \/ job'[j].state = "succeeded"
    <3> DEFINE x == attempt[b].job
    <3>1. job' = [job EXCEPT ![x].state = "succeeded", ![x].terminal = b,
                   ![x].attempt = None, ![x].lease = 0, ![x].mgmt = @ + 1]
      BY <1>5 DEF pq_finalize, succeed
    <3> HIDE DEF x, j
    <3> QED
      BY <1>1, <3>1 DEF IInv, TypeOK, JobRow
  <2>2. attempt'[a].job = attempt[a].job /\ attempt'[a].epoch = attempt[a].epoch
    <3>1. attempt' = [attempt EXCEPT ![b].outcome = "succeeded"]
      BY <1>5 DEF pq_finalize, succeed
    <3>2. attempt \in [Attempts -> AttemptRow]
      BY DEF IInv, TypeOK
    <3> QED
      BY <3>1, <3>2 DEF AttemptRow
  <2> QED
    BY <2>1, <2>2 DEF pq_owns
<1>6. ASSUME NEW b \in Attempts, NEW s \in {"retry_wait", "parked", "dead"},
             NEW o, NEW i, pq_terminate_attempt(b, s, o, i)
      PROVE  ~pq_owns(a)'
  <2>1. job'[j] = job[j] \/ job'[j].state = s
    <3> DEFINE x == attempt[b].job
    <3>1. PICK w \in IF i \/ s = "dead" THEN {0} ELSE 1..WaitTicks :
            job' = [job EXCEPT ![x].state = s, ![x].terminal = b,
              ![x].attempt = None, ![x].lease = 0, ![x].epoch = @ + 1,
              ![x].mgmt = @ + 1, ![x].wait = w,
              ![x].parked = IF s = "parked" THEN @ + 1 ELSE @]
      BY <1>6 DEF pq_terminate_attempt, terminate
    <3> HIDE DEF x, j
    <3> QED
      BY <1>1, <3>1 DEF IInv, TypeOK, JobRow
  <2>2. attempt'[a].job = attempt[a].job /\ attempt'[a].epoch = attempt[a].epoch
    <3>1. attempt' = [attempt EXCEPT ![b].outcome = o]
      BY <1>6 DEF pq_terminate_attempt, terminate
    <3>2. attempt \in [Attempts -> AttemptRow]
      BY DEF IInv, TypeOK
    <3> QED
      BY <3>1, <3>2 DEF AttemptRow
  <2> QED
    BY <2>1, <2>2 DEF pq_owns
<1>7. ASSUME NEW b \in Attempts, NEW action \in {"retry", "permanent", "release", "park"},
             pq_end_attempt(b, action)
      PROVE  ~pq_owns(a)'
  BY <1>6, <1>7 DEF pq_end_attempt, ended
<1>8. ASSUME NEW x \in Jobs, reap_expired(x)
      PROVE  ~pq_owns(a)'
  BY <1>6, <1>8 DEF reap_expired, ended, IInv, RowsLinked, OwnersLinked
<1>9. ASSUME NEW x \in Jobs, reap_parked(x)
      PROVE  ~pq_owns(a)'
  <2>1. attempt' = attempt /\ (job'[j] = job[j] \/ job'[j].state \in {"dead", "queued"})
    BY <1>1, <1>9 DEF reap_parked, IInv, TypeOK, JobRow
  <2> QED
    BY <2>1 DEF pq_owns
<1>10. ASSUME NEW x \in Jobs, pq_cancel(x, job[x].mgmt)
       PROVE  ~pq_owns(a)'
  <2>1. job'[j] = job[j] \/ job'[j].state = "cancelled"
    BY <1>1, <1>10 DEF pq_cancel, IInv, TypeOK, JobRow
  <2>2. attempt'[a].job = attempt[a].job /\ attempt'[a].epoch = attempt[a].epoch
    BY <1>10 DEF pq_cancel, IInv, TypeOK, AttemptRow
  <2> QED
    BY <2>1, <2>2 DEF pq_owns
<1>11. CASE Tick
  <2>1. /\ job[j] \in JobRow
        /\ job'[j] = [job[j] EXCEPT !.lease = IF @ > 0 THEN @ - 1 ELSE 0,
                                    !.wait = IF @ > 0 THEN @ - 1 ELSE 0]
    BY <1>1, <1>11 DEF Tick, IInv, TypeOK
  <2>2. /\ job'[j].state = job[j].state /\ job'[j].attempt = job[j].attempt
        /\ job'[j].epoch = job[j].epoch
        /\ job'[j].lease = IF job[j].lease > 0 THEN job[j].lease - 1 ELSE 0
    BY <2>1 DEF JobRow
  <2>3. job[j].lease \in Nat
    BY <2>1, ConstantsAssumption DEF JobRow
  <2>4. attempt' = attempt
    BY <1>11 DEF Tick
  <2> QED
    BY <2>2, <2>3, <2>4 DEF pq_owns
<1>12. CASE UNCHANGED vars
  BY <1>12 DEF vars, pq_owns
<1> QED
  BY <1>2, <1>3, <1>4, <1>5, <1>7, <1>8, <1>9, <1>10, <1>11, <1>12
     DEF Next, WorkerCall, pq_reap_one

(* A fenced token is fenced for good.                                      *)
THEOREM FencedStaysFenced == Spec => FencedForever
<1>1. IInv /\ [Next]_vars
        => [\A a \in Attempts : Claimed(a) /\ ~pq_owns(a) => ~pq_owns(a)']_vars
  BY StepKeepsFenced
<1> QED
  BY <1>1, InvariantHolds, PTL DEF Spec, FencedForever

-----------------------------------------------------------------------------
(* The queue implements the ledger: enqueue is Request, an ending is Settle, *)
(* and everything attempts, leases and retries do is invisible.              *)

LEMMA LedgerInit == Init => Ledger!Init
BY DEF Init, Ledger!Init, SlotBound, Phase, Desired, Published

(* A job's new state is all that its phase can show of a call.             *)
LEMMA PhaseMoves ==
  ASSUME NEW j \in Jobs, NEW s, job'[j].state = s,
         \A x \in Jobs \ {j} : job'[x].state = job[x].state
  PROVE  Phase' = [Phase EXCEPT ![j] =
                     IF s \in Terminal \cup {"absent"} THEN s ELSE "pending"]
<1>1. ASSUME NEW x \in Jobs
      PROVE  Phase'[x] = [Phase EXCEPT ![j] =
               IF s \in Terminal \cup {"absent"} THEN s ELSE "pending"][x]
  BY DEF Phase
<1> QED
  BY <1>1 DEF Phase

(* A live job that ends without success settles; one that goes on is silent. *)
LEMMA QuietOrSettled ==
  ASSUME IInv, NEW j \in Jobs, NEW s \in JobStates \ {"absent", "succeeded"},
         job[j].state \notin Terminal \cup {"absent"}, job'[j].state = s,
         \A x \in Jobs \ {j} : job'[x].state = job[x].state,
         request' = request, head' = head
  PROVE  [Ledger!Next]_(Ledger!vars)
<1>1. Phase[j] = "pending"
  BY DEF Phase
<1>2. SlotBound' = SlotBound /\ Desired' = Desired /\ Published' = Published
  BY DEF SlotBound, Desired, Published
<1>3. Phase' = [Phase EXCEPT ![j] =
                  IF s \in Terminal \cup {"absent"} THEN s ELSE "pending"]
  BY PhaseMoves
<1>4. CASE s \in Terminal
  <2>1. s \in Ledger!Settled
    BY <1>4 DEF Terminal, Ledger!Settled
  <2>2. Published' = [p \in Products |->
          IF s = "succeeded" /\ Desired[p] = j THEN j ELSE Published[p]]
    BY <1>2 DEF Published
  <2>3. Ledger!Settle(j, s)
    BY <1>1, <1>2, <1>3, <1>4, <2>2 DEF Ledger!Settle
  <2> QED
    BY <2>1, <2>3 DEF Ledger!Next
<1>5. CASE s \notin Terminal
  <2>1. Phase' = Phase
    BY <1>1, <1>3, <1>5 DEF Phase
  <2> QED
    BY <1>2, <2>1 DEF Ledger!vars
<1> QED
  BY <1>4, <1>5

LEMMA LedgerEnqueue ==
  ASSUME IInv, NEW p \in Products, NEW k \in Keys, NEW d \in Digests,
         NEW j \in Jobs, pq_enqueue(p, k, d, j)
  PROVE  Ledger!Next
<1>1. SlotBound[<<p, k>>] = None /\ Phase[j] = "absent"
  BY DEF pq_enqueue, SlotBound, Phase
<1>2. SlotBound' = [SlotBound EXCEPT ![<<p, k>>] = j]
  BY DEF pq_enqueue, SlotBound, IInv, TypeOK, RequestRow
<1>3. /\ job'[j].state = "queued"
      /\ \A x \in Jobs \ {j} : job'[x].state = job[x].state
  BY DEF pq_enqueue, IInv, TypeOK, JobRow
<1>4. Phase' = [Phase EXCEPT ![j] = "pending"]
  BY <1>3, PhaseMoves DEF Terminal
<1>5. Desired' = [Desired EXCEPT ![p] = j] /\ Published' = Published
  BY DEF pq_enqueue, Desired, Published, IInv, TypeOK, HeadRow
<1>6. Ledger!Request(p, k, j)
  BY <1>1, <1>2, <1>4, <1>5 DEF Ledger!Request
<1> QED
  BY <1>6 DEF Ledger!Next

(* The publication policy is the ledger's: the head moves exactly when it    *)
(* still desires the job.                                                    *)
LEMMA LedgerFinalize ==
  ASSUME IInv, NEW a \in Attempts, pq_finalize(a)
  PROVE  Ledger!Next
<1> DEFINE j == attempt[a].job
           p == run[j].product
<1>1. j \in Jobs /\ job[j].state = "running"
  BY OwnerIsRunning DEF pq_finalize, succeed
<1>2. /\ job' = [job EXCEPT ![j].state = "succeeded", ![j].terminal = a,
                 ![j].attempt = None, ![j].lease = 0, ![j].mgmt = @ + 1]
      /\ head' = IF pq_publish_allowed(j)
                 THEN [head EXCEPT ![p].published = j,
                                   ![p].generation = run[j].generation]
                 ELSE head
      /\ request' = request
  BY DEF pq_finalize, succeed
<1> HIDE DEF j
<1>3. SlotBound' = SlotBound /\ Phase[j] = "pending"
  BY <1>1, <1>2 DEF SlotBound, Phase, Terminal
<1>4. /\ job'[j].state = "succeeded"
      /\ \A x \in Jobs \ {j} : job'[x].state = job[x].state
  BY <1>1, <1>2 DEF IInv, TypeOK, JobRow
<1>5. Phase' = [Phase EXCEPT ![j] = "succeeded"]
  BY <1>1, <1>4, PhaseMoves DEF Terminal
<1>6. ASSUME NEW q \in Products, head[q].desired = j
      PROVE  q = p /\ pq_publish_allowed(j)
  <2>1. /\ q = p /\ head[q].requested = run[j].generation
        /\ head[q].generation <= head[q].requested
    BY <1>1, <1>6, ConstantsAssumption DEF IInv, RowsLinked, HeadsLinked
  <2> QED
    BY <1>6, <2>1 DEF pq_publish_allowed
<1>7. pq_publish_allowed(j) => p \in Products /\ head[p].desired = j
  BY <1>1 DEF pq_publish_allowed, IInv, RowsLinked, RunsLinked
<1>8. ASSUME NEW q \in Products
      PROVE  /\ head'[q].desired = head[q].desired
             /\ head'[q].published = IF head[q].desired = j THEN j ELSE head[q].published
  <2> HIDE DEF p
  <2> QED
    BY <1>2, <1>6, <1>7 DEF IInv, TypeOK, HeadRow
<1>9. Desired' = Desired
  BY <1>8 DEF Desired
<1>10. Published' = [q \in Products |->
         IF "succeeded" = "succeeded" /\ Desired[q] = j THEN j ELSE Published[q]]
  BY <1>8 DEF Desired, Published
<1>11. Ledger!Settle(j, "succeeded")
  BY <1>3, <1>5, <1>9, <1>10 DEF Ledger!Settle
<1> QED
  BY <1>1, <1>11 DEF Ledger!Next, Ledger!Settled

LEMMA LedgerStep == IInv /\ [Next]_vars => [Ledger!Next]_(Ledger!vars)
<1> SUFFICES ASSUME IInv, [Next]_vars PROVE [Ledger!Next]_(Ledger!vars)
  OBVIOUS
<1>1. ASSUME NEW p \in Products, NEW k \in Keys, NEW d \in Digests, NEW j \in Jobs,
             pq_enqueue(p, k, d, j)
      PROVE  [Ledger!Next]_(Ledger!vars)
  BY <1>1, LedgerEnqueue
<1>2. ASSUME NEW j \in Jobs, NEW a \in Attempts, pq_claim(j, a)
      PROVE  [Ledger!Next]_(Ledger!vars)
  <2>1. /\ job[j].state \notin Terminal \cup {"absent"} /\ job'[j].state = "running"
        /\ \A x \in Jobs \ {j} : job'[x].state = job[x].state
        /\ request' = request /\ head' = head
    BY <1>2 DEF pq_claim, claimable, Waiting, Terminal, IInv, TypeOK, JobRow
  <2>2. "running" \in JobStates \ {"absent", "succeeded"}
    BY DEF JobStates
  <2> QED
    BY <2>1, <2>2, QuietOrSettled
<1>3. ASSUME NEW a \in Attempts, pq_heartbeat(a)
      PROVE  [Ledger!Next]_(Ledger!vars)
  <2>1. /\ \A x \in Jobs : job'[x].state = job[x].state
        /\ request' = request /\ head' = head
    BY <1>3 DEF pq_heartbeat, IInv, TypeOK, JobRow
  <2> QED
    BY <2>1 DEF Ledger!vars, SlotBound, Phase, Desired, Published
<1>4. ASSUME NEW a \in Attempts, pq_finalize(a)
      PROVE  [Ledger!Next]_(Ledger!vars)
  BY <1>4, LedgerFinalize
<1>5. ASSUME NEW a \in Attempts, attempt[a].job \in Jobs,
             job[attempt[a].job].state = "running",
             NEW s \in {"retry_wait", "parked", "dead"}, NEW o, NEW i,
             pq_terminate_attempt(a, s, o, i)
      PROVE  [Ledger!Next]_(Ledger!vars)
  <2> DEFINE j == attempt[a].job
  <2>1. PICK w \in IF i \/ s = "dead" THEN {0} ELSE 1..WaitTicks :
          job' = [job EXCEPT ![j].state = s, ![j].terminal = a,
            ![j].attempt = None, ![j].lease = 0, ![j].epoch = @ + 1,
            ![j].mgmt = @ + 1, ![j].wait = w,
            ![j].parked = IF s = "parked" THEN @ + 1 ELSE @]
    BY <1>5 DEF pq_terminate_attempt, terminate
  <2>2. /\ j \in Jobs /\ job[j].state \notin Terminal \cup {"absent"}
        /\ request' = request /\ head' = head
    BY <1>5 DEF pq_terminate_attempt, terminate, Terminal
  <2> HIDE DEF j
  <2>3. job'[j].state = s /\ \A x \in Jobs \ {j} : job'[x].state = job[x].state
    BY <2>1, <2>2 DEF IInv, TypeOK, JobRow
  <2>4. s \in JobStates \ {"absent", "succeeded"}
    BY DEF JobStates, Waiting, Terminal
  <2> QED
    BY <2>2, <2>3, <2>4, QuietOrSettled
<1>6. ASSUME NEW a \in Attempts, NEW action \in {"retry", "permanent", "release", "park"},
             pq_end_attempt(a, action)
      PROVE  [Ledger!Next]_(Ledger!vars)
  BY <1>5, <1>6, OwnerIsRunning DEF pq_end_attempt, ended
<1>7. ASSUME NEW j \in Jobs, reap_expired(j)
      PROVE  [Ledger!Next]_(Ledger!vars)
  BY <1>5, <1>7 DEF reap_expired, ended, IInv, RowsLinked, OwnersLinked
<1>8. ASSUME NEW j \in Jobs, reap_parked(j)
      PROVE  [Ledger!Next]_(Ledger!vars)
  <2>1. /\ job[j].state \notin Terminal \cup {"absent"} /\ job'[j].state \in {"dead", "queued"}
        /\ \A x \in Jobs \ {j} : job'[x].state = job[x].state
        /\ request' = request /\ head' = head
    BY <1>8 DEF reap_parked, Terminal, IInv, TypeOK, JobRow
  <2>2. {"dead", "queued"} \subseteq JobStates \ {"absent", "succeeded"}
    BY DEF JobStates, Waiting, Terminal
  <2> QED
    BY <2>1, <2>2, QuietOrSettled
<1>9. ASSUME NEW j \in Jobs, pq_cancel(j, job[j].mgmt)
      PROVE  [Ledger!Next]_(Ledger!vars)
  <2>1. /\ job[j].state \notin Terminal \cup {"absent"} /\ job'[j].state = "cancelled"
        /\ \A x \in Jobs \ {j} : job'[x].state = job[x].state
        /\ request' = request /\ head' = head
    BY <1>9 DEF pq_cancel, cancel_admits, IInv, TypeOK, JobRow
  <2>2. "cancelled" \in JobStates \ {"absent", "succeeded"}
    BY DEF JobStates, Terminal
  <2> QED
    BY <2>1, <2>2, QuietOrSettled
<1>10. CASE Tick
  <2>1. ASSUME NEW x \in Jobs PROVE job'[x].state = job[x].state
    <3>1. /\ job[x] \in JobRow
          /\ job'[x] = [job[x] EXCEPT !.lease = IF @ > 0 THEN @ - 1 ELSE 0,
                                      !.wait = IF @ > 0 THEN @ - 1 ELSE 0]
      BY <1>10 DEF Tick, IInv, TypeOK
    <3> QED
      BY <3>1 DEF JobRow
  <2>2. request' = request /\ head' = head
    BY <1>10 DEF Tick
  <2> QED
    BY <2>1, <2>2 DEF Ledger!vars, SlotBound, Phase, Desired, Published
<1>11. CASE UNCHANGED vars
  BY <1>11 DEF vars, Ledger!vars, SlotBound, Phase, Desired, Published
<1> QED
  BY <1>1, <1>2, <1>3, <1>4, <1>6, <1>7, <1>8, <1>9, <1>10, <1>11
     DEF Next, WorkerCall, pq_reap_one

(* Producers and readers may reason about the ledger alone.                *)
THEOREM QueueIsALedger == Spec => ImplementsLedger
<1>1. Init => Ledger!Init
  BY LedgerInit
<1>2. IInv /\ [Next]_vars => [Ledger!Next]_(Ledger!vars)
  BY LedgerStep
<1> QED
  BY <1>1, <1>2, InvariantHolds, PTL DEF Spec, ImplementsLedger, Ledger!Spec
=============================================================================
