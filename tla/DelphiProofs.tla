---------------------------- MODULE DelphiProofs ----------------------------
(***************************************************************************)
(* Proofs about DelphiJobs, for every set of jobs, scopes, attempts and    *)
(* provider requests.  The rows that DelphiJobs shares with PolisQueue are *)
(* covered by the lemmas of PolisQueueProofs.                              *)
(***************************************************************************)
EXTENDS DelphiJobs, PolisQueueProofs

-----------------------------------------------------------------------------
(* Every row keeps the ranges of its table.                                *)

(* The empty tables are well formed. *)
LEMMA DelphiInitType == DelphiInit => DelphiTypeOK
<1> SUFFICES ASSUME DelphiInit PROVE DelphiTypeOK
  OBVIOUS
<1>1. TypeOK
  BY InitInv DEF DelphiInit, IInv
<1>2. \A r \in Requests : [attempt |-> None, state |-> "absent"] \in ProviderRow
  BY DEF ProviderRow
<1> QED
  BY <1>1, <1>2 DEF DelphiInit, DelphiTypeOK, GuardRow

(* Admission writes a guard row beside the rows of pq_enqueue. *)
LEMMA AdmitType ==
  ASSUME DelphiTypeOK, NEW p \in Products, NEW k \in Keys, NEW d \in Digests,
         NEW j \in Jobs, NEW i \in Images, pd_admit(p, k, d, j, i)
  PROVE  DelphiTypeOK'
<1>1. TypeOK'
  BY EnqueueType DEF pd_admit, DelphiTypeOK
<1>2. guard' \in [Products -> GuardRow]
  BY DEF pd_admit, DelphiTypeOK, GuardRow
<1> QED
  BY <1>1, <1>2 DEF pd_admit, DelphiTypeOK

(* Binding a key, or letting its binding expire, replaces a request row. *)
LEMMA KeyType ==
  ASSUME DelphiTypeOK, NEW p \in Products, NEW k \in Keys,
         NEW d \in Digests \cup {None}, NEW j \in Jobs \cup {None},
         request' = [request EXCEPT ![<<p, k>>] = [digest |-> d, job |-> j]],
         UNCHANGED <<head, run, job, attempt, proved, guard, image, provider>>
  PROVE  DelphiTypeOK'
<1>1. [digest |-> d, job |-> j] \in RequestRow
  BY DEF RequestRow
<1>2. request' \in [Products \X Keys -> RequestRow]
  BY <1>1 DEF DelphiTypeOK, TypeOK
<1> QED
  BY <1>2 DEF DelphiTypeOK, TypeOK

(* pq_end_attempt writes one of the states it can end a job in. *)
LEMMA EndAttemptType ==
  ASSUME DelphiTypeOK, DelphiLinked, NEW a \in Attempts,
         NEW action \in {"confirm_exit", "retry", "permanent", "release", "park"},
         pd_end_attempt(a, action)
  PROVE  DelphiTypeOK'
<1>1. CASE UNCHANGED vars
  BY <1>1 DEF pd_end_attempt, DelphiTypeOK, TypeOK, vars
<1>2. CASE ~UNCHANGED vars
  <2> DEFINE s == end_state(a, action)
             waits == CASE action = "park" -> 0..WaitTicks
                        [] action = "release" \/ s = "dead" -> {0}
                        [] OTHER -> 1..WaitTicks
  <2>1. terminate(a, s, s, waits, action = "park")
    BY <1>2 DEF pd_end_attempt
  <2>2. s \in JobStates /\ s \in Outcomes
    BY DEF end_state, ended, JobStates, Outcomes, Waiting, Terminal
  <2>3. waits \in SUBSET (0..WaitTicks)
    BY ConstantsAssumption
  <2>4. attempt[a].job \in Jobs
    BY DEF pd_end_attempt, DelphiLinked, AttemptsLinked
  <2>5. TypeOK'
    <3> HIDE DEF s, waits
    <3> QED
      BY <2>1, <2>2, <2>3, <2>4, EndingType DEF DelphiTypeOK
  <2> QED
    BY <2>5 DEF pd_end_attempt, DelphiTypeOK
<1> QED
  BY <1>1, <1>2

(* pq_reap_one parks an expired job. *)
LEMMA ReapExpiredType ==
  ASSUME DelphiTypeOK, DelphiLinked, NEW j \in Jobs, pd_reap_expired(j)
  PROVE  DelphiTypeOK'
<1>1. job[j].attempt \in Attempts /\ attempt[job[j].attempt].job = j
  BY DEF pd_reap_expired, DelphiLinked, RunningLinked, AttemptsOf
<1>2. "parked" \in JobStates /\ "expired" \in Outcomes
  BY DEF JobStates, Outcomes
<1>3. 1..WaitTicks \in SUBSET (0..WaitTicks)
  BY ConstantsAssumption
<1>4. TypeOK'
  BY <1>1, <1>2, <1>3, EndingType DEF pd_reap_expired, DelphiTypeOK
<1> QED
  BY <1>4 DEF pd_reap_expired, DelphiTypeOK

(* pd_finalize writes the rows of a success. *)
LEMMA DelphiFinalizeType ==
  ASSUME DelphiTypeOK, DelphiLinked, NEW a \in Attempts, pd_finalize(a)
  PROVE  DelphiTypeOK'
<1>1. attempt[a].job \in Jobs
  BY DEF pd_finalize, DelphiLinked, AttemptsLinked
<1> QED
  BY <1>1, SucceedType DEF pd_finalize, succeed, DelphiTypeOK, TypeOK

(* A provider row that is replaced by a provider row. *)
LEMMA ProviderType ==
  ASSUME DelphiTypeOK, NEW r \in Requests, NEW row \in ProviderRow,
         provider' = [provider EXCEPT ![r] = row],
         UNCHANGED <<vars, proved, guard, image>>
  PROVE  DelphiTypeOK'
  BY DEF DelphiTypeOK, TypeOK, vars

(* An intent is a provider row. *)
LEMMA IntentType ==
  ASSUME DelphiTypeOK, NEW a \in Attempts, NEW r \in Requests,
         pd_provider_intent(a, r)
  PROVE  DelphiTypeOK'
<1>1. [attempt |-> a, state |-> "intent"] \in ProviderRow
  BY DEF ProviderRow, Open, Unresolved
<1> QED
  BY <1>1, ProviderType DEF pd_provider_intent

(* A provider row whose state moves on stays one. *)
LEMMA UpdateType ==
  ASSUME DelphiTypeOK, NEW a \in Attempts, NEW r \in Requests,
         NEW s \in {"submission_unknown", "submitted", "completed", "failed"},
         pd_provider_update(a, r, s)
  PROVE  DelphiTypeOK'
<1> DEFINE row == [provider[r] EXCEPT !.state = s]
<1>1. row \in ProviderRow
  BY DEF ProviderRow, Open, Unresolved, DelphiTypeOK
<1>2. provider' = [provider EXCEPT ![r] = row]
  BY DEF pd_provider_update
<1> QED
  BY <1>1, <1>2, ProviderType DEF pd_provider_update

(* A cancel touches only the rows of PolisQueue. *)
LEMMA CancelledType ==
  ASSUME DelphiTypeOK, NEW j \in Jobs, pd_cancel(j, job[j].mgmt)
  PROVE  DelphiTypeOK'
<1> DEFINE v == job[j].mgmt
<1>1. pq_cancel(j, v) /\ UNCHANGED <<proved, guard, image, provider>>
  BY DEF pd_cancel
<1>2. TypeOK'
  <2> HIDE DEF v
  <2> QED
    BY <1>1, CancelType DEF DelphiTypeOK
<1> QED
  BY <1>1, <1>2 DEF DelphiTypeOK

(* A release empties a guard row. *)
LEMMA ReleaseType ==
  ASSUME DelphiTypeOK, NEW p \in Products, pd_release_scope(p)
  PROVE  DelphiTypeOK'
<1>1. guard' \in [Products -> GuardRow]
  BY DEF pd_release_scope, DelphiTypeOK, GuardRow
<1> QED
  BY <1>1 DEF pd_release_scope, DelphiTypeOK, TypeOK, vars

-----------------------------------------------------------------------------
(* Most calls start nothing: no process, no claim, no request, no job.  All *)
(* they can do to the safety of a scope is to let a job wait or settle.     *)

DelphiIInv ==
  /\ DelphiTypeOK /\ DelphiLinked /\ OneProcess /\ WaitingIsResolved
  /\ ScopeHeld /\ ProviderWorkSettled /\ AliasesAgree

NothingStarts ==
  /\ \A a \in Attempts :
       attempt'[a].job = attempt[a].job /\ (Claimed(a)' <=> Claimed(a))
  /\ proved \subseteq proved'
  /\ \A r \in Requests :
       /\ provider'[r].attempt = provider[r].attempt
       /\ provider'[r].state = "absent" <=> provider[r].state = "absent"
       /\ provider'[r].state \in Open => provider[r].state \in Open
       /\ provider'[r].state \in Unresolved => provider[r].state \in Unresolved
  /\ \A j \in Jobs :
       /\ run'[j].product = run[j].product
       /\ job'[j].state = "absent" <=> job[j].state = "absent"
       /\ job[j].state \in Terminal => job'[j].state \in Terminal
       /\ IF job'[j].state = "running"
          THEN job[j].state = "running" /\ job'[j].attempt = job[j].attempt
          ELSE job'[j].attempt = None
  /\ guard' = guard /\ request' = request

(* When nothing starts, what was gone and settled stays gone and settled. *)
LEMMA QuietKept ==
  ASSUME DelphiIInv, NothingStarts, NEW j \in Jobs
  PROVE  /\ AttemptsOf(j)' = AttemptsOf(j) /\ RequestsOf(j)' = RequestsOf(j)
         /\ exits_proved(j) => exits_proved(j)'
         /\ none_in(j, Open) => none_in(j, Open)'
         /\ none_in(j, Unresolved) => none_in(j, Unresolved)'
         /\ Busy(j)' => Busy(j)
<1>1. AttemptsOf(j)' = AttemptsOf(j)
  BY DEF NothingStarts, AttemptsOf
<1>2. RequestsOf(j)' = RequestsOf(j)
  <2>1. ASSUME NEW r \in Requests, provider[r].attempt # None
        PROVE  provider[r].attempt \in Attempts
    BY <2>1 DEF DelphiIInv, DelphiTypeOK, ProviderRow
  <2> QED
    BY <2>1 DEF NothingStarts, RequestsOf
<1>3. exits_proved(j) => exits_proved(j)'
  BY <1>1 DEF NothingStarts, exits_proved
<1>4. /\ none_in(j, Open) => none_in(j, Open)'
      /\ none_in(j, Unresolved) => none_in(j, Unresolved)'
  <2>1. RequestsOf(j) \subseteq Requests
    BY DEF RequestsOf
  <2> QED
    BY <1>2, <2>1 DEF NothingStarts, none_in
<1>5. Busy(j)' => Busy(j)
  BY <1>3, <1>4 DEF NothingStarts, Busy
<1> QED
  BY <1>1, <1>2, <1>3, <1>4, <1>5

(* When nothing starts, only a job that comes to wait or succeeds is at risk. *)
LEMMA NothingStartsInv ==
  ASSUME DelphiIInv, DelphiTypeOK', NothingStarts,
         \A j \in Jobs :
           /\ job'[j].state \in Waiting => resolved(j)'
           /\ job'[j].state = "succeeded" => resolved(j)' /\ none_in(j, Open)'
  PROVE  DelphiIInv'
<1>1. DelphiLinked'
  <2>1. AttemptsLinked'
    BY DEF DelphiIInv, DelphiLinked, AttemptsLinked, NothingStarts
  <2>2. RunningLinked'
    BY QuietKept DEF DelphiIInv, DelphiLinked, RunningLinked, NothingStarts
  <2>3. ProvidersLinked'
    BY DEF DelphiIInv, DelphiLinked, ProvidersLinked, NothingStarts
  <2>4. GuardsLinked' /\ KeysLinked' /\ ProductsLinked'
    <3>1. ASSUME NEW p \in Products, guard[p].job # None PROVE guard[p].job \in Jobs
      BY <3>1 DEF DelphiIInv, DelphiTypeOK, GuardRow
    <3>2. ASSUME NEW s \in Products \X Keys, request[s].job # None
          PROVE  request[s].job \in Jobs
      BY <3>2 DEF DelphiIInv, DelphiTypeOK, TypeOK, RequestRow
    <3>3. GuardsLinked'
      BY <3>1 DEF DelphiIInv, DelphiLinked, GuardsLinked, NothingStarts
    <3>4. KeysLinked'
      BY <3>2 DEF DelphiIInv, DelphiLinked, KeysLinked, NothingStarts
    <3>5. ProductsLinked'
      BY DEF DelphiIInv, DelphiLinked, ProductsLinked, NothingStarts
    <3> QED
      BY <3>3, <3>4, <3>5
  <2> QED
    BY <2>1, <2>2, <2>3, <2>4 DEF DelphiLinked
<1>2. OneProcess'
  BY DEF DelphiIInv, OneProcess, NothingStarts
<1>3. WaitingIsResolved'
  BY DEF WaitingIsResolved
<1>4. ScopeHeld'
  BY QuietKept DEF DelphiIInv, ScopeHeld, NothingStarts
<1>5. ProviderWorkSettled'
  <2>1. ASSUME NEW j \in Jobs, NEW r \in RequestsOf(j)', NEW s \in RequestsOf(j)',
               provider'[r].state \in Open, provider'[s].state \in Open
        PROVE  r = s
    <3>1. r \in RequestsOf(j) /\ s \in RequestsOf(j) /\ r \in Requests /\ s \in Requests
      BY QuietKept DEF RequestsOf
    <3> QED
      BY <2>1, <3>1 DEF DelphiIInv, ProviderWorkSettled, NothingStarts
  <2> QED
    BY <2>1 DEF ProviderWorkSettled
<1>6. AliasesAgree'
  BY DEF DelphiIInv, AliasesAgree, NothingStarts
<1> QED
  BY <1>1, <1>2, <1>3, <1>4, <1>5, <1>6 DEF DelphiIInv


(* A step that gives up no scope, and after which at most one job, and no   *)
(* absent one, is quiet that was not.                                       *)
ScopeStep ==
  /\ guard' = guard
  /\ \E j \in Jobs : \A x \in Jobs :
       /\ job'[x].state = "absent" <=> job[x].state = "absent"
       /\ Busy(x)' => Busy(x)
       /\ Busy(x) => Busy(x)' \/ x = j

(* A call about one job leaves every other job as busy as it was. *)
LEMMA OthersStayBusy ==
  ASSUME DelphiIInv, NothingStarts, NEW j \in Jobs,
         proved' \ proved \subseteq AttemptsOf(j),
         \A x \in Jobs \ {j} : job'[x].state = job[x].state,
         \A r \in Requests \ RequestsOf(j) : provider'[r] = provider[r]
  PROVE  ScopeStep
<1>1. ASSUME NEW x \in Jobs \ {j}, Busy(x) PROVE Busy(x)'
  <2>1. exits_proved(x)' => exits_proved(x)
    <3>1. AttemptsOf(x) \cap AttemptsOf(j) = {}
      BY DEF AttemptsOf
    <3> QED
      BY <3>1, QuietKept DEF exits_proved
  <2>2. none_in(x, Open)' => none_in(x, Open)
    <3>1. RequestsOf(x) \subseteq Requests \ RequestsOf(j)
      BY DEF RequestsOf
    <3> QED
      BY <3>1, QuietKept DEF none_in
  <2> QED
    BY <1>1, <2>1, <2>2 DEF Busy
<1> QED
  BY <1>1, QuietKept DEF NothingStarts, ScopeStep

-----------------------------------------------------------------------------
(* Each of those calls, one by one.                                        *)

(* A running job's owner is a claimed attempt of it. *)
LEMMA OwnerClaimed ==
  ASSUME DelphiTypeOK, DelphiLinked, NEW j \in Jobs, job[j].attempt # None
  PROVE  /\ job[j].state = "running" /\ job[j].attempt \in Attempts
         /\ Claimed(job[j].attempt) /\ attempt[job[j].attempt].job = j
<1>1. job[j].state = "running" /\ job[j].attempt \in AttemptsOf(j)
  BY DEF DelphiLinked, RunningLinked
<1>2. job[j].attempt \in Attempts /\ attempt[job[j].attempt].job = j
  BY <1>1 DEF AttemptsOf
<1> QED
  BY <1>1, <1>2, ConstantsAssumption DEF DelphiLinked, AttemptsLinked

(* Ending an attempt of a running job starts nothing. *)
LEMMA EndingStartsNothing ==
  ASSUME DelphiIInv, NEW a \in Attempts, Claimed(a), attempt[a].job \in Jobs,
         job[attempt[a].job].state = "running",
         NEW s \in {"retry_wait", "parked", "dead"},
         NEW o \in Outcomes \ {"absent"}, NEW waits, NEW refunded,
         terminate(a, s, o, waits, refunded),
         proved \subseteq proved', UNCHANGED <<guard, image, provider>>
  PROVE  /\ NothingStarts /\ job'[attempt[a].job].state = s
         /\ \A x \in Jobs \ {attempt[a].job} : job'[x] = job[x]
<1> DEFINE j == attempt[a].job
<1>1. PICK w \in waits :
        job' = [job EXCEPT ![j].state = s, ![j].terminal = a,
          ![j].attempt = None, ![j].lease = 0, ![j].epoch = @ + 1,
          ![j].mgmt = @ + 1, ![j].wait = w,
          ![j].parked = IF refunded THEN @ + 1 ELSE @]
  BY DEF terminate
<1>2. j \in Jobs /\ job[j].state = "running"
  OBVIOUS
<1>3. \A b \in Attempts :
        attempt'[b].job = attempt[b].job /\ (Claimed(b)' <=> Claimed(b))
  <2>1. attempt' = [attempt EXCEPT ![a].outcome = o]
    BY DEF terminate
  <2>2. attempt \in [Attempts -> AttemptRow]
    BY DEF DelphiIInv, DelphiTypeOK, TypeOK
  <2> QED
    BY <2>1, <2>2 DEF Claimed, AttemptRow
<1>4. \A x \in Jobs : run'[x].product = run[x].product
  <2>1. run' = run \/ run' = [run EXCEPT ![j].state = "dead"]
    BY DEF terminate, run_after
  <2>2. run \in [Jobs -> RunRow]
    BY DEF DelphiIInv, DelphiTypeOK, TypeOK
  <2> QED
    BY <2>1, <2>2 DEF RunRow
<1>5. request' = request
  BY DEF terminate
<1> HIDE DEF j
<1>6. /\ job'[j].state = s /\ job'[j].attempt = None
      /\ \A x \in Jobs \ {j} : job'[x] = job[x]
  BY <1>1, <1>2 DEF DelphiIInv, DelphiTypeOK, TypeOK, JobRow
<1>7. ASSUME NEW x \in Jobs
      PROVE  /\ job'[x].state = "absent" <=> job[x].state = "absent"
             /\ job[x].state \in Terminal => job'[x].state \in Terminal
             /\ IF job'[x].state = "running"
                THEN job[x].state = "running" /\ job'[x].attempt = job[x].attempt
                ELSE job'[x].attempt = None
  <2>1. CASE x = j
    BY <1>2, <1>6, <2>1 DEF Terminal
  <2>2. CASE x # j
    BY <1>6, <2>2 DEF DelphiIInv, DelphiLinked, RunningLinked
  <2> QED
    BY <2>1, <2>2
<1>8. NothingStarts
  BY <1>3, <1>4, <1>5, <1>7 DEF NothingStarts
<1> QED
  BY <1>6, <1>8 DEF j

(* What the jobs that do not move need to know of the step. *)
LEMMA StillResolved ==
  ASSUME DelphiIInv, NothingStarts, NEW j \in Jobs, job'[j].state = job[j].state
  PROVE  /\ job'[j].state \in Waiting => resolved(j)'
         /\ job'[j].state = "succeeded" => resolved(j)' /\ none_in(j, Open)'
BY QuietKept DEF DelphiIInv, WaitingIsResolved, ProviderWorkSettled, resolved

(* pq_end_attempt retries with every exit proved and nothing in doubt. *)
LEMMA EndAttemptKeeps ==
  ASSUME DelphiIInv, NEW a \in Attempts,
         NEW action \in {"confirm_exit", "retry", "permanent", "release", "park"},
         pd_end_attempt(a, action)
  PROVE  DelphiIInv' /\ ScopeStep
<1>1. DelphiTypeOK'
  BY EndAttemptType DEF DelphiIInv
<1>2. CASE UNCHANGED vars
  <2>1. NothingStarts
    BY <1>2 DEF pd_end_attempt, NothingStarts, vars, Claimed, DelphiIInv,
                DelphiLinked, RunningLinked
  <2>2. /\ \A j \in Jobs : job'[j].state = job[j].state
        /\ provider' = provider
    BY <1>2 DEF vars, pd_end_attempt
  <2>3. PICK j \in Jobs : a \in AttemptsOf(j)
    BY DEF pd_end_attempt, DelphiIInv, DelphiLinked, AttemptsLinked, AttemptsOf
  <2>4. proved' \ proved \subseteq AttemptsOf(j)
    BY <2>3 DEF pd_end_attempt
  <2>5. ScopeStep
    BY <2>1, <2>2, <2>4, OthersStayBusy
  <2> QED
    BY <1>1, <2>1, <2>2, <2>5, StillResolved, NothingStartsInv
<1>3. CASE ~UNCHANGED vars
  <2> DEFINE s == end_state(a, action)
             waits == CASE action = "park" -> 0..WaitTicks
                        [] action = "release" \/ s = "dead" -> {0}
                        [] OTHER -> 1..WaitTicks
  <2>1. /\ Claimed(a) /\ pq_owns(a) /\ proved' = proved \cup {a}
        /\ terminate(a, s, s, waits, action = "park")
        /\ UNCHANGED <<guard, image, provider>>
    BY <1>3 DEF pd_end_attempt
  <2>2. attempt[a].job \in Jobs
    BY <2>1 DEF DelphiIInv, DelphiLinked, AttemptsLinked
  <2>3. PICK j \in Jobs : j = attempt[a].job
    BY <2>2
  <2>4. job[j].state = "running" /\ job[j].attempt = a
    BY <2>1, <2>3 DEF pq_owns
  <2>5. s \in {"retry_wait", "parked", "dead"} /\ s \in Outcomes \ {"absent"}
    BY DEF end_state, ended, Outcomes
  <2>6. s = "retry_wait" => none_in(j, Unresolved)
    BY <2>3 DEF end_state
  <2> HIDE DEF s, waits
  <2>7. /\ NothingStarts /\ job'[j].state = s
        /\ \A x \in Jobs \ {j} : job'[x] = job[x]
    BY <2>1, <2>2, <2>3, <2>4, <2>5, EndingStartsNothing
  <2>8. exits_proved(j)'
    <3>1. AttemptsOf(j) \ {a} \subseteq proved
      BY <2>4 DEF DelphiIInv, DelphiLinked, RunningLinked
    <3>2. AttemptsOf(j)' = AttemptsOf(j)
      BY <2>7, QuietKept
    <3> QED
      BY <2>1, <3>1, <3>2 DEF exits_proved
  <2>9. job'[j].state \in Waiting => resolved(j)'
    <3>1. s \in Waiting => none_in(j, Unresolved)'
      BY <2>5, <2>6, <2>7, QuietKept DEF Waiting
    <3> QED
      BY <2>7, <2>8, <3>1 DEF resolved
  <2>10. job'[j].state # "succeeded"
    BY <2>5, <2>7
  <2>11. ScopeStep
    <3>1. proved' \ proved \subseteq AttemptsOf(j)
      BY <2>1, <2>3 DEF AttemptsOf
    <3> QED
      BY <2>1, <2>7, <3>1, OthersStayBusy
  <2> QED
    BY <1>1, <2>7, <2>9, <2>10, <2>11, StillResolved, NothingStartsInv
<1> QED
  BY <1>2, <1>3

(* pq_reap_one parks an expired job, so it does not wait for a claim. *)
LEMMA ReapExpiredKeeps ==
  ASSUME DelphiIInv, NEW j \in Jobs, pd_reap_expired(j)
  PROVE  DelphiIInv' /\ ScopeStep
<1> DEFINE a == job[j].attempt
<1>1. /\ a \in Attempts /\ attempt[a].job = j /\ Claimed(a)
      /\ job[j].state = "running"
  <2>1. job[j].attempt # None
    BY ConstantsAssumption DEF pd_reap_expired, DelphiIInv, DelphiLinked,
       RunningLinked, AttemptsOf
  <2> QED
    BY <2>1, OwnerClaimed DEF DelphiIInv
<1>2. /\ terminate(a, "parked", "expired", 1..WaitTicks, FALSE)
      /\ UNCHANGED <<proved, guard, image, provider>>
  BY DEF pd_reap_expired
<1>3. "expired" \in Outcomes \ {"absent"}
  BY DEF Outcomes
<1> HIDE DEF a
<1>4. /\ NothingStarts /\ job'[j].state = "parked"
      /\ \A x \in Jobs \ {j} : job'[x] = job[x]
  BY <1>1, <1>2, <1>3, EndingStartsNothing
<1>5. DelphiTypeOK'
  BY ReapExpiredType DEF DelphiIInv
<1>6. ScopeStep
  BY <1>2, <1>4, OthersStayBusy
<1> QED
  BY <1>4, <1>5, <1>6, StillResolved, NothingStartsInv DEF Waiting

(* pd_finalize: every attempt of the job is proved, its own by its guard. *)
LEMMA FinalizeKeeps ==
  ASSUME DelphiIInv, NEW a \in Attempts, pd_finalize(a)
  PROVE  DelphiIInv' /\ ScopeStep
<1>1. DelphiTypeOK'
  BY DelphiFinalizeType DEF DelphiIInv
<1>2. attempt[a].job \in Jobs
  BY DEF pd_finalize, DelphiIInv, DelphiLinked, AttemptsLinked
<1>3. PICK j \in Jobs : j = attempt[a].job
  BY <1>2
<1>4. /\ job[j].state = "running" /\ job[j].attempt = a
      /\ a \in proved /\ none_in(j, Open) /\ Claimed(a)
  BY <1>3 DEF pd_finalize, pq_owns
<1>5. resolved(j)
  <2>1. exits_proved(j)
    BY <1>4 DEF DelphiIInv, DelphiLinked, RunningLinked, exits_proved
  <2> QED
    BY <1>4, <2>1 DEF resolved, none_in, Open
<1>6. /\ attempt' = [attempt EXCEPT ![a].outcome = "succeeded"]
      /\ job' = [job EXCEPT ![j].state = "succeeded", ![j].terminal = a,
                   ![j].attempt = None, ![j].lease = 0, ![j].mgmt = @ + 1]
      /\ run' = [run EXCEPT ![j].state = "succeeded"]
      /\ UNCHANGED <<request, proved, guard, provider>>
  BY <1>3 DEF pd_finalize, succeed
<1>7. /\ job'[j].state = "succeeded" /\ job'[j].attempt = None
      /\ \A x \in Jobs \ {j} : job'[x] = job[x]
  BY <1>6 DEF DelphiIInv, DelphiTypeOK, TypeOK, JobRow
<1>8. NothingStarts
  <2>1. \A b \in Attempts :
          attempt'[b].job = attempt[b].job /\ (Claimed(b)' <=> Claimed(b))
    BY <1>4, <1>6 DEF Claimed, DelphiIInv, DelphiTypeOK, TypeOK, AttemptRow
  <2>2. \A x \in Jobs : run'[x].product = run[x].product
    BY <1>6 DEF DelphiIInv, DelphiTypeOK, TypeOK, RunRow
  <2>3. ASSUME NEW x \in Jobs
        PROVE  /\ job'[x].state = "absent" <=> job[x].state = "absent"
               /\ job[x].state \in Terminal => job'[x].state \in Terminal
               /\ IF job'[x].state = "running"
                  THEN job[x].state = "running" /\ job'[x].attempt = job[x].attempt
                  ELSE job'[x].attempt = None
    <3>1. CASE x = j
      BY <1>4, <1>7, <3>1 DEF Terminal
    <3>2. CASE x # j
      BY <1>7, <3>2 DEF DelphiIInv, DelphiLinked, RunningLinked
    <3> QED
      BY <3>1, <3>2
  <2> QED
    BY <1>6, <2>1, <2>2, <2>3 DEF NothingStarts
<1>9. job'[j].state = "succeeded" => resolved(j)' /\ none_in(j, Open)'
  BY <1>4, <1>5, <1>8, QuietKept DEF resolved
<1>10. job'[j].state \notin Waiting
  BY <1>7 DEF Waiting
<1>11. ScopeStep
  BY <1>6, <1>7, <1>8, OthersStayBusy
<1> QED
  BY <1>1, <1>7, <1>8, <1>9, <1>10, <1>11, StillResolved, NothingStartsInv

(* A step that touches neither a job's state nor its owner. *)
LEMMA LeasesOnlyKeep ==
  ASSUME DelphiIInv, DelphiTypeOK', Jobs # {},
         \A j \in Jobs : /\ job'[j].state = job[j].state
                         /\ job'[j].attempt = job[j].attempt,
         UNCHANGED <<request, run, attempt, proved, guard, provider>>
  PROVE  DelphiIInv' /\ ScopeStep
<1>1. NothingStarts
  BY DEF NothingStarts, Claimed, DelphiIInv, DelphiLinked, RunningLinked
<1>2. ScopeStep
  BY <1>1, OthersStayBusy
<1> QED
  BY <1>1, <1>2, StillResolved, NothingStartsInv

(* pq_heartbeat moves a lease only. *)
LEMMA HeartbeatKeeps ==
  ASSUME DelphiIInv, NEW a \in Attempts, pd_heartbeat(a)
  PROVE  DelphiIInv' /\ ScopeStep
<1>1. DelphiTypeOK'
  BY HeartbeatType DEF DelphiIInv, DelphiTypeOK, pd_heartbeat
<1>2. /\ job' = [job EXCEPT ![attempt[a].job].lease = LeaseTicks]
      /\ UNCHANGED <<request, run, attempt, proved, guard, provider>>
  BY DEF pd_heartbeat, pq_heartbeat
<1>3. \A j \in Jobs : job'[j].state = job[j].state /\ job'[j].attempt = job[j].attempt
  BY <1>2 DEF DelphiIInv, DelphiTypeOK, TypeOK, JobRow
<1>4. Jobs # {}
  BY DEF pd_heartbeat, pq_heartbeat, DelphiIInv, DelphiLinked, AttemptsLinked
<1> QED
  BY <1>1, <1>2, <1>3, <1>4, LeasesOnlyKeep

(* The clock moves leases and waits only. *)
LEMMA TickKeeps == DelphiIInv /\ DelphiTick => DelphiIInv' /\ ScopeStep
<1> SUFFICES ASSUME DelphiIInv, DelphiTick PROVE DelphiIInv' /\ ScopeStep
  OBVIOUS
<1>1. DelphiTypeOK'
  BY TickType DEF DelphiIInv, DelphiTypeOK, DelphiTick
<1>2. ASSUME NEW x \in Jobs
      PROVE  job'[x].state = job[x].state /\ job'[x].attempt = job[x].attempt
  <2>1. /\ job[x] \in JobRow
        /\ job'[x] = [job[x] EXCEPT !.lease = IF @ > 0 THEN @ - 1 ELSE 0,
                                    !.wait = IF @ > 0 THEN @ - 1 ELSE 0]
    BY DEF DelphiTick, Tick, DelphiIInv, DelphiTypeOK, TypeOK
  <2> QED
    BY <2>1 DEF JobRow
<1>3. UNCHANGED <<request, run, attempt, proved, guard, provider>>
  BY DEF DelphiTick, Tick
<1>4. Jobs # {}
  BY DEF DelphiTick, Tick
<1> QED
  BY <1>1, <1>2, <1>3, <1>4, LeasesOnlyKeep

(* pq_reap_one makes only a resolved parked job wait. *)
LEMMA ReapParkedKeeps ==
  ASSUME DelphiIInv, NEW j \in Jobs, pd_reap_parked(j)
  PROVE  DelphiIInv' /\ ScopeStep
<1>1. DelphiTypeOK'
  BY ReapParkedType DEF DelphiIInv, DelphiTypeOK, pd_reap_parked
<1>2. PICK s \in {"dead", "queued"} :
        /\ job' = [job EXCEPT ![j].state = s, ![j].mgmt = @ + 1]
        /\ run' = run_after(j, s)
  BY DEF pd_reap_parked, reap_parked
<1>3. /\ job[j].state = "parked" /\ resolved(j)
      /\ UNCHANGED <<request, attempt, proved, guard, provider>>
  BY DEF pd_reap_parked, reap_parked
<1>4. /\ job'[j].state = s /\ job'[j].attempt = job[j].attempt
      /\ \A x \in Jobs \ {j} : job'[x] = job[x]
  BY <1>2 DEF DelphiIInv, DelphiTypeOK, TypeOK, JobRow
<1>5. NothingStarts
  <2>1. \A x \in Jobs : run'[x].product = run[x].product
    BY <1>2 DEF run_after, DelphiIInv, DelphiTypeOK, TypeOK, RunRow
  <2> QED
    BY <1>3, <1>4, <2>1
       DEF NothingStarts, Claimed, Terminal, DelphiIInv, DelphiLinked, RunningLinked
<1>6. resolved(j)'
  BY <1>3, <1>5, QuietKept DEF resolved
<1>7. ScopeStep
  BY <1>3, <1>4, <1>5, OthersStayBusy
<1> QED
  BY <1>1, <1>4, <1>5, <1>6, <1>7, StillResolved, NothingStartsInv

(* pq_cancel settles a job; what it left unproved or open stays on record. *)
LEMMA CancelKeeps ==
  ASSUME DelphiIInv, NEW j \in Jobs, pd_cancel(j, job[j].mgmt)
  PROVE  DelphiIInv' /\ ScopeStep
<1>1. DelphiTypeOK'
  BY CancelledType DEF DelphiIInv
<1>2. /\ attempt' = IF job[j].attempt = None THEN attempt
                    ELSE [attempt EXCEPT ![job[j].attempt].outcome = "cancelled"]
      /\ job' = [job EXCEPT ![j].state = "cancelled",
           ![j].terminal = IF job[j].attempt = None THEN @ ELSE job[j].attempt,
           ![j].attempt = None, ![j].lease = 0, ![j].wait = 0,
           ![j].epoch = @ + 1, ![j].mgmt = @ + 1]
      /\ run' = [run EXCEPT ![j].state = "cancelled"]
      /\ job[j].state \notin Terminal \cup {"absent"}
      /\ UNCHANGED <<request, proved, guard, provider>>
  BY DEF pd_cancel, pq_cancel, cancel_admits
<1>3. \A b \in Attempts :
        attempt'[b].job = attempt[b].job /\ (Claimed(b)' <=> Claimed(b))
  BY <1>2, OwnerClaimed DEF Claimed, DelphiIInv, DelphiTypeOK, TypeOK, AttemptRow
<1>4. /\ job'[j].state = "cancelled" /\ job'[j].attempt = None
      /\ \A x \in Jobs \ {j} : job'[x] = job[x]
  BY <1>2 DEF DelphiIInv, DelphiTypeOK, TypeOK, JobRow
<1>5. NothingStarts
  <2>1. \A x \in Jobs : run'[x].product = run[x].product
    BY <1>2 DEF DelphiIInv, DelphiTypeOK, TypeOK, RunRow
  <2> QED
    BY <1>2, <1>3, <1>4, <2>1
       DEF NothingStarts, Terminal, DelphiIInv, DelphiLinked, RunningLinked
<1>6. ScopeStep
  BY <1>2, <1>4, <1>5, OthersStayBusy
<1> QED
  BY <1>1, <1>4, <1>5, <1>6, StillResolved, NothingStartsInv DEF Waiting

(* pd_provider_update never reopens a request. *)
LEMMA UpdateKeeps ==
  ASSUME DelphiIInv, NEW a \in Attempts, NEW r \in Requests,
         NEW s \in {"submission_unknown", "submitted", "completed", "failed"},
         pd_provider_update(a, r, s)
  PROVE  DelphiIInv' /\ ScopeStep
<1>1. DelphiTypeOK'
  BY UpdateType DEF DelphiIInv
<1>2. /\ provider' = [provider EXCEPT ![r].state = s]
      /\ provider_transition(provider[r].state, s)
      /\ UNCHANGED <<vars, proved, guard>>
  BY DEF pd_provider_update
<1>3. /\ provider'[r].state = s /\ provider'[r].attempt = provider[r].attempt
      /\ \A x \in Requests \ {r} : provider'[x] = provider[x]
  BY <1>2 DEF DelphiIInv, DelphiTypeOK, ProviderRow
<1>4. /\ provider[r].state \in Open
      /\ s \in Unresolved => provider[r].state \in Unresolved
  BY <1>2 DEF provider_transition, Open, Unresolved
<1>5. NothingStarts
  <2>1. s # "absent" /\ provider[r].state # "absent"
    BY <1>4 DEF Open, Unresolved
  <2> QED
    BY <1>2, <1>3, <1>4, <2>1
       DEF NothingStarts, Claimed, vars, DelphiIInv, DelphiLinked, RunningLinked
<1>6. \A j \in Jobs : job'[j].state = job[j].state
  BY <1>2 DEF vars
<1>7. ScopeStep
  <2>1. PICK j \in Jobs : r \in RequestsOf(j)
    BY DEF pd_provider_update, DelphiIInv, DelphiLinked, AttemptsLinked
  <2> QED
    BY <1>2, <1>3, <1>5, <1>6, <2>1, OthersStayBusy
<1> QED
  BY <1>1, <1>5, <1>6, <1>7, StillResolved, NothingStartsInv


-----------------------------------------------------------------------------
(* Keys and guards: calls that leave every process and request alone.      *)

(* Nothing a job is doing changes with its keys and guards. *)
LEMMA WorkUntouched ==
  ASSUME NEW j \in Jobs, UNCHANGED <<attempt, proved, provider>>
  PROVE  /\ AttemptsOf(j)' = AttemptsOf(j)
         /\ exits_proved(j)' <=> exits_proved(j)
         /\ RequestsOf(j)' = RequestsOf(j)
         /\ none_in(j, Open)' <=> none_in(j, Open)
         /\ none_in(j, Unresolved)' <=> none_in(j, Unresolved)
         /\ resolved(j)' <=> resolved(j)
         /\ job'[j].state = job[j].state => (Busy(j)' <=> Busy(j))
<1>1. AttemptsOf(j)' = AttemptsOf(j)
  BY DEF AttemptsOf
<1>2. exits_proved(j)' <=> exits_proved(j)
  BY <1>1 DEF exits_proved
<1>3. RequestsOf(j)' = RequestsOf(j)
  BY DEF RequestsOf
<1>4. /\ none_in(j, Open)' <=> none_in(j, Open)
      /\ none_in(j, Unresolved)' <=> none_in(j, Unresolved)
  BY <1>3 DEF none_in
<1>5. resolved(j)' <=> resolved(j)
  BY <1>2, <1>4 DEF resolved
<1>6. job'[j].state = job[j].state => (Busy(j)' <=> Busy(j))
  BY <1>2, <1>4 DEF Busy
<1> QED
  BY <1>1, <1>2, <1>3, <1>4, <1>5, <1>6

(* What does not depend on keys and guards is kept with them. *)
LEMMA WorkKept ==
  ASSUME DelphiIInv, UNCHANGED <<run, job, attempt, proved, provider>>
  PROVE  /\ AttemptsLinked' /\ RunningLinked' /\ ProvidersLinked' /\ ProductsLinked'
         /\ OneProcess' /\ WaitingIsResolved' /\ ProviderWorkSettled'
<1>1. AttemptsLinked' /\ ProvidersLinked' /\ ProductsLinked' /\ OneProcess'
  BY DEF DelphiIInv, DelphiLinked, AttemptsLinked, ProvidersLinked, ProductsLinked,
         OneProcess, Claimed
<1>2. RunningLinked'
  BY WorkUntouched DEF DelphiIInv, DelphiLinked, RunningLinked
<1>3. WaitingIsResolved'
  BY WorkUntouched DEF DelphiIInv, WaitingIsResolved
<1>4. ProviderWorkSettled'
  BY WorkUntouched DEF DelphiIInv, ProviderWorkSettled
<1> QED
  BY <1>1, <1>2, <1>3, <1>4

(* A key whose binding expired promises nothing. *)
LEMMA BindingExpiresKeeps ==
  ASSUME DelphiIInv, NEW p \in Products, NEW k \in Keys, binding_expires(p, k)
  PROVE  DelphiIInv'
<1>1. request' = [request EXCEPT ![<<p, k>>] = [digest |-> None, job |-> None]]
  BY DEF binding_expires
<1>2. UNCHANGED <<head, run, job, attempt, proved, guard, image, provider>>
  BY DEF binding_expires
<1>3. DelphiTypeOK'
  BY <1>1, <1>2, KeyType DEF DelphiIInv
<1>4. ASSUME NEW s \in Products \X Keys, request'[s].job # None
      PROVE  request'[s] = request[s]
  BY <1>1, <1>4 DEF DelphiIInv, DelphiTypeOK, TypeOK
<1>5. DelphiLinked'
  <2>1. GuardsLinked'
    BY <1>2 DEF DelphiIInv, DelphiLinked, GuardsLinked
  <2>2. KeysLinked'
    BY <1>2, <1>4 DEF DelphiIInv, DelphiLinked, KeysLinked
  <2> QED
    BY <1>2, <2>1, <2>2, WorkKept DEF DelphiLinked
<1>6. ScopeHeld'
  BY <1>2, WorkUntouched DEF DelphiIInv, ScopeHeld
<1>7. AliasesAgree'
  BY <1>4 DEF DelphiIInv, AliasesAgree
<1> QED
  BY <1>2, <1>3, <1>5, <1>6, <1>7, WorkKept DEF DelphiIInv

(* A key is bound to the holder only with the digest of its guard. *)
LEMMA AliasKeeps ==
  ASSUME DelphiIInv, NEW p \in Products, NEW k \in Keys, NEW d \in Digests,
         pd_alias(p, k, d)
  PROVE  DelphiIInv'
<1>1. /\ guard[p].job # None /\ guard[p].digest = d
      /\ request' = [request EXCEPT
           ![<<p, k>>] = [digest |-> d, job |-> guard[p].job]]
      /\ UNCHANGED <<head, run, job, attempt, proved, guard, image, provider>>
  BY DEF pd_alias
<1>2. guard[p].job \in Jobs
  BY <1>1 DEF DelphiIInv, DelphiTypeOK, GuardRow
<1>3. DelphiTypeOK'
  BY <1>1, <1>2, KeyType DEF DelphiIInv
<1>4. /\ request'[<<p, k>>] = [digest |-> guard[p].digest, job |-> guard[p].job]
      /\ \A s \in Products \X Keys : s # <<p, k>> => request'[s] = request[s]
  BY <1>1 DEF DelphiIInv, DelphiTypeOK, TypeOK
<1>5. /\ job[guard[p].job].state # "absent"
      /\ \A q \in Products : guard[q].job = guard[p].job => q = p
  BY <1>1 DEF DelphiIInv, DelphiLinked, GuardsLinked
<1>6. ASSUME NEW s \in Products \X Keys, request[s].job = guard[p].job
      PROVE  request[s].digest = guard[p].digest
  BY <1>1, <1>6 DEF DelphiIInv, DelphiLinked, KeysLinked
<1>7. DelphiLinked'
  <2>1. GuardsLinked'
    BY <1>1 DEF DelphiIInv, DelphiLinked, GuardsLinked
  <2>2. KeysLinked'
    BY <1>1, <1>4, <1>5 DEF DelphiIInv, DelphiLinked, KeysLinked
  <2> QED
    BY <1>1, <2>1, <2>2, WorkKept DEF DelphiLinked
<1>8. ScopeHeld'
  BY <1>1, WorkUntouched DEF DelphiIInv, ScopeHeld
<1>9. AliasesAgree'
  BY <1>4, <1>6 DEF DelphiIInv, AliasesAgree
<1> QED
  BY <1>1, <1>3, <1>7, <1>8, <1>9, WorkKept DEF DelphiIInv

(* A scope is given up by a job that is not busy. *)
LEMMA ReleaseKeeps ==
  ASSUME DelphiIInv, NEW p \in Products, pd_release_scope(p)
  PROVE  DelphiIInv'
<1>1. /\ guard' = [guard EXCEPT ![p] = [job |-> None, digest |-> None]]
      /\ UNCHANGED <<vars, proved, image, provider>>
      /\ ~Busy(guard[p].job)
  BY DEF pd_release_scope, Busy
<1>2. UNCHANGED <<request, head, run, job, attempt>>
  BY <1>1 DEF vars
<1>3. DelphiTypeOK'
  BY ReleaseType DEF DelphiIInv
<1>4. /\ guard'[p].job = None
      /\ \A q \in Products \ {p} : guard'[q] = guard[q]
  BY <1>1 DEF DelphiIInv, DelphiTypeOK
<1>5. DelphiLinked'
  <2>1. GuardsLinked'
    BY <1>2, <1>4 DEF DelphiIInv, DelphiLinked, GuardsLinked
  <2>2. KeysLinked'
    BY <1>2, <1>4 DEF DelphiIInv, DelphiLinked, KeysLinked
  <2> QED
    BY <1>1, <1>2, <2>1, <2>2, WorkKept DEF DelphiLinked
<1>6. ScopeHeld'
  <2>1. ASSUME NEW j \in Jobs, Busy(j)' PROVE guard'[run'[j].product].job = j
    <3>1. Busy(j)
      BY <1>1, <1>2, <2>1, WorkUntouched
    <3>2. guard[run[j].product].job = j /\ run[j].product \in Products
      BY <3>1 DEF Busy, DelphiIInv, ScopeHeld, DelphiLinked, ProductsLinked
    <3>3. run[j].product # p
      BY <1>1, <3>1, <3>2
    <3> QED
      BY <1>2, <1>4, <3>2, <3>3
  <2> QED
    BY <2>1 DEF ScopeHeld
<1>7. AliasesAgree'
  BY <1>2 DEF DelphiIInv, AliasesAgree
<1> QED
  BY <1>1, <1>2, <1>3, <1>5, <1>6, <1>7, WorkKept DEF DelphiIInv


-----------------------------------------------------------------------------
(* The three calls that start something.                                   *)

(* pd_enqueue: a new job has no attempt, no request and no other key. *)
LEMMA AdmitKeeps ==
  ASSUME DelphiIInv, NEW p \in Products, NEW k \in Keys, NEW d \in Digests,
         NEW j \in Jobs, NEW i \in Images, pd_admit(p, k, d, j, i)
  PROVE  DelphiIInv'
<1>1. DelphiTypeOK'
  BY AdmitType DEF DelphiIInv
<1>2. /\ job[j].state = "absent" /\ guard[p].job = None
      /\ request' = [request EXCEPT ![<<p, k>>] = [digest |-> d, job |-> j]]
      /\ run' = [run EXCEPT ![j] =
           [product |-> p, generation |-> head[p].requested + 1, state |-> "pending"]]
      /\ job' = [job EXCEPT ![j].state = "queued"]
      /\ guard' = [guard EXCEPT ![p] = [job |-> j, digest |-> d]]
      /\ UNCHANGED <<attempt, proved, provider>>
  BY DEF pd_admit, pq_enqueue
<1>3. /\ job'[j].state = "queued" /\ job'[j].attempt = job[j].attempt
      /\ \A x \in Jobs \ {j} : job'[x] = job[x]
  BY <1>2 DEF DelphiIInv, DelphiTypeOK, TypeOK, JobRow
<1>4. run'[j].product = p /\ \A x \in Jobs \ {j} : run'[x] = run[x]
  BY <1>2 DEF DelphiIInv, DelphiTypeOK, TypeOK
<1>5. /\ guard'[p] = [job |-> j, digest |-> d]
      /\ \A q \in Products \ {p} : guard'[q] = guard[q]
  BY <1>2 DEF DelphiIInv, DelphiTypeOK
<1>6. /\ request'[<<p, k>>] = [digest |-> d, job |-> j]
      /\ \A s \in Products \X Keys : s # <<p, k>> => request'[s] = request[s]
  BY <1>2 DEF DelphiIInv, DelphiTypeOK, TypeOK
<1>7. /\ \A q \in Products : guard[q].job # j
      /\ \A s \in Products \X Keys : request[s].job # j
  BY <1>2, ConstantsAssumption DEF DelphiIInv, DelphiLinked, GuardsLinked, KeysLinked
<1>8. AttemptsOf(j) = {} /\ RequestsOf(j) = {}
  <2>1. AttemptsOf(j) = {}
    BY <1>2, ConstantsAssumption DEF DelphiIInv, DelphiLinked, AttemptsLinked, AttemptsOf
  <2> QED
    BY <2>1 DEF AttemptsOf, RequestsOf, DelphiIInv, DelphiTypeOK, ProviderRow
<1>9. resolved(j)'
  BY <1>2, <1>8, WorkUntouched DEF resolved, exits_proved, none_in
<1>10. DelphiLinked'
  <2>1. AttemptsLinked' /\ ProvidersLinked'
    BY <1>2, <1>3 DEF DelphiIInv, DelphiLinked, AttemptsLinked, ProvidersLinked, Claimed
  <2>2. RunningLinked'
    BY <1>2, <1>3, WorkUntouched DEF DelphiIInv, DelphiLinked, RunningLinked
  <2>3. GuardsLinked'
    <3>1. ASSUME NEW q \in Products \ {p}, guard[q].job # None
          PROVE  guard[q].job \in Jobs \ {j}
      BY <1>7, <3>1 DEF DelphiIInv, DelphiTypeOK, GuardRow
    <3> QED
      BY <1>3, <1>4, <1>5, <3>1 DEF DelphiIInv, DelphiLinked, GuardsLinked
  <2>4. KeysLinked'
    <3>1. ASSUME NEW s \in Products \X Keys, request[s].job # None
          PROVE  request[s].job \in Jobs \ {j}
      BY <1>7, <3>1 DEF DelphiIInv, DelphiTypeOK, TypeOK, RequestRow
    <3>2. ASSUME NEW s \in Products \X Keys, s # <<p, k>>, request'[s].job # None
          PROVE  /\ job'[request'[s].job].state # "absent"
                 /\ \A q \in Products : guard'[q].job = request'[s].job
                      => guard'[q].digest = request'[s].digest
      BY <1>3, <1>5, <1>6, <3>1, <3>2 DEF DelphiIInv, DelphiLinked, KeysLinked
    <3>3. \A q \in Products : guard'[q].job = j => guard'[q].digest = d
      BY <1>5, <1>7
    <3> QED
      BY <1>3, <1>6, <3>2, <3>3 DEF KeysLinked
  <2>5. ProductsLinked'
    BY <1>3, <1>4 DEF DelphiIInv, DelphiLinked, ProductsLinked
  <2> QED
    BY <2>1, <2>2, <2>3, <2>4, <2>5 DEF DelphiLinked
<1>11. OneProcess'
  BY <1>2 DEF DelphiIInv, OneProcess, Claimed
<1>12. WaitingIsResolved'
  BY <1>2, <1>3, <1>9, WorkUntouched DEF DelphiIInv, WaitingIsResolved
<1>13. ScopeHeld'
  <2>1. ASSUME NEW x \in Jobs \ {j}, Busy(x)' PROVE guard'[run'[x].product].job = x
    <3>1. Busy(x)
      BY <1>2, <1>3, <2>1, WorkUntouched
    <3>2. guard[run[x].product].job = x /\ run[x].product \in Products
      BY <3>1 DEF Busy, DelphiIInv, ScopeHeld, DelphiLinked, ProductsLinked
    <3>3. run[x].product # p
      BY <1>2, <3>2, ConstantsAssumption
    <3> QED
      BY <1>4, <1>5, <3>2, <3>3
  <2>2. guard'[run'[j].product].job = j
    BY <1>4, <1>5
  <2> QED
    BY <2>1, <2>2 DEF ScopeHeld
<1>14. ProviderWorkSettled'
  BY <1>2, <1>3, WorkUntouched DEF DelphiIInv, ProviderWorkSettled
<1>15. AliasesAgree'
  BY <1>6, <1>7 DEF DelphiIInv, AliasesAgree
<1> QED
  BY <1>1, <1>10, <1>11, <1>12, <1>13, <1>14, <1>15 DEF DelphiIInv

(* pq_claim: the attempt it opens is the only one unproved. *)
LEMMA ClaimKeeps ==
  ASSUME DelphiIInv, NEW j \in Jobs, NEW a \in Attempts, pd_claim(j, a)
  PROVE  DelphiIInv' /\ ScopeStep
<1>1. DelphiTypeOK'
  BY ClaimType DEF DelphiIInv, DelphiTypeOK, pd_claim
<1>2. /\ resolved(j) /\ job[j].state \in Waiting /\ ~Claimed(a)
      /\ job' = [job EXCEPT ![j].state = "running", ![j].attempt = a,
           ![j].lease = LeaseTicks, ![j].epoch = claim_epoch(j),
           ![j].mgmt = @ + 1, ![j].count = @ + 1]
      /\ attempt' = [attempt EXCEPT
           ![a] = [job |-> j, epoch |-> claim_epoch(j), outcome |-> "running"]]
      /\ UNCHANGED <<request, run, proved, guard, provider>>
  BY DEF pd_claim, pq_claim, claimable
<1>3. /\ job'[j].state = "running" /\ job'[j].attempt = a
      /\ \A x \in Jobs \ {j} : job'[x] = job[x]
  BY <1>2 DEF DelphiIInv, DelphiTypeOK, TypeOK, JobRow
<1>4. /\ attempt[a].job = None /\ attempt'[a].job = j /\ Claimed(a)'
      /\ \A b \in Attempts \ {a} :
           attempt'[b] = attempt[b] /\ (Claimed(b)' <=> Claimed(b))
  BY <1>2 DEF DelphiIInv, DelphiTypeOK, TypeOK, DelphiLinked, AttemptsLinked, Claimed
<1>5. ASSUME NEW x \in Jobs
      PROVE  /\ AttemptsOf(x)' = AttemptsOf(x) \cup (IF x = j THEN {a} ELSE {})
             /\ RequestsOf(x)' = RequestsOf(x)
  <2>1. AttemptsOf(x)' = AttemptsOf(x) \cup (IF x = j THEN {a} ELSE {})
    BY <1>4, ConstantsAssumption DEF AttemptsOf
  <2>2. ASSUME NEW r \in Requests, provider[r].attempt # None
        PROVE  provider[r].attempt \in Attempts \ {a}
    <3>1. provider[r].state # "absent"
      BY <2>2 DEF DelphiIInv, DelphiLinked, ProvidersLinked
    <3> QED
      BY <1>2, <3>1 DEF DelphiIInv, DelphiLinked, ProvidersLinked
  <2>3. RequestsOf(x)' = RequestsOf(x)
    BY <1>2, <1>4, <2>2 DEF RequestsOf
  <2> QED
    BY <2>1, <2>3
<1>6. ASSUME NEW x \in Jobs
      PROVE  /\ none_in(x, Open)' <=> none_in(x, Open)
             /\ none_in(x, Unresolved)' <=> none_in(x, Unresolved)
             /\ x # j => (exits_proved(x)' <=> exits_proved(x))
  BY <1>2, <1>5 DEF none_in, exits_proved
<1>7. AttemptsOf(j) \subseteq proved
  BY <1>2 DEF resolved, exits_proved
<1>8. job[j].state \notin Terminal \cup {"absent"}
  BY <1>2 DEF Waiting, Terminal
<1>9. DelphiLinked'
  <2>1. AttemptsLinked'
    BY <1>3, <1>4 DEF DelphiIInv, DelphiLinked, AttemptsLinked
  <2>2. RunningLinked'
    BY <1>2, <1>3, <1>5, <1>7 DEF DelphiIInv, DelphiLinked, RunningLinked
  <2>3. ProvidersLinked'
    BY <1>2, <1>4 DEF DelphiIInv, DelphiLinked, ProvidersLinked
  <2>4. /\ \A x \in Jobs : job[x].state # "absent" => job'[x].state # "absent"
        /\ run' = run /\ guard' = guard /\ request' = request
    BY <1>2, <1>3
  <2>5. GuardsLinked' /\ KeysLinked'
    <3>1. ASSUME NEW q \in Products, guard[q].job # None PROVE guard[q].job \in Jobs
      BY <3>1 DEF DelphiIInv, DelphiTypeOK, GuardRow
    <3>2. ASSUME NEW s \in Products \X Keys, request[s].job # None
          PROVE  request[s].job \in Jobs
      BY <3>2 DEF DelphiIInv, DelphiTypeOK, TypeOK, RequestRow
    <3>3. GuardsLinked'
      BY <2>4, <3>1 DEF DelphiIInv, DelphiLinked, GuardsLinked
    <3>4. KeysLinked'
      BY <2>4, <3>2 DEF DelphiIInv, DelphiLinked, KeysLinked
    <3> QED
      BY <3>3, <3>4
  <2>6. ProductsLinked'
    BY <1>2, <1>3, <1>8 DEF DelphiIInv, DelphiLinked, ProductsLinked
  <2> QED
    BY <2>1, <2>2, <2>3, <2>4, <2>5, <2>6 DEF DelphiLinked
<1>10. OneProcess'
  <2>1. \A b \in Attempts \ {a} : b \notin proved => attempt[b].job # j
    BY <1>7 DEF AttemptsOf
  <2> QED
    BY <1>2, <1>4, <2>1 DEF DelphiIInv, OneProcess
<1>11. WaitingIsResolved'
  BY <1>3, <1>6 DEF DelphiIInv, WaitingIsResolved, resolved, Waiting
<1>12. ScopeHeld' /\ ScopeStep
  <2>1. \A x \in Jobs \ {j} : Busy(x)' <=> Busy(x)
    BY <1>3, <1>6 DEF Busy
  <2>2. Busy(j)
    BY <1>8 DEF Busy
  <2>3. ScopeHeld'
    BY <1>2, <2>1, <2>2 DEF DelphiIInv, ScopeHeld
  <2>4. \A x \in Jobs : job'[x].state = "absent" <=> job[x].state = "absent"
    BY <1>3, <1>8
  <2> QED
    BY <1>2, <2>1, <2>2, <2>3, <2>4 DEF ScopeStep
<1>13. ProviderWorkSettled'
  BY <1>2, <1>3, <1>5, <1>6 DEF DelphiIInv, ProviderWorkSettled, resolved
<1>14. AliasesAgree'
  BY <1>2 DEF DelphiIInv, AliasesAgree
<1> QED
  BY <1>1, <1>9, <1>10, <1>11, <1>12, <1>13, <1>14 DEF DelphiIInv

(* pd_provider_intent: the request it opens is the only one open. *)
LEMMA IntentKeeps ==
  ASSUME DelphiIInv, NEW a \in Attempts, NEW r \in Requests,
         pd_provider_intent(a, r)
  PROVE  DelphiIInv' /\ ScopeStep
<1>1. DelphiTypeOK'
  BY IntentType DEF DelphiIInv
<1>2. attempt[a].job \in Jobs
  BY DEF pd_provider_intent, DelphiIInv, DelphiLinked, AttemptsLinked
<1>3. PICK j \in Jobs : j = attempt[a].job
  BY <1>2
<1>4. /\ Claimed(a) /\ job[j].state = "running" /\ none_in(j, Open)
      /\ provider[r].state = "absent" /\ provider[r].attempt = None
      /\ provider' = [provider EXCEPT ![r] = [attempt |-> a, state |-> "intent"]]
      /\ UNCHANGED <<request, run, job, attempt, proved, guard>>
  BY <1>3 DEF pd_provider_intent, pq_owns, vars, DelphiIInv, DelphiLinked, ProvidersLinked
<1>5. /\ provider'[r] = [attempt |-> a, state |-> "intent"]
      /\ \A x \in Requests \ {r} : provider'[x] = provider[x]
  BY <1>4 DEF DelphiIInv, DelphiTypeOK
<1>6. ASSUME NEW x \in Jobs
      PROVE  /\ AttemptsOf(x)' = AttemptsOf(x)
             /\ RequestsOf(x)' = RequestsOf(x) \cup (IF x = j THEN {r} ELSE {})
  <2>1. AttemptsOf(x)' = AttemptsOf(x)
    BY <1>4 DEF AttemptsOf
  <2>2. RequestsOf(x)' = RequestsOf(x) \cup (IF x = j THEN {r} ELSE {})
    BY <1>3, <1>4, <1>5, ConstantsAssumption DEF RequestsOf
  <2> QED
    BY <2>1, <2>2
<1>7. r \notin RequestsOf(j)
  BY <1>4 DEF RequestsOf
<1>8. ASSUME NEW x \in Jobs
      PROVE  /\ exits_proved(x)' <=> exits_proved(x)
             /\ x # j => /\ none_in(x, Open)' <=> none_in(x, Open)
                         /\ none_in(x, Unresolved)' <=> none_in(x, Unresolved)
  <2>1. exits_proved(x)' <=> exits_proved(x)
    BY <1>4, <1>6 DEF exits_proved
  <2>2. x # j => \A y \in RequestsOf(x)' :
                   y \in RequestsOf(x) /\ provider'[y] = provider[y]
    BY <1>4, <1>5, <1>6 DEF RequestsOf
  <2> QED
    BY <1>6, <2>1, <2>2 DEF none_in
<1>9. DelphiLinked'
  <2>1. AttemptsLinked' /\ GuardsLinked' /\ KeysLinked' /\ ProductsLinked'
    BY <1>4 DEF DelphiIInv, DelphiLinked, AttemptsLinked, GuardsLinked, KeysLinked,
       ProductsLinked, Claimed
  <2>2. RunningLinked'
    BY <1>4, <1>6 DEF DelphiIInv, DelphiLinked, RunningLinked
  <2>3. ProvidersLinked'
    BY <1>4, <1>5 DEF DelphiIInv, DelphiLinked, ProvidersLinked, Claimed
  <2> QED
    BY <2>1, <2>2, <2>3 DEF DelphiLinked
<1>10. OneProcess'
  BY <1>4 DEF DelphiIInv, OneProcess, Claimed
<1>11. WaitingIsResolved'
  BY <1>4, <1>8 DEF DelphiIInv, WaitingIsResolved, resolved, Waiting
<1>12. ScopeHeld' /\ ScopeStep
  <2>1. \A x \in Jobs : Busy(x)' <=> Busy(x)
    BY <1>4, <1>8 DEF Busy, Terminal
  <2> QED
    BY <1>4, <2>1 DEF DelphiIInv, ScopeHeld, ScopeStep
<1>13. ProviderWorkSettled'
  <2>1. ASSUME NEW x \in Jobs, NEW y \in RequestsOf(x)', NEW z \in RequestsOf(x)',
               provider'[y].state \in Open, provider'[z].state \in Open
        PROVE  y = z
    <3>1. CASE x = j
      <4>1. \A w \in RequestsOf(j)' \ {r} : provider'[w].state \notin Open
        BY <1>4, <1>5, <1>6 DEF none_in, RequestsOf
      <4> QED
        BY <2>1, <3>1, <4>1
    <3>2. CASE x # j
      <4>1. /\ y \in RequestsOf(x) /\ z \in RequestsOf(x)
            /\ y \in Requests \ {r} /\ z \in Requests \ {r}
        BY <1>4, <1>6, <3>2 DEF RequestsOf
      <4> QED
        BY <1>5, <2>1, <4>1 DEF DelphiIInv, ProviderWorkSettled
    <3> QED
      BY <3>1, <3>2
  <2>2. ASSUME NEW x \in Jobs, job'[x].state = "succeeded"
        PROVE  resolved(x)' /\ none_in(x, Open)'
    BY <1>4, <1>8, <2>2 DEF DelphiIInv, ProviderWorkSettled, resolved
  <2> QED
    BY <2>1, <2>2 DEF ProviderWorkSettled
<1>14. AliasesAgree'
  BY <1>4 DEF DelphiIInv, AliasesAgree
<1> QED
  BY <1>1, <1>9, <1>10, <1>11, <1>12, <1>13, <1>14 DEF DelphiIInv


-----------------------------------------------------------------------------
(* The safety of the scopes, for every number of jobs, scopes and workers. *)

(* The invariant holds of the empty tables. *)
LEMMA DelphiInitInv == DelphiInit => DelphiIInv
<1> SUFFICES ASSUME DelphiInit PROVE DelphiIInv
  OBVIOUS
<1>1. DelphiTypeOK
  BY DelphiInitType
<1>2. /\ \A j \in Jobs : job[j].state = "absent" /\ job[j].attempt = None
      /\ \A a \in Attempts : attempt[a].job = None /\ ~Claimed(a)
      /\ \A p \in Products : guard[p].job = None
      /\ \A s \in Products \X Keys : request[s].job = None
      /\ \A r \in Requests : provider[r].attempt = None /\ provider[r].state = "absent"
  BY DEF DelphiInit, Init, Claimed
<1>3. DelphiLinked
  BY <1>2 DEF DelphiLinked, AttemptsLinked, RunningLinked, ProvidersLinked,
     GuardsLinked, KeysLinked, ProductsLinked
<1> QED
  BY <1>1, <1>2, <1>3 DEF DelphiIInv, OneProcess, WaitingIsResolved, ScopeHeld, Busy,
     ProviderWorkSettled, RequestsOf, AliasesAgree, Waiting

(* What a step does to the scopes besides keeping the invariant. *)
DelphiStep ==
  \/ \E p \in Products, k \in Keys, d \in Digests, j \in Jobs, i \in Images :
       pd_admit(p, k, d, j, i)
  \/ \E p \in Products : pd_release_scope(p)
  \/ ScopeStep
  \/ UNCHANGED <<job, attempt, proved, guard, provider>>

(* Every call keeps the invariant, and admits, releases or keeps the scopes. *)
LEMMA DelphiStepKeeps == DelphiIInv /\ [DelphiNext]_delphiVars => DelphiIInv' /\ DelphiStep
<1> SUFFICES ASSUME DelphiIInv, [DelphiNext]_delphiVars PROVE DelphiIInv' /\ DelphiStep
  OBVIOUS
<1>1. ASSUME NEW p \in Products, NEW k \in Keys, NEW d \in Digests,
             NEW j \in Jobs, NEW i \in Images, pd_admit(p, k, d, j, i)
      PROVE  DelphiIInv' /\ DelphiStep
  BY <1>1, AdmitKeeps DEF DelphiStep
<1>2. ASSUME NEW p \in Products, NEW k \in Keys, NEW d \in Digests, pd_alias(p, k, d)
      PROVE  DelphiIInv' /\ DelphiStep
  BY <1>2, AliasKeeps DEF DelphiStep, pd_alias
<1>3. ASSUME NEW p \in Products, NEW k \in Keys, binding_expires(p, k)
      PROVE  DelphiIInv' /\ DelphiStep
  BY <1>3, BindingExpiresKeeps DEF DelphiStep, binding_expires
<1>4. ASSUME NEW p \in Products, pd_release_scope(p)
      PROVE  DelphiIInv' /\ DelphiStep
  BY <1>4, ReleaseKeeps DEF DelphiStep
<1>5. ASSUME NEW j \in Jobs, NEW a \in Attempts, pd_claim(j, a)
      PROVE  DelphiIInv' /\ DelphiStep
  BY <1>5, ClaimKeeps DEF DelphiStep
<1>6. ASSUME NEW a \in Attempts, DelphiWorkerCall(a)
      PROVE  DelphiIInv' /\ DelphiStep
  BY <1>6, HeartbeatKeeps, FinalizeKeeps, EndAttemptKeeps, IntentKeeps, UpdateKeeps
     DEF DelphiWorkerCall, DelphiStep
<1>7. ASSUME NEW j \in Jobs,
             pd_reap_expired(j) \/ pd_reap_parked(j) \/ pd_cancel(j, job[j].mgmt)
      PROVE  DelphiIInv' /\ DelphiStep
  BY <1>7, ReapExpiredKeeps, ReapParkedKeeps, CancelKeeps DEF DelphiStep
<1>8. CASE DelphiTick
  BY <1>8, TickKeeps DEF DelphiStep
<1>9. CASE UNCHANGED delphiVars
  <2>1. UNCHANGED <<request, head, run, job, attempt, proved, guard, image, provider>>
    BY <1>9 DEF delphiVars, vars
  <2>2. DelphiTypeOK'
    BY <2>1 DEF DelphiIInv, DelphiTypeOK, TypeOK
  <2>3. GuardsLinked' /\ KeysLinked' /\ AliasesAgree'
    BY <2>1 DEF DelphiIInv, DelphiLinked, GuardsLinked, KeysLinked, AliasesAgree
  <2>4. ScopeHeld'
    BY <2>1, WorkUntouched DEF DelphiIInv, ScopeHeld
  <2> QED
    BY <2>1, <2>2, <2>3, <2>4, WorkKept DEF DelphiIInv, DelphiLinked, DelphiStep
<1> QED
  BY <1>1, <1>2, <1>3, <1>4, <1>5, <1>6, <1>7, <1>8, <1>9 DEF DelphiNext

(* Whatever the pq_* and pd_* calls of /2 and /3 are made to do, in any      *)
(* order, the strengthening holds in every reachable state.                  *)
THEOREM DelphiInvariantHolds == DelphiSpec => []DelphiIInv
<1>1. DelphiInit => DelphiIInv
  BY DelphiInitInv
<1>2. DelphiIInv /\ [DelphiNext]_delphiVars => DelphiIInv'
  BY DelphiStepKeeps
<1> QED
  BY <1>1, <1>2, PTL DEF DelphiSpec

(* Rows keep their ranges, and every pointer that the SQL functions follow  *)
(* leads to the row it is taken to lead to.                                 *)
THEOREM DelphiRowsWellFormed == DelphiSpec => [](DelphiTypeOK /\ DelphiLinked)
<1>1. DelphiIInv => DelphiTypeOK /\ DelphiLinked
  BY DEF DelphiIInv
<1> QED
  BY <1>1, DelphiInvariantHolds, PTL

(* A job has at most one live process (pq_claim, pq_end_attempt,            *)
(* pq_reap_one): lease expiry, cancels and replays never start a second     *)
(* child beside an unproved one.                                            *)
THEOREM NoSecondProcess == DelphiSpec => []OneProcess
<1>1. DelphiIInv => OneProcess
  BY DEF DelphiIInv
<1> QED
  BY <1>1, DelphiInvariantHolds, PTL

(* A job that waits for a claim has no live process and no submission in    *)
(* doubt (pq_end_attempt, pq_reap_one).                                     *)
THEOREM WaitingNeedsNothing == DelphiSpec => []WaitingIsResolved
<1>1. DelphiIInv => WaitingIsResolved
  BY DEF DelphiIInv
<1> QED
  BY <1>1, DelphiInvariantHolds, PTL

(* A busy job holds its scope (pd_enqueue, pd_release_scope), so two jobs   *)
(* of a scope are never at work together.                                   *)
THEOREM BusyHoldsScope == DelphiSpec => []ScopeHeld
<1>1. DelphiIInv => ScopeHeld
  BY DEF DelphiIInv
<1> QED
  BY <1>1, DelphiInvariantHolds, PTL

(* One open paid request per job (pd_provider_intent), and a success owes   *)
(* nothing (pd_finalize).                                                   *)
THEOREM PaidWorkSettled == DelphiSpec => []ProviderWorkSettled
<1>1. DelphiIInv => ProviderWorkSettled
  BY DEF DelphiIInv
<1> QED
  BY <1>1, DelphiInvariantHolds, PTL

(* Keys bound to one job asked for the same, across releases (pd_enqueue).  *)
THEOREM KeysAgree == DelphiSpec => []AliasesAgree
<1>1. DelphiIInv => AliasesAgree
  BY DEF DelphiIInv
<1> QED
  BY <1>1, DelphiInvariantHolds, PTL

-----------------------------------------------------------------------------
(* Paid work is cleared only under a live lease.                           *)

(* pd_provider_update clears an open request only for the owner. *)
LEMMA StepClearsAsOwner ==
  ASSUME DelphiTypeOK, [DelphiNext]_delphiVars, NEW j \in Jobs, NEW r \in Requests,
         r \in RequestsOf(j), provider[r].state \in Open, provider'[r].state \notin Open
  PROVE  job[j].state = "running" /\ job[j].lease > 0
<1>1. provider'[r] # provider[r]
  OBVIOUS
<1>2. ASSUME NEW a \in Attempts, NEW x \in Requests, pd_provider_intent(a, x)
      PROVE  FALSE
  <2>1. x # r
    BY <1>2 DEF pd_provider_intent, Open, Unresolved
  <2> QED
    BY <1>1, <1>2, <2>1 DEF pd_provider_intent, DelphiTypeOK
<1>3. ASSUME NEW a \in Attempts, NEW x \in Requests,
             NEW s \in {"submission_unknown", "submitted", "completed", "failed"},
             pd_provider_update(a, x, s)
      PROVE  job[j].state = "running" /\ job[j].lease > 0
  <2>1. x = r /\ provider'[r].state = s
    BY <1>1, <1>3 DEF pd_provider_update, DelphiTypeOK, ProviderRow
  <2>2. s \notin {"submission_unknown", "submitted"}
    BY <2>1 DEF Open, Unresolved
  <2>3. pq_owns(a) /\ attempt[a].job = j
    BY <1>3, <2>1, <2>2 DEF pd_provider_update, may_update, RequestsOf
  <2> QED
    BY <2>3 DEF pq_owns
<1>4. CASE provider' = provider
  BY <1>1, <1>4
<1> QED
  BY <1>2, <1>3, <1>4
     DEF DelphiNext, DelphiWorkerCall, DelphiTick, delphiVars, pd_admit, pd_alias,
         binding_expires, pd_release_scope, pd_claim, pd_heartbeat, pd_finalize,
         pd_end_attempt, pd_reap_expired, pd_reap_parked, pd_cancel

(* No fenced or late call clears paid work (pd_provider_update).            *)
THEOREM OnlyOwnersClear == DelphiSpec => PaidWorkClearedByOwner
<1>1. DelphiTypeOK /\ [DelphiNext]_delphiVars =>
        [\A j \in Jobs, r \in Requests :
           r \in RequestsOf(j) /\ provider[r].state \in Open
             /\ provider'[r].state \notin Open
           => job[j].state = "running" /\ job[j].lease > 0]_delphiVars
  BY StepClearsAsOwner
<1> QED
  BY <1>1, DelphiRowsWellFormed, PTL DEF DelphiSpec, PaidWorkClearedByOwner

-----------------------------------------------------------------------------
(* The guards are a scope lock.                                            *)

(* Empty guards are free scopes. *)
LEMMA LockInit == DelphiInit => Scopes!Init
<1> SUFFICES ASSUME DelphiInit PROVE Scopes!Init
  OBVIOUS
<1>1. Activity = [j \in Jobs |-> "absent"]
  BY DEF DelphiInit, Init, Activity
<1>2. Holder = [p \in Products |-> None]
  BY DEF DelphiInit, Holder
<1> QED
  BY <1>1, <1>2 DEF Scopes!Init

(* Every call is a step of the scope lock, or none. *)
LEMMA LockStep == DelphiIInv /\ [DelphiNext]_delphiVars => [Scopes!Next]_(Scopes!lockVars)
<1> SUFFICES ASSUME DelphiIInv, [DelphiNext]_delphiVars
             PROVE  [Scopes!Next]_(Scopes!lockVars)
  OBVIOUS
<1>1. DelphiStep
  BY DelphiStepKeeps
<1>2. ASSUME NEW p \in Products, NEW k \in Keys, NEW d \in Digests,
             NEW j \in Jobs, NEW i \in Images, pd_admit(p, k, d, j, i)
      PROVE  Scopes!Admit(p, j)
  <2>1. /\ job[j].state = "absent" /\ guard[p].job = None
        /\ job' = [job EXCEPT ![j].state = "queued"]
        /\ guard' = [guard EXCEPT ![p] = [job |-> j, digest |-> d]]
        /\ UNCHANGED <<attempt, proved, provider>>
    BY <1>2 DEF pd_admit, pq_enqueue
  <2>2. /\ job'[j].state = "queued"
        /\ \A x \in Jobs \ {j} : job'[x] = job[x]
    BY <2>1 DEF DelphiIInv, DelphiTypeOK, TypeOK, JobRow
  <2>3. Busy(j)' /\ \A x \in Jobs \ {j} : Busy(x)' <=> Busy(x)
    BY <2>1, <2>2, WorkUntouched DEF Busy, Terminal
  <2>4. Activity' = [Activity EXCEPT ![j] = "busy"] /\ Activity[j] = "absent"
    BY <2>1, <2>2, <2>3 DEF Activity
  <2>5. Holder' = [Holder EXCEPT ![p] = j] /\ Holder[p] = None
    BY <2>1 DEF Holder, DelphiIInv, DelphiTypeOK
  <2> QED
    BY <2>4, <2>5 DEF Scopes!Admit
<1>3. ASSUME NEW p \in Products, pd_release_scope(p)
      PROVE  Scopes!Release(p)
  <2>1. /\ guard[p].job # None /\ ~Busy(guard[p].job)
        /\ guard' = [guard EXCEPT ![p] = [job |-> None, digest |-> None]]
        /\ UNCHANGED <<job, attempt, proved, provider>>
    BY <1>3 DEF pd_release_scope, Busy, vars
  <2>2. Holder[p] \in Jobs /\ Activity[Holder[p]] = "quiet"
    <3>1. guard[p].job \in Jobs /\ job[guard[p].job].state # "absent"
      BY <2>1 DEF DelphiIInv, DelphiTypeOK, GuardRow, DelphiLinked, GuardsLinked
    <3> QED
      BY <2>1, <3>1 DEF Holder, Activity
  <2>3. Holder' = [Holder EXCEPT ![p] = None]
    BY <2>1 DEF Holder, DelphiIInv, DelphiTypeOK
  <2>4. Activity' = Activity
    BY <2>1, WorkUntouched DEF Activity
  <2> QED
    BY <2>2, <2>3, <2>4 DEF Scopes!Release
<1>4. CASE ScopeStep
  <2>1. PICK j \in Jobs : \A x \in Jobs :
          /\ job'[x].state = "absent" <=> job[x].state = "absent"
          /\ Busy(x)' => Busy(x)
          /\ Busy(x) => Busy(x)' \/ x = j
    BY <1>4 DEF ScopeStep
  <2>2. Holder' = Holder
    BY <1>4 DEF ScopeStep, Holder
  <2>3. CASE Busy(j) /\ ~Busy(j)'
    <3>1. /\ run[j].product \in Products
          /\ Holder[run[j].product] = j
      BY <2>3 DEF Busy, DelphiIInv, DelphiLinked, ProductsLinked, ScopeHeld, Holder
    <3>2. job[j].state # "absent"
      BY <2>3 DEF Busy
    <3>3. Activity[j] = "busy" /\ Activity' = [Activity EXCEPT ![j] = "quiet"]
      BY <2>1, <2>3, <3>2 DEF Activity
    <3>4. Scopes!Quiesce(run[j].product)
      BY <2>2, <3>1, <3>3 DEF Scopes!Quiesce
    <3> QED
      BY <3>1, <3>4 DEF Scopes!Next
  <2>4. CASE ~(Busy(j) /\ ~Busy(j)')
    <3>1. Activity' = Activity
      BY <2>1, <2>4 DEF Activity
    <3> QED
      BY <2>2, <3>1 DEF Scopes!lockVars
  <2> QED
    BY <2>3, <2>4
<1>5. CASE UNCHANGED <<job, attempt, proved, guard, provider>>
  <2>1. Activity' = Activity
    BY <1>5, WorkUntouched DEF Activity
  <2>2. Holder' = Holder
    BY <1>5 DEF Holder
  <2> QED
    BY <2>1, <2>2 DEF Scopes!lockVars
<1> QED
  BY <1>1, <1>2, <1>3, <1>4, <1>5 DEF DelphiStep, Scopes!Next

(* Callers may reason about the scope lock alone: one holder at a time, from *)
(* admission until the job is quiet for good.                                *)
THEOREM GuardsAreAScopeLock == DelphiSpec => ImplementsScopeLock
<1>1. DelphiInit => Scopes!Init
  BY LockInit
<1>2. DelphiIInv /\ [DelphiNext]_delphiVars => [Scopes!Next]_(Scopes!lockVars)
  BY LockStep
<1> QED
  BY <1>1, <1>2, DelphiInvariantHolds, PTL DEF DelphiSpec, ImplementsScopeLock, Scopes!Spec

-----------------------------------------------------------------------------
(* The history of a scope: its runs are numbered in the order of admission,  *)
(* and only the newest of them can still die.                              *)

\* An enqueued run has one of the generations its head has given out.
Dated ==
  \A j \in Jobs : job[j].state # "absent" =>
    run[j].generation \in 1..head[run[j].product].requested

\* A guard holds the newest run of its scope.
GuardsNewest ==
  \A p \in Products : guard[p].job # None =>
    run[guard[p].job].generation = head[p].requested

\* No run was admitted under an image that the PoisonLimit runs before it died
\* under, and nothing that happened since has changed what those were.
LatchKept ==
  \A j \in Jobs : job[j].state # "absent" =>
    ~ ((run[j].generation - PoisonLimit)..(run[j].generation - 1)
         \subseteq DeadUnder(run[j].product, image[j]))

\* A running job has spent budget on its attempt, an absent one none.
BudgetKept ==
  /\ BudgetLeft
  /\ \A j \in Jobs :
       /\ job[j].state = "running" => job[j].parked < job[j].count
       /\ job[j].state = "absent" => job[j].count = 0 /\ job[j].parked = 0

HistoryIInv == Dated /\ GuardsNewest /\ LatchKept /\ BudgetKept

(* What a call that admits nothing may do to the rows of a job.             *)
CountsStay(j) ==
  /\ job'[j].count = job[j].count /\ job'[j].parked = job[j].parked
  /\ job'[j].state \in Waiting => job[j].state \in Waiting \/ Spent(j) < MaxAttempts
  /\ job'[j].state = "running" => job[j].state = "running"

CountsClaim(j) ==
  /\ job'[j].count = job[j].count + 1 /\ job'[j].parked = job[j].parked
  /\ Spent(j) < MaxAttempts /\ job'[j].state = "running"

CountsRefund(j) ==
  /\ job'[j].count = job[j].count /\ job'[j].parked = job[j].parked + 1
  /\ job[j].state = "running" /\ job'[j].state = "parked"

Ages(j) ==
  /\ job'[j].state = "absent" <=> job[j].state = "absent"
  /\ job'[j].state = "dead" =>
       job[j].state = "dead" \/ job[j].state \notin Terminal \cup {"absent"}
  /\ CountsStay(j) \/ CountsClaim(j) \/ CountsRefund(j)

RunsStay ==
  \A j \in Jobs : /\ run'[j].product = run[j].product
                  /\ run'[j].generation = run[j].generation

ScopesStay ==
  /\ image' = image
  /\ \A p \in Products : /\ head'[p].requested = head[p].requested
                         /\ guard'[p].job \in {guard[p].job, None}

Ageing == RunsStay /\ ScopesStay /\ \A j \in Jobs : Ages(j)

\* DeadUnder after the step.
DeadNext(p, i) ==
  {g \in 1..head'[p].requested : \E j \in Jobs :
     /\ run'[j].product = p /\ run'[j].generation = g
     /\ job'[j].state = "dead" /\ image'[j] = i}

(* A job that is not settled holds its scope, so its run is the newest.     *)
LEMMA LiveIsNewest ==
  ASSUME DelphiIInv, GuardsNewest, NEW j \in Jobs,
         job[j].state \notin Terminal \cup {"absent"}
  PROVE  /\ run[j].product \in Products
         /\ run[j].generation = head[run[j].product].requested
<1>1. Busy(j)
  BY DEF Busy
<1>2. run[j].product \in Products /\ guard[run[j].product].job = j
  BY <1>1 DEF DelphiIInv, ScopeHeld, DelphiLinked, ProductsLinked
<1> QED
  BY <1>2, ConstantsAssumption DEF GuardsNewest

LEMMA BudgetAges ==
  ASSUME DelphiIInv, BudgetKept, NEW j \in Jobs, Ages(j)
  PROVE  /\ job'[j].parked <= job'[j].count
         /\ job'[j].count - job'[j].parked <= MaxAttempts
         /\ job'[j].state \in Waiting => job'[j].count - job'[j].parked < MaxAttempts
         /\ job'[j].state = "running" => job'[j].parked < job'[j].count
         /\ job'[j].state = "absent" => job'[j].count = 0 /\ job'[j].parked = 0
<1> DEFINE c == job[j].count
           k == job[j].parked
<1>1. c \in Nat /\ k \in Nat /\ MaxAttempts \in Nat
  BY ConstantsAssumption DEF DelphiIInv, DelphiTypeOK, TypeOK, JobRow
<1>2. /\ k <= c /\ c - k <= MaxAttempts
      /\ job[j].state \in Waiting => c - k < MaxAttempts
      /\ job[j].state = "running" => k < c
      /\ job[j].state = "absent" => c = 0 /\ k = 0
  BY DEF BudgetKept, BudgetLeft, Spent
<1> HIDE DEF c, k
<1>3. CASE CountsStay(j)
  <2>1. /\ job'[j].count = c /\ job'[j].parked = k
        /\ job'[j].state \in Waiting => job[j].state \in Waiting \/ c - k < MaxAttempts
        /\ job'[j].state = "running" => job[j].state = "running"
    BY <1>3 DEF CountsStay, Spent, c, k
  <2>2. job'[j].state = "absent" => job[j].state = "absent"
    BY DEF Ages
  <2> QED
    BY <1>1, <1>2, <2>1, <2>2
<1>4. CASE CountsClaim(j)
  <2>1. /\ job'[j].count = c + 1 /\ job'[j].parked = k
        /\ c - k < MaxAttempts /\ job'[j].state = "running"
    BY <1>4 DEF CountsClaim, Spent, c, k
  <2> QED
    BY <1>1, <1>2, <2>1 DEF Waiting
<1>5. CASE CountsRefund(j)
  <2>1. /\ job'[j].count = c /\ job'[j].parked = k + 1
        /\ job[j].state = "running" /\ job'[j].state = "parked"
    BY <1>5 DEF CountsRefund, c, k
  <2> QED
    BY <1>1, <1>2, <2>1 DEF Waiting
<1> QED
  BY <1>3, <1>4, <1>5 DEF Ages

(* Only the newest run of a scope dies, so the dead before it were dead.     *)
LEMMA AgeingKeeps ==
  ASSUME DelphiIInv, HistoryIInv, Ageing
  PROVE  HistoryIInv'
<1>1. Dated'
  BY DEF DelphiIInv, DelphiLinked, ProductsLinked, HistoryIInv, Dated,
         Ageing, RunsStay, ScopesStay, Ages
<1>2. GuardsNewest'
  <2>1. ASSUME NEW p \in Products, guard'[p].job # None
        PROVE  run'[guard'[p].job].generation = head'[p].requested
    <3>1. guard'[p].job = guard[p].job /\ guard[p].job # None
      BY <2>1 DEF Ageing, ScopesStay
    <3>2. guard[p].job \in Jobs
      BY <3>1 DEF DelphiIInv, DelphiTypeOK, GuardRow
    <3>3. run'[guard[p].job].generation = run[guard[p].job].generation
      BY <3>2 DEF Ageing, RunsStay
    <3> QED
      BY <3>1, <3>3 DEF Ageing, ScopesStay, HistoryIInv, GuardsNewest
  <2> QED
    BY <2>1 DEF GuardsNewest
<1>3. LatchKept'
  <2>1. ASSUME NEW j \in Jobs, job'[j].state # "absent",
               (run'[j].generation - PoisonLimit)..(run'[j].generation - 1)
                 \subseteq DeadNext(run'[j].product, image'[j])
        PROVE  FALSE
    <3> DEFINE p == run[j].product
               g == run[j].generation
               i == image[j]
               n == head[p].requested
    <3>1. job[j].state # "absent" /\ run'[j].product = p /\ run'[j].generation = g
      BY <2>1 DEF Ageing, Ages, RunsStay
    <3>2. p \in Products /\ g \in 1..n /\ n \in Nat
      BY <3>1 DEF DelphiIInv, DelphiLinked, ProductsLinked, HistoryIInv, Dated,
         DelphiTypeOK, TypeOK, HeadRow
    <3>3. ~ ((g - PoisonLimit)..(g - 1) \subseteq DeadUnder(p, i))
      BY <3>1 DEF HistoryIInv, LatchKept
    <3>4. PICK h \in (g - PoisonLimit)..(g - 1) : h \notin DeadUnder(p, i)
      BY <3>3
    <3>5. h \in DeadNext(p, i)
      BY <2>1, <3>1, <3>4 DEF Ageing, ScopesStay
    <3>6. /\ h \in 1..head'[p].requested
          /\ \E x \in Jobs : /\ run'[x].product = p /\ run'[x].generation = h
                             /\ job'[x].state = "dead" /\ image'[x] = i
      BY <3>1, <3>5 DEF DeadNext, Ageing, ScopesStay
    <3>7. PICK x \in Jobs : /\ run[x].product = p /\ run[x].generation = h
                            /\ job'[x].state = "dead" /\ image[x] = i
      BY <3>6 DEF Ageing, RunsStay, ScopesStay
    <3>8. h \in 1..n
      BY <3>2, <3>6 DEF Ageing, ScopesStay
    <3>9. CASE job[x].state = "dead"
      BY <3>4, <3>7, <3>8, <3>9 DEF DeadUnder
    <3>10. CASE job[x].state \notin Terminal \cup {"absent"}
      <4>1. h = n
        BY <3>7, <3>10, LiveIsNewest DEF HistoryIInv
      <4>2. PoisonLimit \in Nat
        BY DelphiAssumption
      <4> HIDE DEF n, g, p, i
      <4> QED
        BY <3>2, <3>4, <4>1, <4>2
    <3> QED
      BY <3>7, <3>9, <3>10 DEF Ageing, Ages
  <2> QED
    BY <2>1 DEF LatchKept, DeadUnder, DeadNext
<1>4. BudgetKept'
  <2>1. \A j \in Jobs : Ages(j)
    BY DEF Ageing
  <2> QED
    BY <2>1, BudgetAges DEF HistoryIInv, BudgetKept, BudgetLeft, Spent
<1> QED
  BY <1>1, <1>2, <1>3, <1>4 DEF HistoryIInv

(* The latch is asked when the run is admitted, and every run before it has  *)
(* settled by then.                                                        *)
LEMMA AdmitKeepsHistory ==
  ASSUME DelphiIInv, HistoryIInv, NEW p \in Products, NEW k \in Keys, NEW d \in Digests,
         NEW j \in Jobs, NEW i \in Images, pd_admit(p, k, d, j, i)
  PROVE  HistoryIInv'
<1> DEFINE n == head[p].requested
<1>1. /\ guard[p].job = None /\ ~poisoned(p, i) /\ job[j].state = "absent"
      /\ head' = [head EXCEPT ![p].requested = n + 1, ![p].desired = j]
      /\ run' = [run EXCEPT
           ![j] = [product |-> p, generation |-> n + 1, state |-> "pending"]]
      /\ job' = [job EXCEPT ![j].state = "queued"]
      /\ guard' = [guard EXCEPT ![p] = [job |-> j, digest |-> d]]
      /\ image' = [image EXCEPT ![j] = i]
  BY DEF pd_admit, pq_enqueue
<1>2. /\ head \in [Products -> HeadRow] /\ run \in [Jobs -> RunRow]
      /\ job \in [Jobs -> JobRow] /\ guard \in [Products -> GuardRow]
      /\ image \in [Jobs -> Images \cup {None}] /\ n \in Nat
      /\ PoisonLimit \in Nat /\ MaxAttempts \in Nat \ {0}
  BY ConstantsAssumption, DelphiAssumption
     DEF DelphiIInv, DelphiTypeOK, TypeOK, HeadRow
<1>3. /\ run'[j].product = p /\ run'[j].generation = n + 1 /\ image'[j] = i
      /\ job'[j].state = "queued"
      /\ job'[j].count = job[j].count /\ job'[j].parked = job[j].parked
      /\ guard'[p].job = j /\ head'[p].requested = n + 1
  <2> HIDE DEF n
  <2> QED
    BY <1>1, <1>2 DEF JobRow, HeadRow
<1>4. \A x \in Jobs \ {j} : run'[x] = run[x] /\ image'[x] = image[x] /\ job'[x] = job[x]
  BY <1>1, <1>2
<1>5. \A q \in Products \ {p} : guard'[q] = guard[q] /\ head'[q] = head[q]
  BY <1>1, <1>2
<1>6. ASSUME NEW x \in Jobs \ {j}, job'[x].state # "absent"
      PROVE  /\ run[x].product \in Products
             /\ run[x].generation \in 1..head[run[x].product].requested
             /\ head[run[x].product].requested \in Nat
             /\ head[run[x].product].requested <= head'[run[x].product].requested
  <2>1. /\ run[x].product \in Products
        /\ run[x].generation \in 1..head[run[x].product].requested
    BY <1>4, <1>6 DEF DelphiIInv, DelphiLinked, ProductsLinked, HistoryIInv, Dated
  <2>2. head[run[x].product].requested \in Nat
    BY <1>2, <2>1 DEF HeadRow
  <2>3. head[run[x].product].requested <= head'[run[x].product].requested
    <3>1. CASE run[x].product = p
      BY <1>2, <1>3, <3>1
    <3>2. CASE run[x].product # p
      BY <1>5, <2>1, <2>2, <3>2
    <3> QED
      BY <3>1, <3>2
  <2> QED
    BY <2>1, <2>2, <2>3
<1> HIDE DEF n
<1>7. Dated'
  <2>1. ASSUME NEW x \in Jobs, job'[x].state # "absent"
        PROVE  run'[x].generation \in 1..head'[run'[x].product].requested
    <3>1. CASE x = j
      BY <1>2, <1>3, <3>1
    <3>2. CASE x # j
      <4>1. run'[x] = run[x]
        BY <1>4, <3>2
      <4> DEFINE m == head[run[x].product].requested
                 m2 == head'[run[x].product].requested
                 g == run[x].generation
      <4>2. g \in 1..m /\ m \in Nat /\ m <= m2
        BY <1>6, <2>1, <3>2
      <4>3. m2 \in Int
        BY <1>2, <1>3, <1>5, <1>6, <2>1, <3>2 DEF HeadRow
      <4> HIDE DEF m, m2, g
      <4>4. g \in 1..m2
        BY <4>2, <4>3
      <4> QED
        BY <4>1, <4>4 DEF m2, g
    <3> QED
      BY <3>1, <3>2
  <2> QED
    BY <2>1 DEF Dated
<1>8. GuardsNewest'
  <2>1. ASSUME NEW q \in Products, guard'[q].job # None
        PROVE  run'[guard'[q].job].generation = head'[q].requested
    <3>1. CASE q = p
      BY <1>3, <3>1
    <3>2. CASE q # p
      <4>1. guard'[q] = guard[q] /\ head'[q] = head[q]
        BY <1>5, <3>2
      <4>2. guard[q].job \in Jobs /\ job[guard[q].job].state # "absent"
        BY <1>2, <2>1, <4>1 DEF GuardRow, DelphiIInv, DelphiLinked, GuardsLinked
      <4>3. guard[q].job # j
        BY <1>1, <4>2
      <4>4. run'[guard[q].job] = run[guard[q].job]
        BY <1>4, <4>2, <4>3
      <4> QED
        BY <2>1, <4>1, <4>4 DEF HistoryIInv, GuardsNewest
    <3> QED
      BY <3>1, <3>2
  <2> QED
    BY <2>1 DEF GuardsNewest
<1>9. ASSUME NEW q \in Products, NEW c, NEW h \in DeadNext(q, c),
             h <= head[q].requested
      PROVE  h \in DeadUnder(q, c)
  <2>1. PICK x \in Jobs : /\ run'[x].product = q /\ run'[x].generation = h
                          /\ job'[x].state = "dead" /\ image'[x] = c
    BY DEF DeadNext
  <2>2. x # j
    BY <1>3, <2>1
  <2>3. /\ run[x].product = q /\ run[x].generation = h
        /\ job[x].state = "dead" /\ image[x] = c
    BY <1>4, <2>1, <2>2
  <2>4. h \in 1..head[q].requested
    BY <1>2, <1>9 DEF DeadNext, HeadRow
  <2> QED
    BY <2>3, <2>4 DEF DeadUnder
<1>10. LatchKept'
  <2>1. ASSUME NEW x \in Jobs, job'[x].state # "absent",
               (run'[x].generation - PoisonLimit)..(run'[x].generation - 1)
                 \subseteq DeadNext(run'[x].product, image'[x])
        PROVE  FALSE
    <3>1. CASE x = j
      <4>1. run'[x].product = p /\ run'[x].generation = n + 1 /\ image'[x] = i
        BY <1>3, <3>1
      <4>2. ASSUME NEW h \in (n - PoisonLimit + 1)..n
            PROVE  h \in DeadUnder(p, i)
        <5>1. h \in (n + 1 - PoisonLimit)..(n + 1 - 1) /\ h <= n
          BY <1>2
        <5>2. h \in DeadNext(run'[x].product, image'[x])
          BY <1>2, <2>1, <4>1, <5>1
        <5>3. h \in DeadNext(p, i)
          BY <4>1, <5>2 DEF DeadNext
        <5> QED
          BY <1>9, <5>1, <5>3 DEF n
      <4> QED
        BY <1>1, <4>2 DEF poisoned, n
    <3>2. CASE x # j
      <4> DEFINE g == run[x].generation
                 q == run[x].product
                 m == head[q].requested
      <4>1. run'[x] = run[x] /\ image'[x] = image[x] /\ job[x].state # "absent"
        BY <1>4, <2>1, <3>2
      <4>2. q \in Products /\ g \in 1..m /\ m \in Nat
        BY <1>6, <2>1, <3>2
      <4>3. (g - PoisonLimit)..(g - 1) \subseteq DeadNext(q, image[x])
        BY <2>1, <4>1
      <4>4. ASSUME NEW h \in (g - PoisonLimit)..(g - 1)
            PROVE  h \in DeadUnder(q, image[x])
        <5> HIDE DEF g, q
        <5>1. h <= m
          <6> HIDE DEF m
          <6> QED
            BY <1>2, <4>2
        <5> QED
          BY <1>9, <4>2, <4>3, <5>1
      <4> QED
        BY <4>1, <4>4 DEF HistoryIInv, LatchKept
    <3> QED
      BY <3>1, <3>2
  <2> QED
    BY <2>1 DEF LatchKept, DeadUnder, DeadNext
<1>11. BudgetKept'
  <2>1. ASSUME NEW x \in Jobs
        PROVE  /\ job'[x].parked <= job'[x].count
               /\ job'[x].count - job'[x].parked <= MaxAttempts
               /\ job'[x].state \in Waiting => job'[x].count - job'[x].parked < MaxAttempts
               /\ job'[x].state = "running" => job'[x].parked < job'[x].count
               /\ job'[x].state = "absent" => job'[x].count = 0 /\ job'[x].parked = 0
    <3>1. CASE x = j
      <4>1. job'[x].count = 0 /\ job'[x].parked = 0 /\ job'[x].state = "queued"
        BY <1>1, <1>3, <3>1 DEF HistoryIInv, BudgetKept
      <4> QED
        BY <1>2, <4>1
    <3>2. CASE x # j
      BY <1>4, <3>2 DEF HistoryIInv, BudgetKept, BudgetLeft, Spent
    <3> QED
      BY <3>1, <3>2
  <2> QED
    BY <2>1 DEF BudgetKept, BudgetLeft, Spent
<1> QED
  BY <1>7, <1>8, <1>10, <1>11 DEF HistoryIInv

(* A call that moves one job, or none, ages the others. *)
LEMMA OneAges ==
  ASSUME NEW j \in Jobs, Ages(j), \A x \in Jobs \ {j} : job'[x] = job[x]
  PROVE  \A x \in Jobs : Ages(x)
<1>1. \A x \in Jobs \ {j} : Ages(x)
  BY DEF Ages, CountsStay
<1> QED
  BY <1>1

LEMMA SettledRunsStay ==
  ASSUME TypeOK, NEW j \in Jobs, NEW s, run' = run \/ run' = [run EXCEPT ![j].state = s]
  PROVE  RunsStay
BY DEF TypeOK, RunRow, RunsStay

(* Calls that leave the states and the counts of all jobs. *)
LEMMA StandingAges ==
  ASSUME UNCHANGED <<head, run, image>>,
         \A p \in Products : guard'[p].job \in {guard[p].job, None},
         \A j \in Jobs : /\ job'[j].state = job[j].state /\ job'[j].count = job[j].count
                         /\ job'[j].parked = job[j].parked
  PROVE  Ageing
BY DEF Ageing, RunsStay, ScopesStay, Ages, CountsStay

LEMMA ClaimAges ==
  ASSUME DelphiIInv, NEW j \in Jobs, NEW a \in Attempts, pd_claim(j, a)
  PROVE  Ageing
<1>1. /\ job[j].state \in Waiting /\ Spent(j) < MaxAttempts
      /\ job' = [job EXCEPT ![j].state = "running", ![j].attempt = a,
           ![j].lease = LeaseTicks, ![j].epoch = claim_epoch(j),
           ![j].mgmt = @ + 1, ![j].count = @ + 1]
      /\ UNCHANGED <<head, run, guard, image>>
  BY DEF pd_claim, pq_claim, claimable
<1>2. /\ job'[j].state = "running" /\ job'[j].count = job[j].count + 1
      /\ job'[j].parked = job[j].parked
      /\ \A x \in Jobs \ {j} : job'[x] = job[x]
  BY <1>1 DEF DelphiIInv, DelphiTypeOK, TypeOK, JobRow
<1>3. Ages(j)
  BY <1>1, <1>2 DEF Ages, CountsClaim, Waiting
<1>4. \A x \in Jobs : Ages(x)
  BY <1>2, <1>3, OneAges
<1> QED
  BY <1>1, <1>4 DEF Ageing, RunsStay, ScopesStay

(* An attempt that ends costs its budget, unless a park was asked for.      *)
LEMMA EndingAges ==
  ASSUME DelphiIInv, NEW a \in Attempts, NEW j \in Jobs, attempt[a].job = j,
         job[j].state = "running",
         NEW s \in {"retry_wait", "parked", "dead"}, NEW o, NEW waits, NEW refunded \in BOOLEAN,
         s = "retry_wait" => Spent(j) < MaxAttempts, refunded => s = "parked",
         terminate(a, s, o, waits, refunded), UNCHANGED <<guard, image>>
  PROVE  Ageing
<1>1. PICK w \in waits :
        job' = [job EXCEPT ![j].state = s, ![j].terminal = a,
          ![j].attempt = None, ![j].lease = 0, ![j].epoch = @ + 1,
          ![j].mgmt = @ + 1, ![j].wait = w,
          ![j].parked = IF refunded THEN @ + 1 ELSE @]
  BY DEF terminate
<1>2. /\ job'[j].state = s /\ job'[j].count = job[j].count
      /\ job'[j].parked = IF refunded THEN job[j].parked + 1 ELSE job[j].parked
      /\ \A x \in Jobs \ {j} : job'[x] = job[x]
  BY <1>1 DEF DelphiIInv, DelphiTypeOK, TypeOK, JobRow
<1>3. Ages(j)
  <2>1. CASE refunded
    BY <1>2, <2>1 DEF Ages, CountsRefund, Terminal
  <2>2. CASE ~refunded
    BY <1>2, <2>2 DEF Ages, CountsStay, Terminal, Waiting
  <2> QED
    BY <2>1, <2>2
<1>4. \A x \in Jobs : Ages(x)
  BY <1>2, <1>3, OneAges
<1>5. run' = run \/ run' = [run EXCEPT ![j].state = "dead"]
  BY DEF terminate, run_after
<1>6. RunsStay
  BY <1>5, SettledRunsStay DEF DelphiIInv, DelphiTypeOK
<1> QED
  BY <1>4, <1>6 DEF Ageing, ScopesStay, terminate

LEMMA EndAttemptAges ==
  ASSUME DelphiIInv, NEW a \in Attempts,
         NEW action \in {"confirm_exit", "retry", "permanent", "release", "park"},
         pd_end_attempt(a, action)
  PROVE  Ageing
<1>1. CASE UNCHANGED vars
  BY <1>1, StandingAges DEF pd_end_attempt, vars
<1>2. CASE ~UNCHANGED vars
  <2> DEFINE s == end_state(a, action)
             waits == CASE action = "park" -> 0..WaitTicks
                        [] action = "release" \/ s = "dead" -> {0}
                        [] OTHER -> 1..WaitTicks
             j == attempt[a].job
  <2>1. /\ Claimed(a) /\ pq_owns(a)
        /\ terminate(a, s, s, waits, action = "park")
        /\ UNCHANGED <<guard, image>>
    BY <1>2 DEF pd_end_attempt
  <2>2. j \in Jobs
    BY <2>1 DEF DelphiIInv, DelphiLinked, AttemptsLinked
  <2>3. job[j].state = "running"
    BY <2>1 DEF pq_owns
  <2>4. Spent(j) \in Int /\ MaxAttempts \in Nat
    BY <2>2, ConstantsAssumption DEF Spent, DelphiIInv, DelphiTypeOK, TypeOK, JobRow
  <2>5. /\ s \in {"retry_wait", "parked", "dead"}
        /\ action = "park" => s = "parked"
        /\ s = "retry_wait" => ~(Spent(j) >= MaxAttempts)
    BY DEF end_state, ended
  <2>6. s = "retry_wait" => Spent(j) < MaxAttempts
    <3> HIDE DEF s
    <3> QED
      BY <2>4, <2>5
  <2>7. (action = "park") \in BOOLEAN
    OBVIOUS
  <2> HIDE DEF s, waits, j
  <2>8. attempt[a].job = j
    BY DEF j
  <2> QED
    BY <2>1, <2>2, <2>3, <2>5, <2>6, <2>7, <2>8, EndingAges
<1> QED
  BY <1>1, <1>2

LEMMA ReapExpiredAges ==
  ASSUME DelphiIInv, NEW j \in Jobs, pd_reap_expired(j)
  PROVE  Ageing
<1>1. job[j].state = "running" /\ job[j].attempt \in Attempts /\ attempt[job[j].attempt].job = j
  BY DEF pd_reap_expired, DelphiIInv, DelphiLinked, RunningLinked, AttemptsOf
<1> QED
  BY <1>1, EndingAges DEF pd_reap_expired

LEMMA FinalizeAges ==
  ASSUME DelphiIInv, NEW a \in Attempts, pd_finalize(a)
  PROVE  Ageing
<1> DEFINE j == attempt[a].job
<1>1. /\ Claimed(a) /\ pq_owns(a) /\ UNCHANGED <<head, guard, image>>
      /\ job' = [job EXCEPT ![j].state = "succeeded", ![j].terminal = a,
           ![j].attempt = None, ![j].lease = 0, ![j].mgmt = @ + 1]
      /\ run' = [run EXCEPT ![j].state = "succeeded"]
  BY DEF pd_finalize, succeed
<1>2. j \in Jobs /\ job[j].state = "running"
  BY <1>1 DEF DelphiIInv, DelphiLinked, AttemptsLinked, pq_owns
<1> HIDE DEF j
<1>3. /\ job'[j].state = "succeeded" /\ job'[j].count = job[j].count
      /\ job'[j].parked = job[j].parked
      /\ \A x \in Jobs \ {j} : job'[x] = job[x]
  BY <1>1, <1>2 DEF DelphiIInv, DelphiTypeOK, TypeOK, JobRow
<1>4. Ages(j)
  BY <1>2, <1>3 DEF Ages, CountsStay, Waiting
<1>5. \A x \in Jobs : Ages(x)
  BY <1>2, <1>3, <1>4, OneAges
<1>6. RunsStay
  BY <1>1, <1>2, SettledRunsStay DEF DelphiIInv, DelphiTypeOK
<1> QED
  BY <1>1, <1>5, <1>6 DEF Ageing, ScopesStay

LEMMA ReapParkedAges ==
  ASSUME DelphiIInv, NEW j \in Jobs, pd_reap_parked(j)
  PROVE  Ageing
<1>1. PICK s \in {"dead", "queued"} :
        /\ s = IF Spent(j) >= MaxAttempts THEN "dead" ELSE "queued"
        /\ job' = [job EXCEPT ![j].state = s, ![j].mgmt = @ + 1]
        /\ run' = run_after(j, s)
  BY DEF pd_reap_parked, reap_parked
<1>2. job[j].state = "parked" /\ UNCHANGED <<head, guard, image>>
  BY DEF pd_reap_parked, reap_parked
<1>3. /\ job'[j].state = s /\ job'[j].count = job[j].count
      /\ job'[j].parked = job[j].parked
      /\ \A x \in Jobs \ {j} : job'[x] = job[x]
  BY <1>1 DEF DelphiIInv, DelphiTypeOK, TypeOK, JobRow
<1>4. Spent(j) \in Int /\ MaxAttempts \in Nat
  BY ConstantsAssumption DEF Spent, DelphiIInv, DelphiTypeOK, TypeOK, JobRow
<1>5. s = "queued" => Spent(j) < MaxAttempts
  BY <1>1, <1>4
<1>6. Ages(j)
  BY <1>2, <1>3, <1>5 DEF Ages, CountsStay, Waiting, Terminal
<1>7. \A x \in Jobs : Ages(x)
  BY <1>3, <1>6, OneAges
<1>8. run' = run \/ run' = [run EXCEPT ![j].state = "dead"]
  BY <1>1 DEF run_after
<1>9. RunsStay
  BY <1>8, SettledRunsStay DEF DelphiIInv, DelphiTypeOK
<1> QED
  BY <1>2, <1>7, <1>9 DEF Ageing, ScopesStay

LEMMA CancelAges ==
  ASSUME DelphiIInv, NEW j \in Jobs, pd_cancel(j, job[j].mgmt)
  PROVE  Ageing
<1>1. /\ job[j].state \notin Terminal \cup {"absent"}
      /\ job' = [job EXCEPT ![j].state = "cancelled",
           ![j].terminal = IF job[j].attempt = None THEN @ ELSE job[j].attempt,
           ![j].attempt = None, ![j].lease = 0, ![j].wait = 0,
           ![j].epoch = @ + 1, ![j].mgmt = @ + 1]
      /\ run' = [run EXCEPT ![j].state = "cancelled"]
      /\ UNCHANGED <<head, guard, image>>
  BY DEF pd_cancel, pq_cancel, cancel_admits
<1>2. /\ job'[j].state = "cancelled" /\ job'[j].count = job[j].count
      /\ job'[j].parked = job[j].parked
      /\ \A x \in Jobs \ {j} : job'[x] = job[x]
  BY <1>1 DEF DelphiIInv, DelphiTypeOK, TypeOK, JobRow
<1>3. Ages(j)
  BY <1>1, <1>2 DEF Ages, CountsStay, Waiting
<1>4. \A x \in Jobs : Ages(x)
  BY <1>2, <1>3, OneAges
<1>5. RunsStay
  BY <1>1, SettledRunsStay DEF DelphiIInv, DelphiTypeOK
<1> QED
  BY <1>1, <1>4, <1>5 DEF Ageing, ScopesStay

LEMMA HeartbeatAges ==
  ASSUME DelphiIInv, NEW a \in Attempts, pd_heartbeat(a)
  PROVE  Ageing
<1> DEFINE j == attempt[a].job
<1>1. job' = [job EXCEPT ![j].lease = LeaseTicks] /\ UNCHANGED <<head, run, guard, image>>
  BY DEF pd_heartbeat, pq_heartbeat
<1> HIDE DEF j
<1>2. \A x \in Jobs : /\ job'[x].state = job[x].state /\ job'[x].count = job[x].count
                      /\ job'[x].parked = job[x].parked
  BY <1>1 DEF DelphiIInv, DelphiTypeOK, TypeOK, JobRow
<1> QED
  BY <1>1, <1>2, StandingAges

LEMMA TickAges ==
  ASSUME DelphiIInv, DelphiTick
  PROVE  Ageing
<1>1. ASSUME NEW x \in Jobs
      PROVE  /\ job'[x].state = job[x].state /\ job'[x].count = job[x].count
             /\ job'[x].parked = job[x].parked
  <2>1. /\ job[x] \in JobRow
        /\ job'[x] = [job[x] EXCEPT !.lease = IF @ > 0 THEN @ - 1 ELSE 0,
                                    !.wait = IF @ > 0 THEN @ - 1 ELSE 0]
    BY DEF DelphiTick, Tick, DelphiIInv, DelphiTypeOK, TypeOK
  <2> QED
    BY <2>1 DEF JobRow
<1> QED
  BY <1>1, StandingAges DEF DelphiTick, Tick

LEMMA ReleaseAges ==
  ASSUME DelphiIInv, NEW p \in Products, pd_release_scope(p)
  PROVE  Ageing
<1>1. /\ guard' = [guard EXCEPT ![p] = [job |-> None, digest |-> None]]
      /\ UNCHANGED <<job, head, run, image>>
  BY DEF pd_release_scope, vars
<1>2. \A q \in Products : guard'[q].job \in {guard[q].job, None}
  BY <1>1 DEF DelphiIInv, DelphiTypeOK
<1> QED
  BY <1>1, <1>2, StandingAges

(* Admission asks the latch; every other call only ages the runs. *)
LEMMA DelphiStepKeepsHistory ==
  DelphiIInv /\ HistoryIInv /\ [DelphiNext]_delphiVars => HistoryIInv'
<1> SUFFICES ASSUME DelphiIInv, HistoryIInv, [DelphiNext]_delphiVars
             PROVE  HistoryIInv'
  OBVIOUS
<1>1. ASSUME UNCHANGED <<job, head, run, image, guard>> PROVE HistoryIInv'
  BY <1>1, StandingAges, AgeingKeeps
<1>2. ASSUME NEW p \in Products, NEW k \in Keys, NEW d \in Digests,
             NEW j \in Jobs, NEW i \in Images, pd_admit(p, k, d, j, i)
      PROVE  HistoryIInv'
  BY <1>2, AdmitKeepsHistory
<1>3. ASSUME NEW p \in Products, NEW k \in Keys, NEW d \in Digests,
             pd_alias(p, k, d)
      PROVE  HistoryIInv'
  BY <1>1, <1>3 DEF pd_alias
<1>4. ASSUME NEW p \in Products, NEW k \in Keys, binding_expires(p, k)
      PROVE  HistoryIInv'
  BY <1>1, <1>4 DEF binding_expires
<1>5. ASSUME NEW a \in Attempts, DelphiWorkerCall(a)
      PROVE  HistoryIInv'
  <2>1. ASSUME NEW r \in Requests,
               pd_provider_intent(a, r) \/ \E s \in {"submission_unknown", "submitted",
                                             "completed", "failed"} : pd_provider_update(a, r, s)
        PROVE  HistoryIInv'
    BY <1>1, <2>1 DEF pd_provider_intent, pd_provider_update, vars
  <2> QED
    BY <1>5, <2>1, HeartbeatAges, FinalizeAges, EndAttemptAges, AgeingKeeps
       DEF DelphiWorkerCall
<1>6. CASE UNCHANGED delphiVars
  BY <1>1, <1>6 DEF delphiVars, vars
<1> QED
  BY <1>2, <1>3, <1>4, <1>5, <1>6, ReleaseAges, ClaimAges, ReapExpiredAges, ReapParkedAges,
     CancelAges, TickAges, AgeingKeeps DEF DelphiNext

LEMMA HistoryInit == DelphiInit => HistoryIInv
<1> SUFFICES ASSUME DelphiInit PROVE HistoryIInv
  OBVIOUS
<1>1. /\ \A j \in Jobs : job[j].state = "absent" /\ job[j].count = 0 /\ job[j].parked = 0
      /\ \A p \in Products : guard[p].job = None
  BY DEF DelphiInit, Init
<1>2. BudgetKept
  BY <1>1, ConstantsAssumption DEF BudgetKept, BudgetLeft, Spent, Waiting
<1> QED
  BY <1>1, <1>2 DEF HistoryIInv, Dated, GuardsNewest, LatchKept

(* In every reachable state the runs of a scope are numbered as they were    *)
(* admitted, only the newest can still die, and none was admitted against the *)
(* latch (pd_enqueue, pd_release_scope and every call that settles a job).   *)
THEOREM HistoryHolds == DelphiSpec => []HistoryIInv
<1>1. DelphiIInv /\ HistoryIInv /\ [DelphiNext]_delphiVars => HistoryIInv'
  BY DelphiStepKeepsHistory
<1> QED
  BY <1>1, HistoryInit, DelphiInvariantHolds, PTL DEF DelphiSpec

(* No scope ever has more than PoisonLimit dead runs in a row under one image:  *)
(* the last of them would have been refused (pd_enqueue's poison latch).      *)
THEOREM PoisonNeverSpreads == DelphiSpec => []PoisonBounds
<1>1. DelphiIInv /\ HistoryIInv => PoisonBounds
  <2> SUFFICES ASSUME DelphiIInv, HistoryIInv, NEW p \in Products, NEW i \in Images,
                      NEW g \in DeadUnder(p, i),
                      g..(g + PoisonLimit) \subseteq DeadUnder(p, i)
               PROVE  FALSE
    BY DEF PoisonBounds
  <2>1. PoisonLimit \in Nat /\ g \in Int
    BY DelphiAssumption DEF DeadUnder, DelphiIInv, DelphiTypeOK, TypeOK, HeadRow
  <2>2. g + PoisonLimit \in DeadUnder(p, i)
    BY <2>1
  <2>3. PICK j \in Jobs : /\ run[j].product = p /\ run[j].generation = g + PoisonLimit
                          /\ job[j].state = "dead" /\ image[j] = i
    BY <2>2 DEF DeadUnder
  <2>4. ~ ((run[j].generation - PoisonLimit)..(run[j].generation - 1)
             \subseteq DeadUnder(run[j].product, image[j]))
    BY <2>3 DEF HistoryIInv, LatchKept
  <2>5. run[j].generation - PoisonLimit = g /\ run[j].generation - 1 = g + PoisonLimit - 1
    BY <2>1, <2>3
  <2>6. ~ (g..(g + PoisonLimit - 1) \subseteq DeadUnder(p, i))
    BY <2>3, <2>4, <2>5
  <2> QED
    BY <2>1, <2>6
<1> QED
  BY <1>1, HistoryHolds, DelphiInvariantHolds, PTL

(* No job of /2 or /3 waits for a claim that its budget forbids (pq_claim,     *)
(* pq_end_attempt and pq_reap_one, which refunds only a park).                *)
THEOREM DelphiBudgetNeverStrands == DelphiSpec => []BudgetLeft
BY HistoryHolds, PTL DEF HistoryIInv, BudgetKept

-----------------------------------------------------------------------------
(* A fenced token stays fenced: what a call may do to the owner of a job.    *)

\* The job is not running after the call, or runs on under its owner and with
\* no new life in its lease, or was claimed under an identity nobody had.
Fences(j) ==
  \/ job'[j].state # "running"
  \/ /\ job[j].state = "running" /\ job'[j].attempt = job[j].attempt
     /\ job'[j].epoch = job[j].epoch
     /\ job'[j].lease > 0 => job[j].lease > 0
  \/ ~Claimed(job'[j].attempt)

TokensStay ==
  \A a \in Attempts : Claimed(a) => /\ attempt'[a].job = attempt[a].job
                                    /\ attempt'[a].epoch = attempt[a].epoch

FenceStep == TokensStay /\ \A j \in Jobs : Fences(j)

LEMMA FenceHolds ==
  ASSUME DelphiIInv, FenceStep, NEW a \in Attempts, Claimed(a), ~pq_owns(a)
  PROVE  ~pq_owns(a)'
<1>1. attempt[a].job \in Jobs
  BY DEF DelphiIInv, DelphiLinked, AttemptsLinked
<1>2. attempt'[a].job = attempt[a].job /\ attempt'[a].epoch = attempt[a].epoch
  BY DEF FenceStep, TokensStay
<1>3. Fences(attempt[a].job)
  BY <1>1 DEF FenceStep
<1> QED
  BY <1>2, <1>3 DEF Fences, pq_owns

(* One job is moved and does not run, the tokens stay as they are. *)
LEMMA StopFences ==
  ASSUME NEW j \in Jobs, job'[j].state # "running",
         \A x \in Jobs \ {j} : job'[x] = job[x], TokensStay
  PROVE  FenceStep
BY DEF FenceStep, Fences

LEMMA OutcomeKeepsTokens ==
  ASSUME DelphiIInv, NEW a, NEW o,
         attempt' = attempt \/ attempt' = [attempt EXCEPT ![a].outcome = o]
  PROVE  TokensStay
BY DEF DelphiIInv, DelphiTypeOK, TypeOK, AttemptRow, TokensStay

LEMMA StillFences ==
  ASSUME job' = job, attempt' = attempt
  PROVE  FenceStep
BY DEF FenceStep, Fences, TokensStay

LEMMA EndingFences ==
  ASSUME DelphiIInv, NEW a \in Attempts, attempt[a].job \in Jobs,
         NEW s \in {"retry_wait", "parked", "dead"}, NEW o, NEW waits, NEW refunded,
         terminate(a, s, o, waits, refunded)
  PROVE  FenceStep
<1> DEFINE j == attempt[a].job
<1>1. PICK w \in waits :
        job' = [job EXCEPT ![j].state = s, ![j].terminal = a,
          ![j].attempt = None, ![j].lease = 0, ![j].epoch = @ + 1,
          ![j].mgmt = @ + 1, ![j].wait = w,
          ![j].parked = IF refunded THEN @ + 1 ELSE @]
  BY DEF terminate
<1>2. j \in Jobs
  OBVIOUS
<1> HIDE DEF j
<1>3. job'[j].state # "running" /\ \A x \in Jobs \ {j} : job'[x] = job[x]
  BY <1>1, <1>2 DEF DelphiIInv, DelphiTypeOK, TypeOK, JobRow
<1>4. TokensStay
  BY OutcomeKeepsTokens DEF terminate
<1> QED
  BY <1>2, <1>3, <1>4, StopFences

LEMMA WorkerFences ==
  ASSUME DelphiIInv, NEW a \in Attempts, DelphiWorkerCall(a)
  PROVE  FenceStep
<1> DEFINE j == attempt[a].job
<1>1. Claimed(a) => j \in Jobs
  BY DEF DelphiIInv, DelphiLinked, AttemptsLinked
<1>2. ASSUME UNCHANGED vars PROVE FenceStep
  BY <1>2, StillFences DEF vars
<1>3. CASE pd_heartbeat(a)
  <2>1. /\ j \in Jobs /\ job' = [job EXCEPT ![j].lease = LeaseTicks]
        /\ attempt' = attempt /\ job[j].lease > 0
    BY <1>1, <1>3 DEF pd_heartbeat, pq_heartbeat, pq_owns
  <2>2. TokensStay
    BY <2>1, OutcomeKeepsTokens
  <2> HIDE DEF j
  <2>3. ASSUME NEW x \in Jobs
        PROVE  /\ job'[x].state = job[x].state /\ job'[x].attempt = job[x].attempt
               /\ job'[x].epoch = job[x].epoch
               /\ job'[x].lease > 0 => job[x].lease > 0
    BY <2>1 DEF DelphiIInv, DelphiTypeOK, TypeOK, JobRow
  <2> QED
    BY <2>2, <2>3 DEF FenceStep, Fences
<1>4. CASE pd_finalize(a)
  <2>1. /\ j \in Jobs
        /\ job' = [job EXCEPT ![j].state = "succeeded", ![j].terminal = a,
             ![j].attempt = None, ![j].lease = 0, ![j].mgmt = @ + 1]
        /\ attempt' = [attempt EXCEPT ![a].outcome = "succeeded"]
    BY <1>1, <1>4 DEF pd_finalize, succeed
  <2>2. TokensStay
    BY <2>1, OutcomeKeepsTokens
  <2> HIDE DEF j
  <2>3. job'[j].state # "running" /\ \A x \in Jobs \ {j} : job'[x] = job[x]
    BY <2>1 DEF DelphiIInv, DelphiTypeOK, TypeOK, JobRow
  <2> QED
    BY <2>1, <2>2, <2>3, StopFences
<1>5. ASSUME NEW action \in {"confirm_exit", "retry", "permanent", "release", "park"},
             pd_end_attempt(a, action), ~UNCHANGED vars
      PROVE  FenceStep
  <2> DEFINE s == end_state(a, action)
             waits == CASE action = "park" -> 0..WaitTicks
                        [] action = "release" \/ s = "dead" -> {0}
                        [] OTHER -> 1..WaitTicks
  <2>1. Claimed(a) /\ terminate(a, s, s, waits, action = "park")
    BY <1>5 DEF pd_end_attempt
  <2>2. s \in {"retry_wait", "parked", "dead"}
    BY DEF end_state, ended
  <2> HIDE DEF s, waits
  <2> QED
    BY <1>1, <2>1, <2>2, EndingFences
<1>6. ASSUME NEW r \in Requests,
             pd_provider_intent(a, r) \/ \E s \in {"submission_unknown", "submitted",
                                           "completed", "failed"} : pd_provider_update(a, r, s)
      PROVE  FenceStep
  BY <1>2, <1>6 DEF pd_provider_intent, pd_provider_update
<1> QED
  BY <1>2, <1>3, <1>4, <1>5, <1>6 DEF DelphiWorkerCall

LEMMA DelphiStepFences == DelphiIInv /\ [DelphiNext]_delphiVars => FenceStep
<1> SUFFICES ASSUME DelphiIInv, [DelphiNext]_delphiVars PROVE FenceStep
  OBVIOUS
<1>1. ASSUME UNCHANGED <<job, attempt>> PROVE FenceStep
  BY <1>1, StillFences
<1>2. ASSUME NEW p \in Products, NEW k \in Keys, NEW d \in Digests,
             NEW j \in Jobs, NEW i \in Images, pd_admit(p, k, d, j, i)
      PROVE  FenceStep
  <2>1. job' = [job EXCEPT ![j].state = "queued"] /\ attempt' = attempt
    BY <1>2 DEF pd_admit, pq_enqueue
  <2>2. job'[j].state # "running" /\ \A x \in Jobs \ {j} : job'[x] = job[x]
    BY <2>1 DEF DelphiIInv, DelphiTypeOK, TypeOK, JobRow
  <2> QED
    BY <2>1, <2>2, StopFences, OutcomeKeepsTokens
<1>3. ASSUME NEW j \in Jobs, NEW a \in Attempts, pd_claim(j, a)
      PROVE  FenceStep
  <2>1. /\ ~Claimed(a)
        /\ job' = [job EXCEPT ![j].state = "running", ![j].attempt = a,
             ![j].lease = LeaseTicks, ![j].epoch = claim_epoch(j),
             ![j].mgmt = @ + 1, ![j].count = @ + 1]
        /\ attempt' = [attempt EXCEPT
             ![a] = [job |-> j, epoch |-> claim_epoch(j), outcome |-> "running"]]
    BY <1>3 DEF pd_claim, pq_claim
  <2>2. TokensStay
    BY <2>1 DEF TokensStay, DelphiIInv, DelphiTypeOK, TypeOK
  <2>3. job'[j].attempt = a /\ \A x \in Jobs \ {j} : job'[x] = job[x]
    BY <2>1 DEF DelphiIInv, DelphiTypeOK, TypeOK, JobRow
  <2> QED
    BY <2>1, <2>2, <2>3 DEF FenceStep, Fences
<1>4. ASSUME NEW j \in Jobs, pd_reap_expired(j)
      PROVE  FenceStep
  <2>1. job[j].attempt \in Attempts /\ attempt[job[j].attempt].job = j
    BY <1>4 DEF pd_reap_expired, DelphiIInv, DelphiLinked, RunningLinked, AttemptsOf
  <2> QED
    BY <1>4, <2>1, EndingFences DEF pd_reap_expired
<1>5. ASSUME NEW j \in Jobs, pd_reap_parked(j)
      PROVE  FenceStep
  <2>1. PICK s \in {"dead", "queued"} : job' = [job EXCEPT ![j].state = s, ![j].mgmt = @ + 1]
    BY <1>5 DEF pd_reap_parked, reap_parked
  <2>2. job'[j].state # "running" /\ \A x \in Jobs \ {j} : job'[x] = job[x]
    BY <2>1 DEF DelphiIInv, DelphiTypeOK, TypeOK, JobRow
  <2>3. TokensStay
    BY <1>5, OutcomeKeepsTokens DEF pd_reap_parked, reap_parked
  <2> QED
    BY <2>2, <2>3, StopFences
<1>6. ASSUME NEW j \in Jobs, pd_cancel(j, job[j].mgmt)
      PROVE  FenceStep
  <2>1. job'[j].state # "running" /\ \A x \in Jobs \ {j} : job'[x] = job[x]
    BY <1>6 DEF pd_cancel, pq_cancel, DelphiIInv, DelphiTypeOK, TypeOK, JobRow
  <2>2. TokensStay
    BY <1>6, OutcomeKeepsTokens DEF pd_cancel, pq_cancel
  <2> QED
    BY <2>1, <2>2, StopFences
<1>7. CASE DelphiTick
  <2>1. ASSUME NEW x \in Jobs
        PROVE  /\ job'[x].state = job[x].state /\ job'[x].attempt = job[x].attempt
               /\ job'[x].epoch = job[x].epoch
               /\ job'[x].lease > 0 => job[x].lease > 0
    <3>1. /\ job[x] \in JobRow
          /\ job'[x] = [job[x] EXCEPT !.lease = IF @ > 0 THEN @ - 1 ELSE 0,
                                      !.wait = IF @ > 0 THEN @ - 1 ELSE 0]
      BY <1>7 DEF DelphiTick, Tick, DelphiIInv, DelphiTypeOK, TypeOK
    <3>2. /\ job'[x].state = job[x].state /\ job'[x].attempt = job[x].attempt
          /\ job'[x].epoch = job[x].epoch
          /\ job'[x].lease = IF job[x].lease > 0 THEN job[x].lease - 1 ELSE 0
      BY <3>1 DEF JobRow
    <3> QED
      BY <3>2
  <2>2. TokensStay
    BY <1>7, OutcomeKeepsTokens DEF DelphiTick, Tick
  <2> QED
    BY <2>1, <2>2 DEF FenceStep, Fences
<1>8. ASSUME NEW p \in Products, NEW k \in Keys, NEW d \in Digests,
             pd_alias(p, k, d)
      PROVE  FenceStep
  BY <1>1, <1>8 DEF pd_alias
<1>9. ASSUME NEW p \in Products, NEW k \in Keys, binding_expires(p, k)
      PROVE  FenceStep
  BY <1>1, <1>9 DEF binding_expires
<1>10. ASSUME NEW p \in Products, pd_release_scope(p)
       PROVE  FenceStep
  BY <1>1, <1>10 DEF pd_release_scope, vars
<1>11. CASE UNCHANGED delphiVars
  BY <1>1, <1>11 DEF delphiVars, vars
<1> QED
  BY <1>2, <1>3, <1>4, <1>5, <1>6, <1>7, <1>8, <1>9, <1>10, <1>11, WorkerFences DEF DelphiNext

(* The token of a lost attempt never works again, whatever is parked, reaped, *)
(* proved or claimed after it (pq_owns under the /2 calls).                  *)
THEOREM DelphiTokensStayFenced == DelphiSpec => TokenStaysFenced
<1>1. DelphiIInv /\ [DelphiNext]_delphiVars =>
        \A a \in Attempts : Claimed(a) /\ ~pq_owns(a) => ~pq_owns(a)'
  BY DelphiStepFences, FenceHolds
<1> QED
  BY <1>1, DelphiInvariantHolds, PTL DEF DelphiSpec, TokenStaysFenced

-----------------------------------------------------------------------------
(* A job, its run and its attempts tell one story, as under /1.            *)

StoryIInv == SingleOwner /\ EpochsOrdered /\ SuccessHasOneAttempt /\ RunMirrorsJob

(* What the story is about stays as it is for a job.                       *)
SameStory(j) ==
  /\ job'[j].state = job[j].state /\ job'[j].attempt = job[j].attempt
  /\ job'[j].epoch = job[j].epoch /\ job'[j].terminal = job[j].terminal
  /\ run'[j].state = run[j].state

RunState(s) == IF s \in Terminal THEN s ELSE "pending"

(* A live job comes to wait, to be parked or to be settled.  If an attempt  *)
(* owns it, that attempt ends with it.                                      *)
Stops(j) ==
  /\ job[j].state \notin Terminal \cup {"absent"}
  /\ job'[j].state \notin {"running", "absent"}
  /\ job'[j].epoch \in Nat /\ job'[j].epoch >= job[j].epoch
  /\ run'[j].state = RunState(job'[j].state)
  /\ \A x \in Jobs \ {j} : SameStory(x)
  /\ \A a \in Attempts :
       /\ attempt'[a].job = attempt[a].job /\ attempt'[a].epoch = attempt[a].epoch
       /\ \/ attempt'[a].outcome = attempt[a].outcome
          \/ job[j].state = "running" /\ a = job[j].attempt
  /\ IF job[j].state = "running"
     THEN /\ job'[j].terminal = job[j].attempt
          /\ attempt'[job[j].attempt].outcome \notin {"absent", "running"}
          /\ attempt'[job[j].attempt].outcome = "succeeded" <=> job'[j].state = "succeeded"
     ELSE job'[j].state # "succeeded"

(* The story goes on, and a settled job is not touched any more.           *)
SettledStay == \A x \in Jobs : job[x].state \in Terminal => SameStory(x)
StoryGoes == StoryIInv' /\ SettledStay

LEMMA SilenceKeepsStory ==
  ASSUME DelphiIInv, StoryIInv, attempt' = attempt, \A x \in Jobs : SameStory(x)
  PROVE  StoryGoes
<1> USE DEF SameStory, Claimed
<1>1. \A a \in Attempts : Claimed(a) => attempt[a].job \in Jobs
  BY DEF DelphiIInv, DelphiLinked, AttemptsLinked
<1>2. SingleOwner'
  BY <1>1 DEF StoryIInv, SingleOwner
<1>3. EpochsOrdered'
  BY <1>1 DEF StoryIInv, EpochsOrdered
<1>4. SuccessHasOneAttempt'
  BY DEF StoryIInv, SuccessHasOneAttempt
<1>5. RunMirrorsJob'
  BY DEF StoryIInv, RunMirrorsJob
<1>6. SettledStay
  BY DEF SettledStay
<1> QED
  BY <1>2, <1>3, <1>4, <1>5, <1>6 DEF StoryIInv, StoryGoes

LEMMA StopsKeepStory ==
  ASSUME DelphiIInv, StoryIInv, NEW j \in Jobs, Stops(j)
  PROVE  StoryGoes
<1> DEFINE owner == job[j].attempt
<1>1. \A a \in Attempts : Claimed(a) => attempt[a].job \in Jobs
  BY DEF DelphiIInv, DelphiLinked, AttemptsLinked
<1>2. \A x \in Jobs : job[x].state = "running" =>
        job[x].attempt \in Attempts /\ attempt[job[x].attempt].job = x
  BY DEF DelphiIInv, DelphiLinked, RunningLinked, AttemptsOf
<1>3. /\ \A a \in Attempts : attempt'[a].job = attempt[a].job /\ attempt'[a].epoch = attempt[a].epoch
      /\ \A a \in Attempts : a # owner => attempt'[a].outcome = attempt[a].outcome
      /\ \A a \in Attempts : Claimed(a)' <=> Claimed(a)
      /\ job[j].state = "running" =>
           /\ attempt'[owner].outcome # "running"
           /\ attempt'[owner].outcome = "succeeded" <=> job'[j].state = "succeeded"
  <2>1. job[j].state = "running" => owner \in Attempts /\ attempt[owner].outcome # "absent"
    BY <1>2 DEF StoryIInv, SingleOwner
  <2> QED
    BY <2>1 DEF Stops, Claimed
<1>4. \A a \in Attempts : attempt[a].outcome = "running" /\ attempt[a].job = j
        => job[j].state = "running" /\ a = owner
  BY DEF StoryIInv, SingleOwner
<1>5. \A x \in Jobs \ {j} : SameStory(x)
  BY DEF Stops
<1>6. /\ job[j].state \notin Terminal \cup {"absent"} /\ job'[j].state \notin {"running", "absent"}
      /\ job'[j].epoch \in Nat /\ job'[j].epoch >= job[j].epoch
      /\ run'[j].state = RunState(job'[j].state)
  BY DEF Stops
<1> HIDE DEF owner
<1>7. SingleOwner'
  <2>1. ASSUME NEW a \in Attempts, attempt'[a].outcome = "running"
        PROVE  /\ job'[attempt[a].job].state = "running" /\ job'[attempt[a].job].attempt = a
               /\ job'[attempt[a].job].epoch = attempt[a].epoch
    <3>1. attempt[a].outcome = "running"
      <4>1. CASE a = owner
        BY <1>3, <1>5, <2>1, <4>1 DEF Stops, owner
      <4>2. CASE a # owner
        BY <1>3, <2>1, <4>2
      <4> QED
        BY <4>1, <4>2
    <3>2. attempt[a].job \in Jobs \ {j}
      BY <1>1, <1>3, <1>4, <2>1, <3>1 DEF Claimed
    <3> QED
      BY <1>5, <3>1, <3>2 DEF StoryIInv, SingleOwner, SameStory
  <2>2. ASSUME NEW x \in Jobs, job'[x].state = "running"
        PROVE  job'[x].attempt # None /\ attempt'[job'[x].attempt].outcome = "running"
    <3>1. x # j /\ job[x].state = "running" /\ job'[x].attempt = job[x].attempt
      BY <1>5, <1>6, <2>2 DEF SameStory
    <3>2. job[x].attempt \in Attempts /\ attempt[job[x].attempt].job = x
      BY <1>2, <3>1
    <3>3. job[x].attempt # owner \/ job[j].state # "running"
      BY <1>2, <3>1, <3>2 DEF owner
    <3>4. attempt'[job[x].attempt].outcome = attempt[job[x].attempt].outcome
      BY <1>3, <3>2, <3>3 DEF Stops
    <3> QED
      BY <3>1, <3>4 DEF StoryIInv, SingleOwner
  <2> QED
    BY <1>3, <2>1, <2>2 DEF SingleOwner
<1>8. EpochsOrdered'
  <2>1. ASSUME NEW a \in Attempts, Claimed(a)
        PROVE  attempt'[a].epoch <= job'[attempt'[a].job].epoch
    <3>1. attempt[a].epoch <= job[attempt[a].job].epoch /\ attempt[a].job \in Jobs
      BY <1>1, <2>1 DEF StoryIInv, EpochsOrdered
    <3>2. attempt[a].epoch \in Nat /\ job[attempt[a].job].epoch \in Nat
      BY <3>1 DEF DelphiIInv, DelphiTypeOK, TypeOK, AttemptRow, JobRow
    <3> QED
      BY <1>3, <1>5, <1>6, <3>1, <3>2 DEF SameStory
  <2> QED
    BY <1>3, <2>1 DEF StoryIInv, EpochsOrdered
<1>9. SuccessHasOneAttempt'
  <2>1. ASSUME NEW x \in Jobs, NEW a \in Attempts, attempt'[a].job = x
        PROVE  attempt'[a].outcome = "succeeded"
                 <=> job'[x].state = "succeeded" /\ job'[x].terminal = a
    <3>1. attempt[a].job = x
      BY <1>3, <2>1
    <3>2. attempt[a].outcome = "succeeded"
            <=> job[x].state = "succeeded" /\ job[x].terminal = a
      BY <3>1 DEF StoryIInv, SuccessHasOneAttempt
    <3>3. CASE x # j
      <4>1. a # owner \/ job[j].state # "running"
        BY <1>2, <3>1, <3>3 DEF owner
      <4>2. attempt'[a].outcome = attempt[a].outcome
        BY <1>3, <4>1 DEF Stops
      <4> QED
        BY <1>5, <3>2, <3>3, <4>2 DEF SameStory
    <3>4. CASE x = j
      <4>1. attempt[a].outcome # "succeeded"
        BY <1>6, <3>2, <3>4 DEF Terminal
      <4>2. CASE job[j].state = "running"
        <5>1. job'[j].terminal = owner
          BY <4>2 DEF Stops, owner
        <5> QED
          BY <1>3, <3>4, <4>1, <4>2, <5>1
      <4>3. CASE job[j].state # "running"
        BY <3>4, <4>1, <4>3 DEF Stops
      <4> QED
        BY <4>2, <4>3
    <3> QED
      BY <3>3, <3>4
  <2> QED
    BY <2>1 DEF SuccessHasOneAttempt
<1>10. RunMirrorsJob'
  <2>1. ASSUME NEW x \in Jobs
        PROVE  run'[x].state = IF job'[x].state \in Terminal \cup {"absent"}
                               THEN job'[x].state ELSE "pending"
    <3>1. CASE x = j
      BY <1>6, <3>1 DEF RunState
    <3>2. CASE x # j
      BY <1>5, <3>2 DEF StoryIInv, RunMirrorsJob, SameStory
    <3> QED
      BY <3>1, <3>2
  <2> QED
    BY <2>1 DEF RunMirrorsJob
<1>11. SettledStay
  BY <1>5, <1>6 DEF SettledStay
<1> QED
  BY <1>7, <1>8, <1>9, <1>10, <1>11 DEF StoryIInv, StoryGoes

(* The end of an owner's attempt without success, by whoever ends it.      *)
LEMMA TerminateStops ==
  ASSUME DelphiIInv, StoryIInv, NEW j \in Jobs, job[j].state = "running",
         NEW a \in Attempts, job[j].attempt = a, attempt[a].job = j,
         NEW s \in {"retry_wait", "parked", "dead"},
         NEW o \in {"retry_wait", "parked", "dead", "expired"},
         NEW waits, NEW refunded, terminate(a, s, o, waits, refunded)
  PROVE  StoryGoes
<1>1. PICK w \in waits :
        job' = [job EXCEPT ![j].state = s, ![j].terminal = a,
          ![j].attempt = None, ![j].lease = 0, ![j].epoch = @ + 1,
          ![j].mgmt = @ + 1, ![j].wait = w,
          ![j].parked = IF refunded THEN @ + 1 ELSE @]
  BY DEF terminate
<1>2. /\ attempt' = [attempt EXCEPT ![a].outcome = o]
      /\ run' = run_after(j, s)
  BY DEF terminate
<1>3. /\ job'[j].state = s /\ job'[j].terminal = a /\ job'[j].epoch = job[j].epoch + 1
      /\ \A x \in Jobs \ {j} : job'[x] = job[x]
      /\ job[j].epoch \in Nat
  BY <1>1 DEF DelphiIInv, DelphiTypeOK, TypeOK, JobRow
<1>4. run[j].state = "pending"
  BY DEF StoryIInv, RunMirrorsJob, Terminal
<1>5. /\ run'[j].state = RunState(s)
      /\ \A x \in Jobs \ {j} : run'[x] = run[x]
  BY <1>2, <1>4 DEF run_after, RunState, Terminal, DelphiIInv, DelphiTypeOK, TypeOK, RunRow
<1>6. /\ attempt'[a].outcome = o
      /\ \A b \in Attempts : attempt'[b].job = attempt[b].job /\ attempt'[b].epoch = attempt[b].epoch
      /\ \A b \in Attempts \ {a} : attempt'[b].outcome = attempt[b].outcome
  BY <1>2 DEF DelphiIInv, DelphiTypeOK, TypeOK, AttemptRow
<1>7. Stops(j)
  BY <1>3, <1>5, <1>6 DEF Stops, SameStory, Terminal
<1> QED
  BY <1>7, StopsKeepStory

LEMMA WorkerKeepsStory ==
  ASSUME DelphiIInv, StoryIInv, NEW a \in Attempts, DelphiWorkerCall(a)
  PROVE  StoryGoes
<1> DEFINE j == attempt[a].job
<1>1. Claimed(a) => j \in Jobs
  BY DEF DelphiIInv, DelphiLinked, AttemptsLinked
<1>2. ASSUME UNCHANGED <<job, run, attempt>> PROVE StoryGoes
  BY <1>2, SilenceKeepsStory DEF SameStory
<1>3. CASE pd_heartbeat(a)
  <2>1. /\ j \in Jobs /\ job' = [job EXCEPT ![j].lease = LeaseTicks]
        /\ attempt' = attempt /\ run' = run
    BY <1>1, <1>3 DEF pd_heartbeat, pq_heartbeat
  <2> HIDE DEF j
  <2>2. \A x \in Jobs : SameStory(x)
    BY <2>1 DEF SameStory, DelphiIInv, DelphiTypeOK, TypeOK, JobRow
  <2> QED
    BY <2>1, <2>2, SilenceKeepsStory
<1>4. CASE pd_finalize(a)
  <2>1. /\ j \in Jobs /\ job[j].state = "running" /\ job[j].attempt = a
        /\ job' = [job EXCEPT ![j].state = "succeeded", ![j].terminal = a,
             ![j].attempt = None, ![j].lease = 0, ![j].mgmt = @ + 1]
        /\ attempt' = [attempt EXCEPT ![a].outcome = "succeeded"]
        /\ run' = [run EXCEPT ![j].state = "succeeded"]
    BY <1>1, <1>4 DEF pd_finalize, succeed, pq_owns
  <2> HIDE DEF j
  <2>2. /\ job'[j].state = "succeeded" /\ job'[j].terminal = a /\ job'[j].epoch = job[j].epoch
        /\ \A x \in Jobs \ {j} : job'[x] = job[x]
        /\ job[j].epoch \in Nat
        /\ run'[j].state = "succeeded" /\ \A x \in Jobs \ {j} : run'[x] = run[x]
    BY <2>1 DEF DelphiIInv, DelphiTypeOK, TypeOK, JobRow, RunRow
  <2>3. /\ attempt'[a].outcome = "succeeded"
        /\ \A b \in Attempts : attempt'[b].job = attempt[b].job /\ attempt'[b].epoch = attempt[b].epoch
        /\ \A b \in Attempts \ {a} : attempt'[b].outcome = attempt[b].outcome
    BY <2>1 DEF DelphiIInv, DelphiTypeOK, TypeOK, AttemptRow
  <2>4. j \in Jobs /\ job[j].state = "running" /\ job[j].attempt = a
    BY <2>1
  <2>5. Stops(j)
    BY <2>2, <2>3, <2>4 DEF Stops, SameStory, Terminal, RunState
  <2> QED
    BY <2>4, <2>5, StopsKeepStory
<1>5. ASSUME NEW action \in {"confirm_exit", "retry", "permanent", "release", "park"},
             pd_end_attempt(a, action), ~UNCHANGED vars
      PROVE  StoryGoes
  <2> DEFINE s == end_state(a, action)
             waits == CASE action = "park" -> 0..WaitTicks
                        [] action = "release" \/ s = "dead" -> {0}
                        [] OTHER -> 1..WaitTicks
  <2>1. Claimed(a) /\ pq_owns(a) /\ terminate(a, s, s, waits, action = "park")
    BY <1>5 DEF pd_end_attempt
  <2>2. s \in {"retry_wait", "parked", "dead"}
    BY DEF end_state, ended
  <2>3. /\ j \in Jobs /\ job[j].state = "running" /\ job[j].attempt = a
        /\ attempt[a].job = j
    BY <1>1, <2>1 DEF pq_owns
  <2> HIDE DEF s, waits, j
  <2> QED
    BY <2>1, <2>2, <2>3, TerminateStops
<1>6. CASE UNCHANGED vars
  BY <1>2, <1>6 DEF vars
<1>7. ASSUME NEW r \in Requests,
             pd_provider_intent(a, r) \/ \E s \in {"submission_unknown", "submitted",
                                           "completed", "failed"} : pd_provider_update(a, r, s)
      PROVE  StoryGoes
  BY <1>6, <1>7 DEF pd_provider_intent, pd_provider_update
<1> QED
  BY <1>3, <1>4, <1>5, <1>6, <1>7 DEF DelphiWorkerCall

LEMMA AdmitKeepsStory ==
  ASSUME DelphiIInv, StoryIInv, NEW p \in Products, NEW k \in Keys, NEW d \in Digests,
         NEW j \in Jobs, NEW i \in Images, pd_admit(p, k, d, j, i)
  PROVE  StoryGoes
<1>1. /\ job[j].state = "absent" /\ attempt' = attempt
      /\ job' = [job EXCEPT ![j].state = "queued"]
      /\ run' = [run EXCEPT ![j] =
           [product |-> p, generation |-> head[p].requested + 1, state |-> "pending"]]
  BY DEF pd_admit, pq_enqueue
<1>2. /\ job'[j].state = "queued" /\ run'[j].state = "pending"
      /\ \A x \in Jobs \ {j} : job'[x] = job[x] /\ run'[x] = run[x]
      /\ \A x \in Jobs : job'[x].epoch = job[x].epoch
  BY <1>1 DEF DelphiIInv, DelphiTypeOK, TypeOK, JobRow
<1>3. \A a \in Attempts : attempt[a].job # j
  <2>1. ASSUME NEW a \in Attempts PROVE attempt[a].job # j
    BY <1>1, ConstantsAssumption DEF DelphiIInv, DelphiLinked, AttemptsLinked
  <2> QED
    BY <2>1
<1>4. \A a \in Attempts : Claimed(a) => attempt[a].job \in Jobs
  BY DEF DelphiIInv, DelphiLinked, AttemptsLinked
<1> USE <1>1, <1>2, <1>3, <1>4 DEF Claimed
<1>5. SingleOwner'
  BY DEF StoryIInv, SingleOwner
<1>6. EpochsOrdered'
  BY DEF StoryIInv, EpochsOrdered
<1>7. SuccessHasOneAttempt'
  BY DEF StoryIInv, SuccessHasOneAttempt
<1>8. RunMirrorsJob'
  BY DEF StoryIInv, RunMirrorsJob, Terminal
<1>9. SettledStay
  BY DEF SettledStay, SameStory, Terminal
<1> QED
  BY <1>5, <1>6, <1>7, <1>8, <1>9 DEF StoryIInv, StoryGoes

LEMMA ClaimKeepsStory ==
  ASSUME DelphiIInv, StoryIInv, NEW j \in Jobs, NEW a \in Attempts, pd_claim(j, a)
  PROVE  StoryGoes
<1>1. /\ job[j].state \in Waiting /\ ~Claimed(a) /\ run' = run
      /\ job' = [job EXCEPT ![j].state = "running", ![j].attempt = a,
           ![j].lease = LeaseTicks, ![j].epoch = claim_epoch(j),
           ![j].mgmt = @ + 1, ![j].count = @ + 1]
      /\ attempt' = [attempt EXCEPT
           ![a] = [job |-> j, epoch |-> claim_epoch(j), outcome |-> "running"]]
  BY DEF pd_claim, pq_claim, claimable
<1>2. /\ job'[j].state = "running" /\ job'[j].attempt = a
      /\ job'[j].epoch = job[j].epoch + 1 /\ job[j].epoch \in Nat
      /\ \A x \in Jobs \ {j} : job'[x] = job[x]
  BY <1>1 DEF DelphiIInv, DelphiTypeOK, TypeOK, JobRow, claim_epoch
<1>3. /\ attempt'[a] = [job |-> j, epoch |-> job[j].epoch + 1, outcome |-> "running"]
      /\ \A b \in Attempts \ {a} : attempt'[b] = attempt[b]
  BY <1>1 DEF DelphiIInv, DelphiTypeOK, TypeOK, claim_epoch
<1>4. \A b \in Attempts : Claimed(b) => attempt[b].job \in Jobs
  BY DEF DelphiIInv, DelphiLinked, AttemptsLinked
<1>5. SingleOwner'
  <2>1. ASSUME NEW b \in Attempts, attempt'[b].outcome = "running", b # a
        PROVE  attempt[b].job \in Jobs \ {j}
    <3>1. attempt[b].outcome = "running" /\ Claimed(b)
      BY <1>3, <2>1 DEF Claimed
    <3>2. job[attempt[b].job].state = "running"
      BY <3>1 DEF StoryIInv, SingleOwner
    <3> QED
      BY <1>1, <1>4, <3>1, <3>2 DEF Waiting
  <2>2. ASSUME NEW x \in Jobs \ {j}, job[x].state = "running"
        PROVE  job[x].attempt \in Attempts \ {a}
    <3>1. job[x].attempt \in Attempts /\ attempt[job[x].attempt].outcome = "running"
      BY <2>2 DEF StoryIInv, SingleOwner, DelphiIInv, DelphiLinked, RunningLinked, AttemptsOf
    <3> QED
      BY <1>1, <3>1 DEF Claimed
  <2>3. \A b \in Attempts : attempt'[b].outcome = "running" =>
          LET y == attempt'[b].job IN
          job'[y].state = "running" /\ job'[y].attempt = b /\ job'[y].epoch = attempt'[b].epoch
    BY <1>2, <1>3, <2>1 DEF StoryIInv, SingleOwner
  <2>4. \A x \in Jobs : job'[x].state = "running" =>
          job'[x].attempt # None /\ attempt'[job'[x].attempt].outcome = "running"
    BY <1>2, <1>3, <2>2, ConstantsAssumption DEF StoryIInv, SingleOwner
  <2> QED
    BY <2>3, <2>4 DEF SingleOwner
<1>6. EpochsOrdered'
  <2>1. \A b \in Attempts : Claimed(b) =>
          /\ attempt[b].epoch \in Nat /\ attempt[b].epoch <= job[attempt[b].job].epoch
          /\ job[attempt[b].job].epoch \in Nat
    BY <1>4 DEF StoryIInv, EpochsOrdered, DelphiIInv, DelphiTypeOK, TypeOK, AttemptRow, JobRow
  <2>2. \A b \in Attempts \ {a} : Claimed(b)' <=> Claimed(b)
    BY <1>3 DEF Claimed
  <2>3. \A b, c \in Attempts :
          Claimed(b)' /\ Claimed(c)' /\ attempt'[b].job = attempt'[c].job /\ b # c
            => attempt'[b].epoch # attempt'[c].epoch
    BY <1>2, <1>3, <2>1, <2>2 DEF StoryIInv, EpochsOrdered
  <2>4. \A b \in Attempts : Claimed(b)' => attempt'[b].epoch <= job'[attempt'[b].job].epoch
    BY <1>2, <1>3, <1>4, <2>1, <2>2
  <2> QED
    BY <2>3, <2>4 DEF EpochsOrdered
<1>7. SuccessHasOneAttempt'
  <2>1. ASSUME NEW x \in Jobs, NEW b \in Attempts, attempt'[b].job = x
        PROVE  attempt'[b].outcome = "succeeded"
                 <=> job'[x].state = "succeeded" /\ job'[x].terminal = b
    <3>1. CASE b = a
      BY <1>2, <1>3, <2>1, <3>1
    <3>2. CASE b # a
      <4>1. attempt[b].outcome = "succeeded"
              <=> job[x].state = "succeeded" /\ job[x].terminal = b
        BY <1>3, <2>1, <3>2 DEF StoryIInv, SuccessHasOneAttempt
      <4> QED
        BY <1>1, <1>2, <1>3, <3>2, <4>1 DEF Waiting
    <3> QED
      BY <3>1, <3>2
  <2> QED
    BY <2>1 DEF SuccessHasOneAttempt
<1>8. RunMirrorsJob'
  BY <1>1, <1>2 DEF StoryIInv, RunMirrorsJob, Waiting, Terminal
<1>9. SettledStay
  BY <1>1, <1>2 DEF SettledStay, SameStory, Terminal, Waiting
<1> QED
  BY <1>5, <1>6, <1>7, <1>8, <1>9 DEF StoryIInv, StoryGoes

LEMMA StoryStep == DelphiIInv /\ StoryIInv /\ [DelphiNext]_delphiVars => StoryGoes
<1> SUFFICES ASSUME DelphiIInv, StoryIInv, [DelphiNext]_delphiVars PROVE StoryGoes
  OBVIOUS
<1>1. ASSUME UNCHANGED <<job, run, attempt>> PROVE StoryGoes
  BY <1>1, SilenceKeepsStory DEF SameStory
<1>2. ASSUME NEW j \in Jobs, pd_reap_expired(j) PROVE StoryGoes
  <2>1. job[j].state = "running" /\ job[j].attempt \in Attempts /\ attempt[job[j].attempt].job = j
    BY <1>2 DEF pd_reap_expired, DelphiIInv, DelphiLinked, RunningLinked, AttemptsOf
  <2>2. PICK a \in Attempts : a = job[j].attempt
    BY <2>1
  <2>3. PICK s \in {"parked"} : terminate(a, s, "expired", 1..WaitTicks, FALSE)
    BY <1>2, <2>2 DEF pd_reap_expired
  <2> QED
    BY <2>1, <2>2, <2>3, TerminateStops
<1>3. ASSUME NEW j \in Jobs, pd_reap_parked(j) PROVE StoryGoes
  <2>1. PICK s \in {"dead", "queued"} :
          /\ job[j].state = "parked" /\ attempt' = attempt /\ run' = run_after(j, s)
          /\ job' = [job EXCEPT ![j].state = s, ![j].mgmt = @ + 1]
    BY <1>3 DEF pd_reap_parked, reap_parked
  <2>2. /\ job'[j].state = s /\ job'[j].epoch = job[j].epoch /\ job[j].epoch \in Nat
        /\ \A x \in Jobs \ {j} : job'[x] = job[x]
    BY <2>1 DEF DelphiIInv, DelphiTypeOK, TypeOK, JobRow
  <2>3. run[j].state = "pending"
    BY <2>1 DEF StoryIInv, RunMirrorsJob, Terminal
  <2>4. run'[j].state = RunState(s) /\ \A x \in Jobs \ {j} : run'[x] = run[x]
    BY <2>1, <2>3 DEF run_after, RunState, Terminal, DelphiIInv, DelphiTypeOK, TypeOK, RunRow
  <2>5. job[j].state = "parked" /\ attempt' = attempt
    BY <2>1
  <2>6. Stops(j)
    BY <2>2, <2>4, <2>5 DEF Stops, SameStory, Terminal
  <2> QED
    BY <2>6, StopsKeepStory
<1>4. ASSUME NEW j \in Jobs, pd_cancel(j, job[j].mgmt) PROVE StoryGoes
  <2> DEFINE a == job[j].attempt
  <2>1. /\ job[j].state \notin Terminal \cup {"absent"}
        /\ attempt' = IF a = None THEN attempt ELSE [attempt EXCEPT ![a].outcome = "cancelled"]
        /\ run' = [run EXCEPT ![j].state = "cancelled"]
        /\ job' = [job EXCEPT ![j].state = "cancelled",
             ![j].terminal = IF a = None THEN @ ELSE a,
             ![j].attempt = None, ![j].lease = 0, ![j].wait = 0,
             ![j].epoch = @ + 1, ![j].mgmt = @ + 1]
    BY <1>4 DEF pd_cancel, pq_cancel, cancel_admits
  <2>2. IF job[j].state = "running" THEN a # None ELSE a = None
    BY OwnerClaimed DEF DelphiIInv, StoryIInv, SingleOwner
  <2> HIDE DEF a
  <2>3. /\ job'[j].state = "cancelled" /\ job'[j].epoch = job[j].epoch + 1 /\ job[j].epoch \in Nat
        /\ a # None => job'[j].terminal = a
        /\ \A x \in Jobs \ {j} : job'[x] = job[x]
        /\ run'[j].state = "cancelled" /\ \A x \in Jobs \ {j} : run'[x] = run[x]
    BY <2>1 DEF DelphiIInv, DelphiTypeOK, TypeOK, JobRow, RunRow
  <2>4. /\ \A b \in Attempts : attempt'[b].job = attempt[b].job /\ attempt'[b].epoch = attempt[b].epoch
        /\ \A b \in Attempts \ {a} : attempt'[b].outcome = attempt[b].outcome
        /\ a = None => attempt' = attempt
        /\ a # None => attempt'[a].outcome = "cancelled"
    BY <2>1, OwnerClaimed DEF DelphiIInv, DelphiTypeOK, TypeOK, AttemptRow, a
  <2>5. job[j].state \notin Terminal \cup {"absent"}
    BY <2>1
  <2>6. Stops(j)
    BY <2>2, <2>3, <2>4, <2>5 DEF Stops, SameStory, Terminal, RunState, a
  <2> QED
    BY <2>6, StopsKeepStory
<1>5. CASE DelphiTick
  <2>1. ASSUME NEW x \in Jobs PROVE SameStory(x)
    <3>1. /\ job[x] \in JobRow
          /\ job'[x] = [job[x] EXCEPT !.lease = IF @ > 0 THEN @ - 1 ELSE 0,
                                      !.wait = IF @ > 0 THEN @ - 1 ELSE 0]
      BY <1>5 DEF DelphiTick, Tick, DelphiIInv, DelphiTypeOK, TypeOK
    <3>2. /\ job'[x].state = job[x].state /\ job'[x].attempt = job[x].attempt
          /\ job'[x].epoch = job[x].epoch /\ job'[x].terminal = job[x].terminal
      BY <3>1 DEF JobRow
    <3>3. run' = run
      BY <1>5 DEF DelphiTick, Tick
    <3> QED
      BY <3>2, <3>3 DEF SameStory
  <2> QED
    BY <1>5, <2>1, SilenceKeepsStory DEF DelphiTick, Tick
<1>6. ASSUME NEW p \in Products, NEW k \in Keys, NEW d \in Digests, pd_alias(p, k, d)
      PROVE  StoryGoes
  BY <1>1, <1>6 DEF pd_alias
<1>7. ASSUME NEW p \in Products, NEW k \in Keys, binding_expires(p, k)
      PROVE  StoryGoes
  BY <1>1, <1>7 DEF binding_expires
<1>8. ASSUME NEW p \in Products, pd_release_scope(p) PROVE StoryGoes
  BY <1>1, <1>8 DEF pd_release_scope, vars
<1>9. CASE UNCHANGED delphiVars
  BY <1>1, <1>9 DEF delphiVars, vars
<1> QED
  BY <1>2, <1>3, <1>4, <1>5, <1>6, <1>7, <1>8, <1>9, AdmitKeepsStory, ClaimKeepsStory,
     WorkerKeepsStory DEF DelphiNext

(* Under the /2 calls too a job has one owner, an epoch names one ownership, *)
(* a success has one attempt and the run ends as its job does, although an   *)
(* attempt's end, its exit proof and the job's release are calls of their own *)
(* now (pq_claim, pq_end_attempt, pq_finalize, pq_reap_one, pq_cancel).      *)
THEOREM DelphiTellsOneStory ==
  DelphiSpec => [](SingleOwner /\ EpochsOrdered /\ SuccessHasOneAttempt /\ RunMirrorsJob)
<1>1. DelphiInit => StoryIInv
  BY DEF DelphiInit, Init, StoryIInv, SingleOwner, EpochsOrdered, SuccessHasOneAttempt,
         RunMirrorsJob, Claimed
<1>2. StoryIInv => SingleOwner /\ EpochsOrdered /\ SuccessHasOneAttempt /\ RunMirrorsJob
  BY DEF StoryIInv
<1>3. DelphiIInv /\ StoryIInv /\ [DelphiNext]_delphiVars => StoryIInv'
  BY StoryStep DEF StoryGoes
<1> QED
  BY <1>1, <1>2, <1>3, DelphiInvariantHolds, PTL DEF DelphiSpec

\* Once a job has settled, its state, its last attempt and its run stay.
SettledForGood ==
  [][\A j \in Jobs : job[j].state \in Terminal =>
       /\ job'[j].state = job[j].state /\ job'[j].terminal = job[j].terminal
       /\ run'[j].state = run[j].state]_delphiVars

(* A job settles once: exits proved, requests acknowledged and scopes released *)
(* after its end change none of it, and no call reopens it (the tests for     *)
(* terminal states in pq_claim, pq_end_attempt, pq_reap_one and pq_cancel).  *)
THEOREM JobsSettleOnce == DelphiSpec => SettledForGood
<1>1. DelphiInit => StoryIInv
  BY DEF DelphiInit, Init, StoryIInv, SingleOwner, EpochsOrdered, SuccessHasOneAttempt,
         RunMirrorsJob, Claimed
<1>2. DelphiIInv /\ StoryIInv /\ [DelphiNext]_delphiVars => StoryIInv'
  BY StoryStep DEF StoryGoes
<1>3. DelphiIInv /\ StoryIInv /\ [DelphiNext]_delphiVars =>
        \A j \in Jobs : job[j].state \in Terminal =>
          /\ job'[j].state = job[j].state /\ job'[j].terminal = job[j].terminal
          /\ run'[j].state = run[j].state
  BY StoryStep DEF StoryGoes, SettledStay, SameStory
<1> QED
  BY <1>1, <1>2, <1>3, DelphiInvariantHolds, PTL DEF DelphiSpec, SettledForGood
=============================================================================
