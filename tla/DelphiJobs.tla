----------------------------- MODULE DelphiJobs -----------------------------
(***************************************************************************)
(* The polis-queue/2 and /3 database: the Delphi and math_rebuild jobs of  *)
(* server/postgres/migrations/000023_create_delphi_foundation.sql as       *)
(* 000024_create_polis_queue_large_class.sql leaves it.  It is PolisQueue  *)
(* with more tables: what is known of each attempt's process, the guard of *)
(* each scope, the image of each run and the requests to paid providers.   *)
(*                                                                         *)
(* A /2 lease that expires proves nothing about the process that held it,  *)
(* so nothing of a job is handed on before its exits are proved.           *)
(*                                                                         *)
(* As in PolisQueue each call is one atomic action and callers are open:   *)
(* any attempt may call at any time, proving its exit included (that a     *)
(* proof is only given for a process that is gone is the daemon's duty).   *)
(* Calls that raise or answer existing, conflict, poisoned, fenced or none *)
(* are stuttering steps.                                                   *)
(*                                                                         *)
(* Abstractions.  A scope is its product: callers pass the same string for *)
(* both (capacity_queue.py).  One worker class, since a claim and a reap   *)
(* page name theirs and nothing passes from one to the other.  Jobs have   *)
(* no inputs and no children, which these admissions never create.  A      *)
(* provider's batch number is left out: an update that would change it     *)
(* raises.                                                                 *)
(***************************************************************************)
EXTENDS PolisQueue

CONSTANTS
  Requests,    \* provider request identities a child may mint
  Images,      \* code image digests
  PoisonLimit  \* dead jobs in a row that close a scope to their image (3)

ASSUME DelphiAssumption == PoisonLimit \in Nat \ {0}

VARIABLES
  proved,    \* the attempts whose process_exit_confirmed_at is set
  guard,     \* delphi_job_guards: who holds each scope, for which request
  image,     \* polis_queue_runs.code_image_digest
  provider   \* delphi_provider_requests

delphiVars == <<vars, proved, guard, image, provider>>

Unresolved == {"intent", "submission_unknown"}
Open       == Unresolved \cup {"submitted"}

GuardRow == [job : Jobs \cup {None}, digest : Digests \cup {None}]
ProviderRow ==
  [attempt : Attempts \cup {None},
   state : Open \cup {"absent", "completed", "failed"}]

DelphiInit ==
  /\ Init
  /\ proved = {}
  /\ guard = [p \in Products |-> [job |-> None, digest |-> None]]
  /\ image = [j \in Jobs |-> None]
  /\ provider = [r \in Requests |-> [attempt |-> None, state |-> "absent"]]

-----------------------------------------------------------------------------
(* What the functions ask before they act.                                 *)

\* the attempts of a job, and the provider requests they made
AttemptsOf(j) == {a \in Attempts : attempt[a].job = j}
RequestsOf(j) ==
  {r \in Requests : provider[r].attempt # None
                      /\ attempt[provider[r].attempt].job = j}

lease_proves_exit(j) ==
  \A a \in AttemptsOf(j) : a \in proved \/ attempt[a].outcome = "expired"

\* No process of the job can still be running.
exits_proved(j) == AttemptsOf(j) \subseteq proved

\* No request of the job is in one of the states.
none_in(j, states) == \A r \in RequestsOf(j) : provider[r].state \notin states

\* The job's processes are gone and no submission is in doubt.
resolved(j) == exits_proved(j) /\ none_in(j, Unresolved)

\* the generations of a scope whose job died under the image
DeadUnder(p, i) ==
  {g \in 1..head[p].requested : \E j \in Jobs :
     /\ run[j].product = p /\ run[j].generation = g
     /\ job[j].state = "dead" /\ image[j] = i}

poisoned_one_late(p, i) ==
  (head[p].requested - PoisonLimit)..head[p].requested \subseteq DeadUnder(p, i)

\* The poison latch: the newest PoisonLimit runs of the scope are all dead
\* under this image.
poisoned(p, i) ==
  (head[p].requested - PoisonLimit + 1)..head[p].requested
    \subseteq DeadUnder(p, i)

-----------------------------------------------------------------------------
(* Admission and release of a scope.                                       *)

\* The 24 hours of a request's binding end: the next admission under the key
\* finds the row expired and deletes it.
binding_expires(p, k) ==
  /\ request[<<p, k>>].job # None
  /\ request' = [request EXCEPT ![<<p, k>>] = [digest |-> None, job |-> None]]
  /\ UNCHANGED <<head, run, job, attempt, proved, guard, image, provider>>

\* Admission to a free scope: the job and its guard together.
pd_admit(p, k, d, j, i) ==
  /\ guard[p].job = None
  /\ ~poisoned(p, i)
  /\ pq_enqueue(p, k, d, j)
  /\ guard' = [guard EXCEPT ![p] = [job |-> j, digest |-> d]]
  /\ image' = [image EXCEPT ![j] = i]
  /\ UNCHANGED <<proved, provider>>

pd_alias_any_digest(p, k, d) ==
  /\ request[<<p, k>>].job = None
  /\ guard[p].job # None
  /\ request' = [request EXCEPT ![<<p, k>>] = [digest |-> d, job |-> guard[p].job]]
  /\ UNCHANGED <<head, run, job, attempt, proved, guard, image, provider>>

\* The same request under another key while the scope is held: the key is
\* bound to the holder.  A different request is a conflict.
pd_alias(p, k, d) ==
  /\ request[<<p, k>>].job = None
  /\ guard[p].job # None
  /\ guard[p].digest = d
  /\ request' = [request EXCEPT ![<<p, k>>] = [digest |-> d, job |-> guard[p].job]]
  /\ UNCHANGED <<head, run, job, attempt, proved, guard, image, provider>>

release_forgets_exits(p) ==
  /\ guard[p].job # None
  /\ job[guard[p].job].state \in Terminal
  /\ none_in(guard[p].job, Open)
  /\ guard' = [guard EXCEPT ![p] = [job |-> None, digest |-> None]]
  /\ UNCHANGED <<vars, proved, image, provider>>

release_ignores_submitted(p) ==
  /\ guard[p].job # None
  /\ job[guard[p].job].state \in Terminal
  /\ exits_proved(guard[p].job)
  /\ none_in(guard[p].job, Unresolved)
  /\ guard' = [guard EXCEPT ![p] = [job |-> None, digest |-> None]]
  /\ UNCHANGED <<vars, proved, image, provider>>

\* Release a scope whose holder is settled, gone and owes no provider.
pd_release_scope(p) ==
  /\ guard[p].job # None
  /\ job[guard[p].job].state \in Terminal
  /\ exits_proved(guard[p].job)
  /\ none_in(guard[p].job, Open)
  /\ guard' = [guard EXCEPT ![p] = [job |-> None, digest |-> None]]
  /\ UNCHANGED <<vars, proved, image, provider>>

-----------------------------------------------------------------------------
(* The life of a job.                                                      *)

\* A claim of the worker class: nothing of the job may still be running and no
\* submission may be in doubt.
pd_claim(j, a) ==
  /\ resolved(j)
  /\ pq_claim(j, a)
  /\ UNCHANGED <<proved, guard, image, provider>>

\* What an ended job becomes: while a submission is in doubt it is parked,
\* whatever was asked for.
end_state(a, action) ==
  CASE action = "park" \/ ~none_in(attempt[a].job, Unresolved) -> "parked"
    [] action = "permanent" -> "dead"
    [] OTHER -> ended(attempt[a].job)

\* Confirm the exit of an attempt's process, and end the attempt if it still
\* owns its job.  Only a park that was asked for costs no budget, and only it
\* brings its own due time.
pd_end_attempt(a, action) ==
  /\ Claimed(a)
  /\ proved' = proved \cup {a}
  /\ IF action = "confirm_exit" \/ ~pq_owns(a) THEN UNCHANGED vars
     ELSE LET s == end_state(a, action)
              waits == CASE action = "park" -> 0..WaitTicks
                         [] action = "release" \/ s = "dead" -> {0}
                         [] OTHER -> 1..WaitTicks
          IN terminate(a, s, s, waits, action = "park")
  /\ UNCHANGED <<guard, image, provider>>

\* Record a success, of a process that is gone and owes no provider.  The head
\* is not moved: /2 does not publish.
pd_finalize(a) ==
  /\ Claimed(a)
  /\ pq_owns(a)
  /\ a \in proved
  /\ none_in(attempt[a].job, Open)
  /\ succeed(a)
  /\ UNCHANGED <<head, proved, guard, image, provider>>

expiry_requeues(j) ==
  /\ job[j].state = "running"
  /\ job[j].lease = 0
  /\ terminate(job[j].attempt, ended(j), "expired", 1..WaitTicks, FALSE)
  /\ UNCHANGED <<proved, guard, image, provider>>

\* The reaper parks a job whose lease expired: its exit is unconfirmed.
pd_reap_expired(j) ==
  /\ job[j].state = "running"
  /\ job[j].lease = 0
  /\ terminate(job[j].attempt, "parked", "expired", 1..WaitTicks, FALSE)
  /\ UNCHANGED <<proved, guard, image, provider>>

\* The reaper returns a due parked job, once nothing of it is in doubt.
pd_reap_parked(j) ==
  /\ resolved(j)
  /\ reap_parked(j)
  /\ UNCHANGED <<proved, guard, image, provider>>

\* The calls that 000023 takes over from /1 as they are.
pd_heartbeat(a) == pq_heartbeat(a) /\ UNCHANGED <<proved, guard, image, provider>>

pd_cancel(j, v) == pq_cancel(j, v) /\ UNCHANGED <<proved, guard, image, provider>>

DelphiTick == Tick /\ UNCHANGED <<proved, guard, image, provider>>

-----------------------------------------------------------------------------
(* Paid provider work.                                                     *)

intent_beside_submitted(a, r) ==
  /\ Claimed(a)
  /\ pq_owns(a)
  /\ provider[r].state = "absent"
  /\ none_in(attempt[a].job, Unresolved)
  /\ provider' = [provider EXCEPT ![r] = [attempt |-> a, state |-> "intent"]]
  /\ UNCHANGED <<vars, proved, guard, image>>

\* The owner records that it is about to submit, if nothing else is open.
pd_provider_intent(a, r) ==
  /\ Claimed(a)
  /\ pq_owns(a)
  /\ provider[r].state = "absent"
  /\ none_in(attempt[a].job, Open)
  /\ provider' = [provider EXCEPT ![r] = [attempt |-> a, state |-> "intent"]]
  /\ UNCHANGED <<vars, proved, guard, image>>

\* What a request may become.
provider_transition(s, t) ==
  \/ s = "intent" /\ t \in {"submission_unknown", "submitted", "failed"}
  \/ s = "submission_unknown" /\ t \in {"submitted", "failed"}
  \/ s = "submitted" /\ t \in {"completed", "failed"}

submitter_may_clear(a, r, s) == pq_owns(a) \/ provider[r].attempt = a

\* The owner of the job may record any of it; a fenced submitter may record a
\* late acknowledgement, never clear paid work.
may_update(a, r, s) ==
  \/ pq_owns(a)
  \/ provider[r].attempt = a /\ s \in {"submission_unknown", "submitted"}

pd_provider_update(a, r, s) ==
  /\ Claimed(a)
  /\ r \in RequestsOf(attempt[a].job)
  /\ may_update(a, r, s)
  /\ provider_transition(provider[r].state, s)
  /\ provider' = [provider EXCEPT ![r].state = s]
  /\ UNCHANGED <<vars, proved, guard, image>>

-----------------------------------------------------------------------------
DelphiWorkerCall(a) ==
  \/ pd_heartbeat(a)
  \/ pd_finalize(a)
  \/ \E action \in {"confirm_exit", "retry", "permanent", "release", "park"} :
       pd_end_attempt(a, action)
  \/ \E r \in Requests :
       \/ pd_provider_intent(a, r)
       \/ \E s \in {"submission_unknown", "submitted", "completed", "failed"} :
            pd_provider_update(a, r, s)

DelphiNext ==
  \/ \E p \in Products, k \in Keys, d \in Digests :
       \/ \E j \in Jobs, i \in Images : pd_admit(p, k, d, j, i)
       \/ pd_alias(p, k, d)
  \/ \E p \in Products, k \in Keys : binding_expires(p, k)
  \/ \E p \in Products : pd_release_scope(p)
  \/ \E j \in Jobs, a \in Attempts : pd_claim(j, a)
  \/ \E a \in Attempts : DelphiWorkerCall(a)
  \/ \E j \in Jobs : pd_reap_expired(j) \/ pd_reap_parked(j)
  \/ \E j \in Jobs : pd_cancel(j, job[j].mgmt)
  \/ DelphiTick

DelphiSpec == DelphiInit /\ [][DelphiNext]_delphiVars

-----------------------------------------------------------------------------
(* Safety.                                                                 *)

\* Every row has the columns and the ranges its table declares.
DelphiTypeOK ==
  /\ TypeOK
  /\ proved \subseteq Attempts
  /\ guard \in [Products -> GuardRow]
  /\ image \in [Jobs -> Images \cup {None}]
  /\ provider \in [Requests -> ProviderRow]

\* The rows point at each other as the functions that follow them assume: of a
\* running job only the owner's process may be alive; a guard holds a job of
\* its scope, and every key bound to that job asked for the same.
RunningLinked ==
  \A j \in Jobs :
    IF job[j].state = "running"
    THEN /\ job[j].attempt \in AttemptsOf(j)
         /\ AttemptsOf(j) \ {job[j].attempt} \subseteq proved
    ELSE job[j].attempt = None

ProvidersLinked ==
  \A r \in Requests :
    IF provider[r].state = "absent" THEN provider[r].attempt = None
    ELSE provider[r].attempt \in Attempts /\ Claimed(provider[r].attempt)

GuardsLinked ==
  \A p \in Products : guard[p].job # None =>
    job[guard[p].job].state # "absent" /\ run[guard[p].job].product = p

KeysLinked ==
  \A s \in Products \X Keys : request[s].job # None =>
    /\ job[request[s].job].state # "absent"
    /\ \A p \in Products :
         guard[p].job = request[s].job => guard[p].digest = request[s].digest

ProductsLinked ==
  \A j \in Jobs : job[j].state # "absent" => run[j].product \in Products

DelphiLinked ==
  /\ AttemptsLinked /\ RunningLinked /\ ProvidersLinked
  /\ GuardsLinked /\ KeysLinked /\ ProductsLinked

\* Something of the job is to be done, may be running, or is owed.
Busy(j) ==
  /\ job[j].state # "absent"
  /\ ~(job[j].state \in Terminal /\ exits_proved(j) /\ none_in(j, Open))

\* At most one attempt of a job may have a live process: whatever expires, is
\* cancelled or replayed, a second process is never started beside one whose
\* exit nobody proved (pq_claim, pq_reap_one, pq_end_attempt).
OneProcess ==
  \A a, b \in Attempts :
    a \notin proved /\ b \notin proved /\ Claimed(a) /\ Claimed(b) /\ a # b
      => attempt[a].job # attempt[b].job

\* A job that waits for a claim is fit for one: no process of it may be alive
\* and no submission of it is in doubt, so no child starts by submitting what
\* an earlier one may have submitted (pq_end_attempt, pq_reap_one).
WaitingIsResolved == \A j \in Jobs : job[j].state \in Waiting => resolved(j)

\* A busy job holds its scope: two jobs of one scope are never at work
\* together, however late the processes, cancels and provider calls of the
\* first (pd_enqueue, pd_release_scope).
ScopeHeld == \A j \in Jobs : Busy(j) => guard[run[j].product].job = j

\* One paid request at a time per job, across all its attempts, and none left
\* open, nor a process unproved, behind a success (pd_provider_intent,
\* pd_finalize).
ProviderWorkSettled ==
  \A j \in Jobs :
    /\ \A r, s \in RequestsOf(j) :
         provider[r].state \in Open /\ provider[s].state \in Open => r = s
    /\ job[j].state = "succeeded" => resolved(j) /\ none_in(j, Open)

\* Whatever a key is bound to was asked for with the key's own digest: keys
\* bound to one job agree, also those bound before the scope was last given
\* up (pd_enqueue).
AliasesAgree ==
  \A s, t \in Products \X Keys :
    request[s].job # None /\ request[s].job = request[t].job
      => request[s].digest = request[t].digest

\* A scope never has more than PoisonLimit dead runs in a row under one image,
\* however its jobs died (pd_enqueue).
PoisonBounds ==
  \A p \in Products, i \in Images : \A g \in DeadUnder(p, i) :
    ~ (g..(g + PoisonLimit) \subseteq DeadUnder(p, i))

\* Paid work is cleared only under a live lease of its job: work still open
\* when a job settles stays on record for an operator (pd_provider_update).
PaidWorkClearedByOwner ==
  [][\A j \in Jobs, r \in Requests :
       r \in RequestsOf(j) /\ provider[r].state \in Open
         /\ provider'[r].state \notin Open
       => job[j].state = "running" /\ job[j].lease > 0]_delphiVars

\* A fenced token stays fenced under the /2 calls too.
TokenStaysFenced ==
  [][\A a \in Attempts : Claimed(a) /\ ~pq_owns(a) => ~pq_owns(a)']_delphiVars

-----------------------------------------------------------------------------
(* The guards implement the scope lock the callers rely on.                *)

Activity == [j \in Jobs |-> IF job[j].state = "absent" THEN "absent"
                           ELSE IF Busy(j) THEN "busy" ELSE "quiet"]
Holder == [p \in Products |-> guard[p].job]

Scopes == INSTANCE ScopeLock WITH activity <- Activity, holder <- Holder

\* Each scope has one holder at a time, from admission until it is quiet, and
\* quiet for good: the guards are a ScopeLock.
ImplementsScopeLock == Scopes!Spec
=============================================================================
