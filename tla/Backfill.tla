------------------------------ MODULE Backfill ------------------------------
(***************************************************************************)
(* polismath.poller.backfill: the scheduler that repairs the publications  *)
(* of conversations nobody votes in, beside the live work of the poller.   *)
(*                                                                         *)
(* A sweep reads the source conversations largest first and admits those   *)
(* whose target publication is missing, incomplete, invalid or stale, one  *)
(* message each, into the pool that also carries live work: one worker per *)
(* conversation drains both.  Other writers of the target are the live     *)
(* runs of that worker and the promotions of conversations that were       *)
(* routed to the large class.                                              *)
(*                                                                         *)
(* Votes are numbered by time.  A publication is known by its state (a row *)
(* without all its companions counts as missing) and its newest vote; its  *)
(* tick, which every publication moves, only as whether it has moved since *)
(* a job looked.  Waiting (pacing, pressure, the vote budget, backoff) is  *)
(* left to chance; the memory of a job is in MemoryAdmission, the cached   *)
(* conversations it drops are in MathPoller.  The state file is kept, so   *)
(* what is saved outlives the process.                                     *)
(*                                                                         *)
(* A definition whose comment starts with "Slip:" is wrong on purpose: it  *)
(* is put in the place of the one after it to see a property fail.         *)
(***************************************************************************)
EXTENDS Naturals, Sequences, FiniteSets, Functions

CONSTANTS
  Order,         \* the source conversations, by participants, largest first
  PageSize, Concurrency,
  Large,         \* jobs that run alone
  MaxInput,      \* max_votes, or what the memory ceiling holds
  SourceAhead,   \* the source may claim a vote the table does not hold
  Accept,        \* MATH_BACKFILL_SOURCE_AHEAD_RULING = accept_input
  GateAfter,     \* gate_after_largest
  MaxAttempts,   \* max_attempts
  Voted,         \* conversations that get votes
  MaxVotes,      \* bound on their votes
  MaxFaults,     \* bound on failures, refusals, promotions and restarts
  MaxSignals,    \* bound on SIGUSR2
  None

Targets == Range(Order)

ASSUME BackfillAssumption ==
  /\ Order \in Seq(Targets)
  /\ {None, "count"} \cap Targets = {} /\ None # "count"
  /\ Large \cup SourceAhead \cup Voted \subseteq Targets
  /\ PageSize \in Nat \ {0} /\ Concurrency \in Nat \ {0}
  /\ {MaxInput, GateAfter, MaxAttempts, MaxVotes, MaxFaults, MaxSignals} \subseteq Nat

VARIABLES
  row,          \* the target publication of each conversation
  source,       \* the newest vote its source row claims
  newest,       \* its newest vote in the table
  polled,       \* the newest vote live ingestion has delivered
  cutoff,       \* votes before it are outside the grace window
  routed,       \* conversations of the large class
  queued,       \* pool: what waits for each conversation
  worker,       \* pool: its worker
  parked,       \* pool
  in_flight,    \* _in_flight
  choosing,     \* what the step that holds _lock is about to do
  buffer,       \* _buffer
  cursor,       \* _cursor, as how many of Order were read; _sweep_end at the end
  seen,         \* _sweep_seen > 0
  failures,     \* saved: failures
  paused,       \* saved: paused
  approved,     \* saved: gate_approved
  gated,        \* saved: gate_published
  reported,     \* _gate_logged
  drained,      \* _drained_ms is set
  status,       \* of the last finished sweep
  faults, signals

database == <<row, source, newest, cutoff>>
pool == <<queued, worker, parked>>
sweep == <<buffer, cursor, seen, status>>
gate == <<approved, gated, reported>>
bounds == <<faults, signals>>
bvars == <<database, polled, routed, pool, in_flight, choosing, sweep, failures,
           paused, gate, drained, bounds>>

Resting == [at |-> "idle", job |-> FALSE, outcome |-> "none", clean |-> TRUE,
            claims |-> 0, lvt |-> 0]
NoFailure == [reason |-> "none", attempts |-> 0]
Rows == [state : {"missing", "invalid"}, lvt : {0}]
          \cup [state : {"valid"}, lvt : 0..1]

BackfillInit ==
  /\ row \in [Targets -> Rows]
  /\ \E claim \in SUBSET SourceAhead :
       source = [z \in Targets |-> IF z \in claim THEN 2 ELSE 1]
  /\ newest = [z \in Targets |-> 1]
  /\ polled = [z \in Targets |-> 1]
  /\ cutoff = 1
  /\ routed = {}
  /\ queued = [z \in Targets |-> {}]
  /\ worker = [z \in Targets |-> Resting]
  /\ parked = {}
  /\ in_flight = {}
  /\ choosing = None
  /\ buffer = <<>> /\ cursor = 0 /\ seen = FALSE /\ status = "none"
  /\ failures = [z \in Targets |-> NoFailure]
  /\ paused = FALSE /\ approved = FALSE /\ gated = 0 /\ reported = FALSE
  /\ drained = FALSE
  /\ faults = 0 /\ signals = 0

Fault == faults < MaxFaults /\ faults' = faults + 1

-----------------------------------------------------------------------------
(* What a publication needs                                                *)

behind(r, claims) == r.lvt < claims
source_ahead(r, claims, n) == behind(r, claims) /\ r.lvt >= n

classify(z) ==
  IF row[z].state # "valid" THEN row[z].state
  ELSE IF /\ behind(row[z], source[z])
          /\ ~(Accept /\ source_ahead(row[z], source[z], newest[z]))
          /\ row[z].lvt < cutoff
         THEN "stale" ELSE "none"

Needs(z) == classify(z) # "none"

\* _caught_up_outcome.
caught_up_outcome(r, claims, n) ==
  IF ~behind(r, claims) THEN "already_complete"
  ELSE IF ~source_ahead(r, claims, n) THEN "live_owned"
  ELSE IF Accept THEN "source_ahead_accepted" ELSE "source_ahead"

Complete == {"published", "superseded_live", "already_complete", "source_ahead_accepted"}
Failed == {"failed_compute", "failed_write", "failed_postcondition", "lost"}

\* Slip: a job without memory waits for a decision, as one that is refused.
deferred_with_memory == {"live_owned", "parked_live"}

Deferred == {"memory_headroom", "live_owned", "parked_live"}
Excluded == {"source_ahead", "refused"}

\* _record: the saved failure and the gate's count.
record(z, outcome) ==
  LET attempts == failures[z].attempts + 1
  IN  /\ failures' = [failures EXCEPT ![z] =
           IF outcome \in Complete THEN NoFailure
           ELSE IF outcome \in Failed
             THEN [reason |-> IF attempts >= MaxAttempts THEN "exhausted" ELSE "wait",
                   attempts |-> attempts]
           ELSE IF outcome \in Deferred THEN [@ EXCEPT !.reason = "wait"]
           ELSE [reason |-> outcome, attempts |-> 0]]
      /\ gated' = IF outcome = "published" /\ ~approved /\ ~reported /\ gated < GateAfter
                    THEN gated + 1 ELSE gated

-----------------------------------------------------------------------------
(* The pool and live work                                                  *)

Pending == {z \in Targets : worker[z].at # "idle"}
woken(z) == IF worker[z].at = "idle" THEN [worker EXCEPT ![z].at = "loop"] ELSE worker

Vote(z) ==
  /\ z \in Voted
  /\ newest[z] < MaxVotes
  /\ newest' = [newest EXCEPT ![z] = @ + 1]
  /\ UNCHANGED <<row, source, cutoff, polled, routed, pool, in_flight, choosing, sweep,
                 failures, paused, gate, drained, bounds>>

\* The source label is published by another process.
SourceRow(z) ==
  /\ source[z] < newest[z]
  /\ source' = [source EXCEPT ![z] = newest[z]]
  /\ UNCHANGED <<row, newest, cutoff, polled, routed, pool, in_flight, choosing, sweep,
                 failures, paused, gate, drained, bounds>>

Grace ==
  /\ cutoff < MaxVotes
  /\ cutoff' = cutoff + 1
  /\ UNCHANGED <<row, source, newest, polled, routed, pool, in_flight, choosing, sweep,
                 failures, paused, gate, drained, bounds>>

\* The vote poll un-parks the conversation and submits its new votes; the
\* reconciler un-parks it and asks for a rebuild.
Deliver(z) ==
  /\ polled[z] < newest[z] \/ z \in parked
  /\ polled' = [polled EXCEPT ![z] = newest[z]]
  /\ parked' = parked \ {z}
  /\ queued' = [queued EXCEPT ![z] = @ \cup {"live"}]
  /\ worker' = woken(z)
  /\ UNCHANGED <<database, routed, in_flight, choosing, sweep, failures, paused, gate,
                 drained, bounds>>

\* _run: nothing left, or parked.
Rest(z) ==
  /\ worker[z].at = "loop"
  /\ queued[z] = {} \/ z \in parked
  /\ queued' = [queued EXCEPT ![z] = {}]
  /\ worker' = [worker EXCEPT ![z] = Resting]
  /\ UNCHANGED <<database, polled, routed, parked, in_flight, choosing, sweep, failures,
                 paused, gate, drained, bounds>>

\* _run drains all that is queued; _handle_zid runs the job only on its own.
Drain(z) ==
  /\ worker[z].at = "loop"
  /\ queued[z] # {} /\ z \notin parked
  /\ queued' = [queued EXCEPT ![z] = {}]
  /\ worker' = [worker EXCEPT ![z] =
       [Resting EXCEPT !.at = IF "live" \in queued[z] THEN "live" ELSE "start",
                       !.job = "job" \in queued[z]]]
  /\ UNCHANGED <<database, polled, routed, parked, in_flight, choosing, sweep, failures,
                 paused, gate, drained, bounds>>

\* What a job has to report.
answers(z, outcome) ==
  [worker EXCEPT ![z] =
     [Resting EXCEPT !.at = "report", !.job = TRUE, !.outcome = outcome]]

\* Live work is over; a job that was drained with it is answered for.
after_live(z, outcome) ==
  IF worker[z].job THEN answers(z, outcome)
                   ELSE [worker EXCEPT ![z] = [Resting EXCEPT !.at = "loop"]]

rewritten(z, lvt) ==
  row' = [row EXCEPT ![z] = [state |-> "valid", lvt |-> lvt]]

LiveRun(z) ==
  /\ worker[z].at = "live"
  /\ z \notin routed
  /\ \E lvt \in polled[z]..newest[z] : lvt >= row[z].lvt /\ rewritten(z, lvt)
  /\ worker' = after_live(z, "superseded_live")
  /\ UNCHANGED <<source, newest, cutoff, polled, routed, queued, parked, in_flight, choosing,
                 sweep, failures, paused, gate, drained, bounds>>

\* A routed conversation is not computed here.
LiveRouted(z) ==
  /\ worker[z].at = "live"
  /\ z \in routed
  /\ worker' = after_live(z, "live_owned")
  /\ UNCHANGED <<database, polled, routed, queued, parked, in_flight, choosing, sweep,
                 failures, paused, gate, drained, bounds>>

\* Retried, or parked, and what was queued is dropped.
LiveFails(z) ==
  /\ worker[z].at = "live"
  /\ Fault
  /\ \/ queued' = [queued EXCEPT ![z] = @ \cup {"live"}] /\ UNCHANGED parked
     \/ queued' = [queued EXCEPT ![z] = {}] /\ parked' = parked \cup {z}
  /\ worker' = after_live(z, "live_owned")
  /\ UNCHANGED <<database, polled, routed, in_flight, choosing, sweep, failures, paused,
                 gate, drained, signals>>

\* The capacity router routes a conversation ...
Route(z) ==
  /\ z \notin routed
  /\ Fault
  /\ routed' = routed \cup {z}
  /\ UNCHANGED <<database, polled, pool, in_flight, choosing, sweep, failures, paused, gate,
                 drained, signals>>

\* ... or takes it back and has it rebuilt.
TakeBack(z) ==
  /\ z \in routed
  /\ routed' = routed \ {z}
  /\ IF z \in parked THEN UNCHANGED <<queued, worker>> ELSE
       /\ queued' = [queued EXCEPT ![z] = @ \cup {"live"}]
       /\ worker' = woken(z)
  /\ UNCHANGED <<database, polled, parked, in_flight, choosing, sweep, failures, paused,
                 gate, drained, bounds>>

\* promote_bundle: a newer bundle of the large class takes the place of the row.
Promote(z) ==
  /\ z \in routed
  /\ \E lvt \in row[z].lvt..newest[z] :
       /\ rewritten(z, lvt)
       /\ IF lvt = row[z].lvt THEN Fault ELSE UNCHANGED faults
  /\ worker' = [worker EXCEPT ![z].clean = worker[z].at \notin {"load", "write"}]
  /\ UNCHANGED <<source, newest, cutoff, polled, routed, queued, parked, in_flight, choosing, sweep,
                 failures, paused, gate, drained, signals>>

-----------------------------------------------------------------------------
(* BackfillScheduler.step, which holds _lock                               *)

\* Slip: only what is queued counts as pending, not what a worker has taken.
lost_when_drained == {z \in in_flight : queued[z] = {}}

Lost == in_flight \ Pending

\* _reap_lost: the pool dropped the message when it parked the conversation.
Reap(z) ==
  /\ choosing = None
  /\ z \in Lost
  /\ in_flight' = in_flight \ {z}
  /\ record(z, "lost")
  /\ UNCHANGED <<database, polled, routed, pool, choosing, sweep, paused, approved,
                 reported, drained, bounds>>

Free == choosing = None /\ Lost = {}

\* Slip: the stop is confirmed while jobs still run.
Drained_at_once ==
  /\ Free /\ paused /\ ~drained
  /\ drained' = TRUE
  /\ UNCHANGED <<database, polled, routed, pool, in_flight, choosing, sweep, failures,
                 paused, gate, bounds>>

\* Paused by the operator, nothing in flight.
Drained ==
  /\ Free /\ paused /\ ~drained
  /\ in_flight = {}
  /\ drained' = TRUE
  /\ UNCHANGED <<database, polled, routed, pool, in_flight, choosing, sweep, failures,
                 paused, gate, bounds>>

Resumed ==
  /\ Free /\ ~paused /\ drained
  /\ drained' = FALSE
  /\ UNCHANGED <<database, polled, routed, pool, in_flight, choosing, sweep, failures,
                 paused, gate, bounds>>

gate_pending == GateAfter > 0 /\ ~approved /\ gated >= GateAfter

\* _log_gate_once, when the last job of the window has reported.
ReportGate ==
  /\ Free /\ ~paused /\ ~drained
  /\ gate_pending /\ in_flight = {} /\ ~reported
  /\ reported' = TRUE
  /\ UNCHANGED <<database, polled, routed, pool, in_flight, choosing, sweep, failures,
                 paused, approved, gated, drained, bounds>>

Admitting ==
  /\ Free /\ ~paused /\ ~drained /\ ~gate_pending
  /\ Cardinality(in_flight) < Concurrency /\ in_flight \cap Large = {}
  /\ Pending \subseteq in_flight

\* _eligible; a failure that waits may be due.
Eligible(due) ==
  {z \in Targets \ (in_flight \cup routed) :
     failures[z].reason = "none" \/ (failures[z].reason = "wait" /\ z \in due)}

\* _next_target: what the buffer holds and, as far as needed, the next pages.
Min2(a, b) == IF a < b THEN a ELSE b
Ends == {Min2(cursor + p * PageSize, Len(Order)) : p \in 0..Len(Order)}
line(end) == buffer \o SelectSeq(SubSeq(Order, cursor + 1, end), Needs)
Enough(end, open) == Range(line(end)) \cap open # {}
reads_to(end, open) ==
  /\ Enough(end, open) \/ end = Len(Order)
  /\ \A e \in Ends : e < end => ~Enough(e, open)

\* The line has been read up to position i.
read_up_to(i, end) ==
  /\ buffer' = SubSeq(line(end), i + 1, Len(line(end)))
  /\ cursor' = end
  /\ seen' = (seen \/ \E k \in cursor + 1..end : Needs(Order[k]))

\* z, at position i of the line, is the first that is eligible.
next_target(z, due, i, end) ==
  /\ z \in Eligible(due)
  /\ reads_to(end, Eligible(due))
  /\ line(end)[i] = z
  /\ \A k \in 1..(i - 1) : line(end)[k] \notin Eligible(due)

\* Too large for this process, whatever else it holds.
Refuse(z, due) ==
  /\ Admitting
  /\ z \in Large => in_flight = {}
  /\ newest[z] > MaxInput
  /\ \E end \in Ends : \E i \in DOMAIN line(end) :
       next_target(z, due, i, end) /\ read_up_to(i, end)
  /\ record(z, "refused")
  /\ UNCHANGED <<database, polled, routed, pool, in_flight, choosing, status, paused,
                 approved, reported, drained, bounds>>

\* Put back: it must run alone, or the vote budget is used up.
PutBack(z, due) ==
  /\ Admitting
  /\ in_flight # {} \/ newest[z] <= MaxInput
  /\ \E end \in Ends : \E i \in DOMAIN line(end) :
       next_target(z, due, i, end) /\ read_up_to(i - 1, end)
  /\ UNCHANGED <<database, polled, routed, pool, in_flight, choosing, status, failures,
                 paused, gate, drained, bounds>>

Admit(z, due) ==
  /\ Admitting
  /\ newest[z] <= MaxInput
  /\ z \in Large => in_flight = {}
  /\ \E end \in Ends : \E i \in DOMAIN line(end) :
       next_target(z, due, i, end) /\ read_up_to(i, end)
  /\ in_flight' = in_flight \cup {z}
  /\ choosing' = z
  /\ UNCHANGED <<database, polled, routed, pool, status, failures, paused, gate, drained,
                 bounds>>

\* host.submit: the pool takes the message unless the conversation is parked.
Submit(z) ==
  /\ choosing = z
  /\ choosing' = None
  /\ IF z \in parked
       THEN /\ in_flight' = in_flight \ {z}
            /\ record(z, "parked_live")
            /\ UNCHANGED <<queued, worker>>
       ELSE /\ queued' = [queued EXCEPT ![z] = @ \cup {"job"}]
            /\ worker' = woken(z)
            /\ UNCHANGED <<in_flight, failures, gated>>
  /\ UNCHANGED <<database, polled, routed, parked, sweep, paused, approved, reported,
                 drained, bounds>>

\* _finish_sweep: failures whose publication is valid and caught up are forgotten,
\* when they can be read ...
repaired(z) ==
  ~Needs(z) /\ caught_up_outcome(row[z], source[z], newest[z])
                 \in {"already_complete", "source_ahead_accepted"}

Reconcile(due) ==
  /\ Admitting /\ in_flight = {}
  /\ reads_to(Len(Order), Eligible(due))
  /\ ~Enough(Len(Order), Eligible(due))
  /\ read_up_to(Len(line(Len(Order))), Len(Order))
  /\ \/ /\ failures' = [z \in Targets |-> IF repaired(z) THEN NoFailure ELSE failures[z]]
        /\ UNCHANGED faults
     \/ UNCHANGED failures /\ Fault
  /\ choosing' = "count"
  /\ UNCHANGED <<database, polled, routed, pool, status, in_flight, paused, gate,
                 drained, signals>>

\* ... and the sweep is complete when it saw nothing to do, no failure is left and
\* a fresh count over the label shows nothing either.
counted(z) ==
  \/ row[z].state = "missing"
  \/ /\ row[z].state = "valid" /\ behind(row[z], source[z])
     /\ IF source_ahead(row[z], source[z], newest[z]) THEN ~Accept
                                                      ELSE row[z].lvt < cutoff

unresolved == seen \/ \E z \in Targets : failures[z] # NoFailure

\* Slip: without the fresh count.
completion_unchecked == IF unresolved THEN "NOT_COMPLETE" ELSE "COMPLETE"

completion ==
  IF \/ unresolved
     \/ \E z \in Targets : counted(z)
     \/ parked # {}
    THEN "NOT_COMPLETE" ELSE "COMPLETE"

Finish ==
  /\ choosing = "count"
  /\ choosing' = None
  /\ \/ status' = completion /\ UNCHANGED bounds
     \/ status' = "UNKNOWN" /\ ~unresolved /\ Fault /\ UNCHANGED signals
  /\ buffer' = <<>> /\ cursor' = 0 /\ seen' = FALSE
  /\ UNCHANGED <<database, polled, routed, pool, in_flight, failures, paused, gate, drained>>

-----------------------------------------------------------------------------
(* BackfillScheduler.run_job on the worker of the conversation             *)

\* Not computed when it was routed meanwhile, deferred without memory; else
\* _execute reads the target as it is now.
Start(z) ==
  /\ worker[z].at = "start"
  /\ \/ z \in routed /\ worker' = answers(z, "live_owned") /\ UNCHANGED bounds
     \/ z \notin routed /\ worker' = answers(z, "memory_headroom") /\ Fault /\ UNCHANGED signals
     \/ /\ z \notin routed /\ z \in in_flight
        /\ worker' = IF Needs(z)
             THEN [worker EXCEPT ![z] = [@ EXCEPT !.at = "load", !.clean = TRUE, !.claims = source[z]]]
             ELSE answers(z, caught_up_outcome(row[z], source[z], newest[z]))
        /\ UNCHANGED bounds
  /\ UNCHANGED <<database, polled, routed, queued, parked, in_flight, choosing, sweep,
                 failures, paused, gate, drained>>

LoadHistory(z) ==
  /\ worker[z].at = "load"
  /\ worker' = [worker EXCEPT ![z] = [@ EXCEPT !.at = "write", !.lvt = newest[z]]]
  /\ UNCHANGED <<database, polled, routed, queued, parked, in_flight, choosing, sweep,
                 failures, paused, gate, drained, bounds>>

\* Slip: whoever published first is overwritten.
untouched_or_not(z) == TRUE

\* before_publish: the row is the one that Start saw.
untouched(z) == worker[z].clean

Publish(z) ==
  /\ worker[z].at = "write"
  /\ IF untouched(z)
       THEN /\ rewritten(z, worker[z].lvt)
            /\ worker' = [worker EXCEPT ![z] = [@ EXCEPT !.at = "check", !.lvt = 0]]
       ELSE UNCHANGED row /\ worker' = answers(z, "superseded_live")
  /\ UNCHANGED <<source, newest, cutoff, polled, routed, queued, parked, in_flight, choosing,
                 sweep, failures, paused, gate, drained, bounds>>

CheckPublished(z) ==
  /\ worker[z].at = "check"
  /\ worker' = answers(z, IF behind(row[z], worker[z].claims)
                            THEN caught_up_outcome(row[z], worker[z].claims, newest[z])
                            ELSE "published")
  /\ UNCHANGED <<database, polled, routed, queued, parked, in_flight, choosing, sweep,
                 failures, paused, gate, drained, bounds>>

\* A read, the computation or the commit fails, or the answer of the commit is lost.
JobFails(z) ==
  /\ worker[z].at \in {"start", "load", "write", "check"}
  /\ worker[z].at = "start" => z \notin routed
  /\ Fault
  /\ worker' = answers(z, CASE worker[z].at = "write" -> "failed_write"
                            [] worker[z].at = "check" -> "failed_postcondition"
                            [] OTHER -> "failed_compute")
  /\ \/ UNCHANGED row
     \/ worker[z].at = "write" /\ untouched(z) /\ rewritten(z, worker[z].lvt)
  /\ UNCHANGED <<source, newest, cutoff, polled, routed, queued, parked, in_flight, choosing,
                 sweep, failures, paused, gate, drained, signals>>

\* The slot is released and the outcome recorded, under _lock.
Report(z) ==
  /\ worker[z].at = "report"
  /\ choosing = None
  /\ in_flight' = in_flight \ {z}
  /\ record(z, worker[z].outcome)
  /\ worker' = [worker EXCEPT ![z] = [Resting EXCEPT !.at = "loop"]]
  /\ UNCHANGED <<database, polled, routed, queued, parked, choosing, sweep, paused, approved,
                 reported, drained, bounds>>

-----------------------------------------------------------------------------
(* The operator, and the end of the process                                *)

\* SIGUSR2.
TogglePause ==
  /\ choosing = None
  /\ signals < MaxSignals
  /\ signals' = signals + 1
  /\ paused' = ~paused
  /\ UNCHANGED <<database, polled, routed, pool, in_flight, choosing, sweep, failures, gate,
                 drained, faults>>

\* SIGUSR1, once the gate was reported.
ApproveGate ==
  /\ choosing = None
  /\ reported /\ ~approved
  /\ approved' = TRUE
  /\ UNCHANGED <<database, polled, routed, pool, in_flight, choosing, sweep, failures, paused,
                 gated, reported, drained, bounds>>

\* The process ends at any point and starts again: the database and the state file
\* stay, and the votes of the last days are polled again.
Restart ==
  /\ Fault
  /\ polled' = [z \in Targets |-> 1]
  /\ queued' = [z \in Targets |-> {}]
  /\ worker' = [z \in Targets |-> Resting]
  /\ parked' = {}
  /\ in_flight' = {} /\ choosing' = None
  /\ buffer' = <<>> /\ cursor' = 0 /\ seen' = FALSE /\ status' = "none"
  /\ reported' = FALSE /\ drained' = FALSE
  /\ UNCHANGED <<database, routed, failures, paused, approved, gated, signals>>

-----------------------------------------------------------------------------
LiveStep(z) == Rest(z) \/ Drain(z) \/ LiveRun(z) \/ LiveRouted(z)
JobStep(z) ==
  Start(z) \/ LoadHistory(z) \/ Publish(z) \/ CheckPublished(z) \/ Report(z)
Environment(z) == Vote(z) \/ SourceRow(z) \/ Route(z) \/ TakeBack(z) \/ Promote(z)

BackfillNext ==
  \/ \E z \in Targets :
       \/ LiveStep(z) \/ LiveFails(z) \/ JobStep(z) \/ JobFails(z)
       \/ Submit(z) \/ Reap(z) \/ Deliver(z) \/ Environment(z)
       \/ \E due \in SUBSET Targets : Refuse(z, due) \/ PutBack(z, due) \/ Admit(z, due)
  \/ \E due \in SUBSET Targets : Reconcile(due)
  \/ Grace \/ Finish \/ Drained \/ Resumed \/ ReportGate
  \/ TogglePause \/ ApproveGate \/ Restart

\* A decision on targets that are all due.
Decide == Reconcile(Targets) \/ \E z \in Targets : Refuse(z, Targets) \/ Admit(z, Targets)

\* Workers, the scheduler and the live poll go on, and targets become due.  The
\* operator, new votes, routing and failures owe nothing.
BackfillFair ==
  /\ \A z \in Targets :
       /\ WF_bvars(LiveStep(z)) /\ WF_bvars(JobStep(z)) /\ WF_bvars(Deliver(z))
       /\ WF_bvars(Submit(z)) /\ WF_bvars(Reap(z))
  /\ SF_bvars(Decide) /\ WF_bvars(Finish) /\ WF_bvars(Resumed)

BackfillSpec == BackfillInit /\ [][BackfillNext]_bvars /\ BackfillFair

-----------------------------------------------------------------------------
(* Properties                                                              *)

JobAt(z) == worker[z].job \/ "job" \in queued[z]

\* A job in the pool has its slot until it has reported: run_job says "admitted
\* jobs always have an entry".
JobsHaveSlots == \A z \in Targets : JobAt(z) => z \in in_flight

\* DRAINED, and the report of the gate, mean that no job is queued or running, and
\* none starts before the operator has said so.
QuietWhenStopped ==
  drained \/ (reported /\ ~approved) => \A z \in Targets : ~JobAt(z)

\* A publication is never replaced by an older one, whatever was promoted or voted
\* while a job ran: "the live write wins".
NeverOlder ==
  [][\A z \in Targets : row'[z] # row[z] => row'[z].lvt >= row[z].lvt]_bvars

\* COMPLETE is the truth at that moment: every publication is there, whole, valid
\* and as new as its source or left to live work.
CompleteIsTrue ==
  [][status' = "COMPLETE" /\ choosing = "count" /\ choosing' = None =>
       /\ in_flight = {}
       /\ \A z \in Targets : ~Needs(z)]_bvars

\* When the operator stops pausing and the gate does not hold, every publication
\* is repaired in the end, or a failure that needs a decision is on record.
EveryTargetSettles ==
  <>[](~paused /\ ~gate_pending /\ routed = {}) =>
    <>[](\A z \in Targets : Needs(z) => failures[z].reason \in {"exhausted"} \cup Excluded)
=============================================================================
