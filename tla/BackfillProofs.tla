--------------------------- MODULE BackfillProofs ---------------------------
(***************************************************************************)
(* Proofs about Backfill, for any list of conversations, page size,        *)
(* concurrency and bounds.                                                 *)
(*                                                                         *)
(* BackfillInv is the conjunction of the types and of four facts that do   *)
(* not need one another: Slots, what a job in the pool, its slot and the   *)
(* step that admits it have to do with each other; Stopped, a confirmed    *)
(* stop leaves no slot taken; Fresh, no job is about to write something    *)
(* older than the row it saw; Swept, an invalid row that the sweep has     *)
(* passed was seen.                                                        *)
(***************************************************************************)
EXTENDS Backfill, TLAPS

Places == {"idle", "loop", "live", "start", "load", "write", "check", "report"}
Row == [state : {"missing", "invalid", "valid"}, lvt : Nat]
Outcomes == {"none"} \cup Complete \cup Failed \cup Deferred \cup Excluded
Worker == [at : Places, job : BOOLEAN, outcome : Outcomes, clean : BOOLEAN,
           claims : Nat, lvt : Nat]

\* The types of what the steps compute with.
Typed ==
  /\ row \in [Targets -> Row]
  /\ source \in [Targets -> Nat]
  /\ newest \in [Targets -> Nat]
  /\ polled \in [Targets -> Nat]
  /\ queued \in [Targets -> SUBSET {"live", "job"}]
  /\ worker \in [Targets -> Worker]

\* A job holds a slot wherever it is, and is in one place.
Slots(z) ==
  /\ JobAt(z) => z \in in_flight
  /\ ~(worker[z].job /\ "job" \in queued[z])
  /\ choosing = z => z \in in_flight /\ ~JobAt(z)
  /\ worker[z].at \in {"idle", "loop"} => ~worker[z].job
  /\ worker[z].at \in {"start", "load", "write", "check", "report"} => worker[z].job
  /\ worker[z].at = "idle" => queued[z] = {}

\* A stop that is confirmed, and a gate that is waited at, find the slots free.
Stopped ==
  /\ drained => in_flight = {}
  /\ reported /\ ~approved =>
       in_flight = {} /\ GateAfter > 0 /\ gated >= GateAfter

\* What is about to be written is as new as what was ever there, and an
\* untouched row is no newer.
Fresh(z) ==
  /\ row[z].lvt <= newest[z]
  /\ worker[z].at = "write" =>
       /\ worker[z].lvt <= newest[z]
       /\ worker[z].clean => row[z].lvt <= worker[z].lvt

\* The sweep has seen every row behind its cursor that was invalid.
Swept ==
  /\ cursor \in 0..Len(Order)
  /\ \A k \in 1..cursor : row[Order[k]].state = "invalid" => seen
  /\ choosing = "count" => cursor = Len(Order) /\ in_flight = {}

BackfillInv ==
  /\ Typed
  /\ \A z \in Targets : Slots(z)
  /\ Stopped
  /\ \A z \in Targets : Fresh(z)
  /\ Swept

\* Every step keeps the slots: what puts a job in the pool, takes it out or gives
\* its slot back does so together.
LEMMA SlotsStep ==
  ASSUME BackfillInv, [BackfillNext]_bvars
  PROVE  (\A y \in Targets : Slots(y))'
<1> USE BackfillAssumption DEF BackfillInv, Typed, Slots, JobAt, Resting, woken,
   answers, after_live, Free, Admitting, Pending, Lost,
  Eligible, Places, Worker, database, pool, sweep, gate, bounds, bvars
<1> SUFFICES ASSUME NEW y \in Targets PROVE Slots(y)'
  OBVIOUS
<1>1. ASSUME NEW z \in Targets, Rest(z) PROVE Slots(y)'
  BY <1>1 DEF Rest
<1>2. ASSUME NEW z \in Targets, Drain(z) PROVE Slots(y)'
  <2>1. CASE y = z
    <3>1. ~worker[z].job
      BY <1>2 DEF Drain
    <3>2. queued'[z] = {} /\ worker'[z].job = ("job" \in queued[z])
      BY <1>2 DEF Drain
    <3>3. worker'[z].at = IF "live" \in queued[z] THEN "live" ELSE "start"
      BY <1>2 DEF Drain
    <3>4. queued[z] \in SUBSET {"live", "job"} /\ queued[z] # {}
      BY <1>2 DEF Drain
    <3>5. CASE "job" \in queued[z]
      <4>1. worker'[z].job /\ z \in in_flight'
        BY <1>2, <3>2, <3>5 DEF Drain
      <4> QED
        BY <1>2, <2>1, <3>2, <3>3, <3>5, <4>1 DEF Drain
    <3>6. CASE "job" \notin queued[z]
      <4>0. PICK q \in queued[z] : TRUE
        BY <3>4
      <4>1. "live" \in queued[z]
        BY <3>4, <3>6, <4>0
      <4>2. worker'[z].job = FALSE /\ worker'[z].at = "live"
        BY <1>2, <3>6, <4>1, SMTT(40) DEF Drain
      <4> QED
        BY <1>2, <2>1, <3>2, <4>2 DEF Drain
    <3> QED
      BY <3>5, <3>6
  <2>2. CASE y # z
    BY <1>2, <2>2 DEF Drain
  <2> QED
    BY <2>1, <2>2
<1>3. ASSUME NEW z \in Targets, LiveRun(z) PROVE Slots(y)'
  BY <1>3 DEF LiveRun
<1>4. ASSUME NEW z \in Targets, LiveRouted(z) PROVE Slots(y)'
  BY <1>4 DEF LiveRouted
<1>5. ASSUME NEW z \in Targets, LiveFails(z) PROVE Slots(y)'
  BY <1>5, SMTT(40) DEF LiveFails
<1>6. ASSUME NEW z \in Targets, Start(z) PROVE Slots(y)'
  <2>1. CASE y = z
    <3>1. worker[z].at = "start" /\ worker[z].job
      BY <1>6 DEF Start
    <3>2. \/ worker' = [worker EXCEPT ![z] = [worker[z] EXCEPT !.at = "load", !.clean = TRUE, !.claims = source[z]]]
          \/ \E o : worker' = answers(z, o)
      BY <1>6 DEF Start
    <3>3. CASE worker' = [worker EXCEPT ![z] = [worker[z] EXCEPT !.at = "load", !.clean = TRUE, !.claims = source[z]]]
      <4>1. worker'[z].at = "load" /\ worker'[z].job = worker[z].job
        BY <3>3
      <4> QED
        BY <1>6, <2>1, <3>1, <4>1 DEF Start
    <3>4. CASE \E o : worker' = answers(z, o)
      <4>1. worker'[z].at = "report" /\ worker'[z].job
        BY <3>4
      <4> QED
        BY <1>6, <2>1, <3>1, <4>1 DEF Start
    <3> QED
      BY <3>2, <3>3, <3>4
  <2>2. CASE y # z
    BY <1>6, <2>2, SMTT(40) DEF Start
  <2> QED
    BY <2>1, <2>2
<1>7. ASSUME NEW z \in Targets, LoadHistory(z) PROVE Slots(y)'
  BY <1>7, SMTT(40) DEF LoadHistory
<1>8. ASSUME NEW z \in Targets, Publish(z) PROVE Slots(y)'
  <2>1. CASE y = z
    <3>1. worker[z].at = "write" /\ worker[z].job
      BY <1>8 DEF Publish
    <3>2. CASE untouched(z)
      <4>1. worker' = [worker EXCEPT ![z] = [worker[z] EXCEPT !.at = "check", !.lvt = 0]]
        BY <1>8, <3>2 DEF Publish
      <4>2. worker'[z].at = "check" /\ worker'[z].job = worker[z].job
        BY <4>1
      <4> QED
        BY <1>8, <2>1, <3>1, <4>2 DEF Publish
    <3>3. CASE ~untouched(z)
      <4>1. worker' = answers(z, "superseded_live")
        BY <1>8, <3>3 DEF Publish
      <4>2. worker'[z].at = "report" /\ worker'[z].job
        BY <4>1
      <4> QED
        BY <1>8, <2>1, <3>1, <4>2 DEF Publish
    <3> QED
      BY <3>2, <3>3
  <2>2. CASE y # z
    BY <1>8, <2>2, SMTT(40) DEF Publish
  <2> QED
    BY <2>1, <2>2
<1>9. ASSUME NEW z \in Targets, CheckPublished(z) PROVE Slots(y)'
  BY <1>9 DEF CheckPublished
<1>10. ASSUME NEW z \in Targets, Report(z) PROVE Slots(y)'
  BY <1>10 DEF Report
<1>11. ASSUME NEW z \in Targets, JobFails(z) PROVE Slots(y)'
  BY <1>11 DEF JobFails
<1>12. ASSUME NEW z \in Targets, Submit(z) PROVE Slots(y)'
  <2>1. CASE y = z
    <3>1. ~worker[z].job /\ "job" \notin queued[z] /\ choosing' # z
      BY <1>12 DEF Submit
    <3>2. CASE z \in parked
      BY <1>12, <2>1, <3>1, <3>2 DEF Submit
    <3>3. CASE z \notin parked
      <4>1. worker' = woken(z) /\ z \in in_flight'
        BY <1>12, <3>3 DEF Submit
      <4>2. worker'[z].job = worker[z].job
        BY <4>1
      <4>3. worker'[z].at = IF worker[z].at = "idle" THEN "loop" ELSE worker[z].at
        BY <4>1
      <4> QED
        BY <2>1, <3>1, <4>1, <4>2, <4>3
    <3> QED
      BY <3>2, <3>3
  <2>2. CASE y # z
    BY <1>12, <2>2, SMTT(40) DEF Submit
  <2> QED
    BY <2>1, <2>2
<1>13. ASSUME NEW z \in Targets, Reap(z) PROVE Slots(y)'
  BY <1>13 DEF Reap
<1>14. ASSUME NEW z \in Targets, Deliver(z) PROVE Slots(y)'
  BY <1>14, SMTT(40) DEF Deliver
<1>15. ASSUME NEW z \in Targets, Vote(z) PROVE Slots(y)'
  BY <1>15 DEF Vote
<1>16. ASSUME NEW z \in Targets, SourceRow(z) PROVE Slots(y)'
  BY <1>16 DEF SourceRow
<1>17. ASSUME NEW z \in Targets, Route(z) PROVE Slots(y)'
  BY <1>17 DEF Route
<1>18. ASSUME NEW z \in Targets, TakeBack(z) PROVE Slots(y)'
  <2>1. CASE y = z
    <3>1. CASE z \in parked
      BY <1>18, <2>1, <3>1 DEF TakeBack
    <3>2. CASE z \notin parked
      <4>1. worker' = woken(z) /\ queued' = [queued EXCEPT ![z] = queued[z] \cup {"live"}]
        BY <1>18, <3>2 DEF TakeBack
      <4>2. worker'[z].job = worker[z].job
        BY <4>1
      <4>3. worker'[z].at = IF worker[z].at = "idle" THEN "loop" ELSE worker[z].at
        BY <4>1
      <4>4. ("job" \in queued'[z]) <=> ("job" \in queued[z])
        BY <4>1
      <4> QED
        BY <1>18, <2>1, <4>2, <4>3, <4>4 DEF TakeBack
    <3> QED
      BY <3>1, <3>2
  <2>2. CASE y # z
    BY <1>18, <2>2 DEF TakeBack
  <2> QED
    BY <2>1, <2>2
<1>19. ASSUME NEW z \in Targets, Promote(z) PROVE Slots(y)'
  BY <1>19, SMTT(40) DEF Promote
<1>20. ASSUME NEW z \in Targets, NEW due, Refuse(z, due) PROVE Slots(y)'
  BY <1>20 DEF Refuse
<1>21. ASSUME NEW z \in Targets, NEW due, PutBack(z, due) PROVE Slots(y)'
  BY <1>21 DEF PutBack
<1>22. ASSUME NEW z \in Targets, NEW due, Admit(z, due) PROVE Slots(y)'
  <2>1. CASE y = z
    <3>1. z \notin in_flight
      BY <1>22 DEF Admit, next_target
    <3>2. queued'[z] = queued[z] /\ worker'[z] = worker[z]
      BY <1>22 DEF Admit
    <3>3. choosing' = z /\ z \in in_flight'
      BY <1>22 DEF Admit
    <3> QED
      BY <2>1, <3>1, <3>2, <3>3
  <2>2. CASE y # z
    BY <1>22, <2>2 DEF Admit
  <2> QED
    BY <2>1, <2>2
<1>23. ASSUME NEW due, Reconcile(due) PROVE Slots(y)'
  BY <1>23 DEF Reconcile
<1>24. CASE Grace
  BY <1>24 DEF Grace
<1>25. CASE Finish
  BY <1>25 DEF Finish
<1>26. CASE Drained
  BY <1>26 DEF Drained
<1>27. CASE Resumed
  BY <1>27 DEF Resumed
<1>28. CASE ReportGate
  BY <1>28 DEF ReportGate
<1>29. CASE TogglePause
  BY <1>29 DEF TogglePause
<1>30. CASE ApproveGate
  BY <1>30 DEF ApproveGate
<1>31. CASE Restart
  BY <1>31 DEF Restart
<1>32. CASE UNCHANGED bvars
  BY <1>32
<1> QED
  BY <1>1, <1>2, <1>3, <1>4, <1>5, <1>6, <1>7, <1>8, <1>9, <1>10, <1>11, <1>12, <1>13,
     <1>14, <1>15, <1>16,
     <1>17, <1>18, <1>19, <1>20, <1>21, <1>22, <1>23, <1>24, <1>25, <1>26, <1>27, <1>28, <1>29, <1>30, <1>31, <1>32
     DEF BackfillNext, LiveStep, JobStep, Environment

\* Only an admission takes a slot, and none is made after a stop was confirmed.
LEMMA StoppedStep ==
  ASSUME BackfillInv, [BackfillNext]_bvars
  PROVE  Stopped'
<1> USE BackfillAssumption DEF BackfillInv, Stopped, Free, Admitting, gate_pending,
   record, database, pool, sweep, gate, bounds, bvars
<1>1. ASSUME NEW z \in Targets, Rest(z) PROVE Stopped'
  BY <1>1 DEF Rest
<1>2. ASSUME NEW z \in Targets, Drain(z) PROVE Stopped'
  BY <1>2 DEF Drain
<1>3. ASSUME NEW z \in Targets, LiveRun(z) PROVE Stopped'
  BY <1>3 DEF LiveRun
<1>4. ASSUME NEW z \in Targets, LiveRouted(z) PROVE Stopped'
  BY <1>4 DEF LiveRouted
<1>5. ASSUME NEW z \in Targets, LiveFails(z) PROVE Stopped'
  BY <1>5 DEF LiveFails
<1>6. ASSUME NEW z \in Targets, Start(z) PROVE Stopped'
  BY <1>6 DEF Start
<1>7. ASSUME NEW z \in Targets, LoadHistory(z) PROVE Stopped'
  BY <1>7 DEF LoadHistory
<1>8. ASSUME NEW z \in Targets, Publish(z) PROVE Stopped'
  BY <1>8 DEF Publish
<1>9. ASSUME NEW z \in Targets, CheckPublished(z) PROVE Stopped'
  BY <1>9 DEF CheckPublished
<1>10. ASSUME NEW z \in Targets, Report(z) PROVE Stopped'
  BY <1>10 DEF Report
<1>11. ASSUME NEW z \in Targets, JobFails(z) PROVE Stopped'
  BY <1>11 DEF JobFails
<1>12. ASSUME NEW z \in Targets, Submit(z) PROVE Stopped'
  BY <1>12 DEF Submit
<1>13. ASSUME NEW z \in Targets, Reap(z) PROVE Stopped'
  BY <1>13 DEF Reap
<1>14. ASSUME NEW z \in Targets, Deliver(z) PROVE Stopped'
  BY <1>14 DEF Deliver
<1>15. ASSUME NEW z \in Targets, Vote(z) PROVE Stopped'
  BY <1>15 DEF Vote
<1>16. ASSUME NEW z \in Targets, SourceRow(z) PROVE Stopped'
  BY <1>16 DEF SourceRow
<1>17. ASSUME NEW z \in Targets, Route(z) PROVE Stopped'
  BY <1>17 DEF Route
<1>18. ASSUME NEW z \in Targets, TakeBack(z) PROVE Stopped'
  BY <1>18 DEF TakeBack
<1>19. ASSUME NEW z \in Targets, Promote(z) PROVE Stopped'
  BY <1>19 DEF Promote
<1>20. ASSUME NEW z \in Targets, NEW due, Refuse(z, due) PROVE Stopped'
  BY <1>20 DEF Refuse
<1>21. ASSUME NEW z \in Targets, NEW due, PutBack(z, due) PROVE Stopped'
  BY <1>21 DEF PutBack
<1>22. ASSUME NEW z \in Targets, NEW due, Admit(z, due) PROVE Stopped'
  BY <1>22 DEF Admit
<1>23. ASSUME NEW due, Reconcile(due) PROVE Stopped'
  BY <1>23 DEF Reconcile
<1>24. CASE Grace
  BY <1>24 DEF Grace
<1>25. CASE Finish
  BY <1>25 DEF Finish
<1>26. CASE Drained
  BY <1>26 DEF Drained
<1>27. CASE Resumed
  BY <1>27 DEF Resumed
<1>28. CASE ReportGate
  BY <1>28 DEF ReportGate
<1>29. CASE TogglePause
  BY <1>29 DEF TogglePause
<1>30. CASE ApproveGate
  BY <1>30 DEF ApproveGate
<1>31. CASE Restart
  BY <1>31 DEF Restart
<1>32. CASE UNCHANGED bvars
  BY <1>32
<1> QED
  BY <1>1, <1>2, <1>3, <1>4, <1>5, <1>6, <1>7, <1>8, <1>9, <1>10, <1>11, <1>12, <1>13,
     <1>14, <1>15, <1>16,
     <1>17, <1>18, <1>19, <1>20, <1>21, <1>22, <1>23, <1>24, <1>25, <1>26, <1>27, <1>28, <1>29, <1>30, <1>31, <1>32
     DEF BackfillNext, LiveStep, JobStep, Environment

\* A job that is about to write holds the newest vote of its conversation, and
\* knows when its row was replaced.
LEMMA FreshStep ==
  ASSUME BackfillInv, [BackfillNext]_bvars
  PROVE  (\A y \in Targets : Fresh(y))'
<1> USE BackfillAssumption DEF BackfillInv, Typed, Fresh, Resting, woken, answers,
   after_live, rewritten, untouched, Places, Worker, Row, database, pool, sweep, gate, bounds, bvars
<1> SUFFICES ASSUME NEW y \in Targets PROVE Fresh(y)'
  OBVIOUS
<1>1. ASSUME NEW z \in Targets, Rest(z) PROVE Fresh(y)'
  BY <1>1 DEF Rest
<1>2. ASSUME NEW z \in Targets, Drain(z) PROVE Fresh(y)'
  BY <1>2 DEF Drain
<1>3. ASSUME NEW z \in Targets, LiveRun(z) PROVE Fresh(y)'
  BY <1>3 DEF LiveRun
<1>4. ASSUME NEW z \in Targets, LiveRouted(z) PROVE Fresh(y)'
  BY <1>4 DEF LiveRouted
<1>5. ASSUME NEW z \in Targets, LiveFails(z) PROVE Fresh(y)'
  BY <1>5 DEF LiveFails
<1>6. ASSUME NEW z \in Targets, Start(z) PROVE Fresh(y)'
  <2>1. UNCHANGED <<row, newest>>
    BY <1>6 DEF Start
  <2>2. \/ worker' = [worker EXCEPT ![z] = [worker[z] EXCEPT !.at = "load", !.clean = TRUE, !.claims = source[z]]]
        \/ \E o : worker' = answers(z, o)
    BY <1>6 DEF Start
  <2>3. CASE worker' = [worker EXCEPT ![z] = [worker[z] EXCEPT !.at = "load", !.clean = TRUE, !.claims = source[z]]]
    <3>1. worker'[y] = worker[y] \/ worker'[y].at = "load"
      BY <2>3
    <3> QED
      BY <2>1, <3>1
  <2>4. CASE \E o : worker' = answers(z, o)
    <3>1. worker'[y] = worker[y] \/ worker'[y].at = "report"
      BY <2>4
    <3> QED
      BY <2>1, <3>1
  <2> QED
    BY <2>2, <2>3, <2>4
<1>7. ASSUME NEW z \in Targets, LoadHistory(z) PROVE Fresh(y)'
  BY <1>7 DEF LoadHistory
<1>8. ASSUME NEW z \in Targets, Publish(z) PROVE Fresh(y)'
  <2>1. newest' = newest /\ worker[z].at = "write"
    BY <1>8 DEF Publish
  <2>2. CASE untouched(z)
    <3>1. worker' = [worker EXCEPT ![z] = [worker[z] EXCEPT !.at = "check", !.lvt = 0]]
      BY <1>8, <2>2 DEF Publish
    <3>2. worker'[z].at = "check"
      BY <3>1
    <3>3. y # z => worker'[y] = worker[y]
      BY <3>1
    <3>4. row' = [row EXCEPT ![z] = [state |-> "valid", lvt |-> worker[z].lvt]]
      BY <1>8, <2>2 DEF Publish
    <3>5. y = z \/ row'[y] = row[y]
      BY <3>4
    <3>6. row'[z].lvt <= newest[z]
      BY <2>1, <3>4
    <3> QED
      BY <2>1, <3>2, <3>3, <3>5, <3>6
  <2>3. CASE ~untouched(z)
    <3>1. row' = row /\ worker' = answers(z, "superseded_live")
      BY <1>8, <2>3 DEF Publish
    <3>2. worker'[y] = worker[y] \/ worker'[y].at = "report"
      BY <3>1
    <3> QED
      BY <2>1, <3>1, <3>2
  <2> QED
    BY <2>2, <2>3
<1>9. ASSUME NEW z \in Targets, CheckPublished(z) PROVE Fresh(y)'
  BY <1>9 DEF CheckPublished
<1>10. ASSUME NEW z \in Targets, Report(z) PROVE Fresh(y)'
  BY <1>10 DEF Report
<1>11. ASSUME NEW z \in Targets, JobFails(z) PROVE Fresh(y)'
  BY <1>11, SMTT(40) DEF JobFails
<1>12. ASSUME NEW z \in Targets, Submit(z) PROVE Fresh(y)'
  <2>1. UNCHANGED <<row, newest>>
    BY <1>12 DEF Submit
  <2>2. worker' = worker \/ worker' = woken(z)
    BY <1>12 DEF Submit
  <2>3. worker'[y] = worker[y] \/ worker'[y].at = "loop"
    BY <2>2, SMTT(40)
  <2> QED
    BY <2>1, <2>3
<1>13. ASSUME NEW z \in Targets, Reap(z) PROVE Fresh(y)'
  BY <1>13 DEF Reap
<1>14. ASSUME NEW z \in Targets, Deliver(z) PROVE Fresh(y)'
  <2>1. UNCHANGED <<row, newest>> /\ worker' = woken(z)
    BY <1>14 DEF Deliver
  <2>2. worker'[y] = worker[y] \/ worker'[y].at = "loop"
    BY <2>1
  <2> QED
    BY <2>1, <2>2
<1>15. ASSUME NEW z \in Targets, Vote(z) PROVE Fresh(y)'
  BY <1>15, SMTT(40) DEF Vote
<1>16. ASSUME NEW z \in Targets, SourceRow(z) PROVE Fresh(y)'
  BY <1>16 DEF SourceRow
<1>17. ASSUME NEW z \in Targets, Route(z) PROVE Fresh(y)'
  BY <1>17 DEF Route
<1>18. ASSUME NEW z \in Targets, TakeBack(z) PROVE Fresh(y)'
  <2>1. UNCHANGED <<row, newest>>
    BY <1>18 DEF TakeBack
  <2>2. worker' = worker \/ worker' = woken(z)
    BY <1>18 DEF TakeBack
  <2>3. worker'[y] = worker[y] \/ worker'[y].at = "loop"
    BY <2>2, SMTT(40)
  <2> QED
    BY <2>1, <2>3
<1>19. ASSUME NEW z \in Targets, Promote(z) PROVE Fresh(y)'
  <2>1. PICK lvt \in row[z].lvt..newest[z] : rewritten(z, lvt)
    BY <1>19 DEF Promote
  <2>2. newest' = newest
    BY <1>19 DEF Promote
  <2>3. worker' = [worker EXCEPT ![z].clean = worker[z].at \notin {"load", "write"}]
    BY <1>19 DEF Promote
  <2>4. CASE y = z
    <3>1. row'[y].lvt = lvt /\ lvt <= newest[y]
      BY <2>1, <2>4
    <3>2. worker'[y].at = worker[y].at /\ worker'[y].lvt = worker[y].lvt
      BY <2>3, <2>4
    <3>3. worker'[z].clean = (worker[z].at \notin {"load", "write"})
      BY <2>3
    <3> QED
      BY <2>2, <2>4, <3>1, <3>2, <3>3
  <2>5. CASE y # z
    BY <2>1, <2>2, <2>3, <2>5
  <2> QED
    BY <2>4, <2>5
<1>20. ASSUME NEW z \in Targets, NEW due, Refuse(z, due) PROVE Fresh(y)'
  BY <1>20 DEF Refuse
<1>21. ASSUME NEW z \in Targets, NEW due, PutBack(z, due) PROVE Fresh(y)'
  BY <1>21 DEF PutBack
<1>22. ASSUME NEW z \in Targets, NEW due, Admit(z, due) PROVE Fresh(y)'
  BY <1>22 DEF Admit
<1>23. ASSUME NEW due, Reconcile(due) PROVE Fresh(y)'
  BY <1>23 DEF Reconcile
<1>24. CASE Grace
  BY <1>24 DEF Grace
<1>25. CASE Finish
  BY <1>25 DEF Finish
<1>26. CASE Drained
  BY <1>26 DEF Drained
<1>27. CASE Resumed
  BY <1>27 DEF Resumed
<1>28. CASE ReportGate
  BY <1>28 DEF ReportGate
<1>29. CASE TogglePause
  BY <1>29 DEF TogglePause
<1>30. CASE ApproveGate
  BY <1>30 DEF ApproveGate
<1>31. CASE Restart
  BY <1>31 DEF Restart
<1>32. CASE UNCHANGED bvars
  BY <1>32
<1> QED
  BY <1>1, <1>2, <1>3, <1>4, <1>5, <1>6, <1>7, <1>8, <1>9, <1>10, <1>11, <1>12, <1>13,
     <1>14, <1>15, <1>16,
     <1>17, <1>18, <1>19, <1>20, <1>21, <1>22, <1>23, <1>24, <1>25, <1>26, <1>27, <1>28, <1>29, <1>30, <1>31, <1>32
     DEF BackfillNext, LiveStep, JobStep, Environment

\* The positions of the line are those of conversations.
LEMMA OrderedTargets ==
  Len(Order) \in Nat /\ \A k \in 1..Len(Order) : Order[k] \in Targets
BY BackfillAssumption

\* A page ends within the line.
LEMMA PagesEnd == \A end \in Ends : end \in 0..Len(Order) \/ cursor \notin Nat
<1> SUFFICES ASSUME NEW end \in Ends, cursor \in Nat PROVE end \in 0..Len(Order)
  OBVIOUS
<1>1. PICK p \in 0..Len(Order) : end = Min2(cursor + p * PageSize, Len(Order))
  BY DEF Ends
<1>2. p \in Nat /\ PageSize \in Nat
  BY OrderedTargets, BackfillAssumption
<1>3. p * PageSize \in Nat
  BY <1>2
<1> QED
  BY <1>1, <1>3, OrderedTargets DEF Min2

\* A row that is rewritten is valid.
LEMMA Rewriting ==
  ASSUME row \in [Targets -> Row], NEW z \in Targets, NEW lvt, rewritten(z, lvt)
  PROVE  \A t \in Targets : row'[t].state = "invalid" => row[t].state = "invalid"
BY DEF rewritten, Row

\* Nothing that was passed becomes invalid.
LEMMA SweptKept ==
  ASSUME Swept, UNCHANGED <<cursor, seen, in_flight, choosing>>,
         \A t \in Targets : row'[t].state = "invalid" => row[t].state = "invalid"
  PROVE  Swept'
<1>1. \A k \in 1..cursor : Order[k] \in Targets
  BY OrderedTargets DEF Swept
<1> QED
  BY <1>1 DEF Swept

\* What reading on to the end of a page does to what was swept.
LEMMA Reading ==
  ASSUME Swept, row' = row, NEW end \in 0..Len(Order), NEW i, read_up_to(i, end)
  PROVE  /\ cursor' \in 0..Len(Order)
         /\ \A k \in 1..cursor' : row[Order[k]].state = "invalid" => seen'
<1>1. cursor' = end /\ (seen' <=> seen \/ \E k \in cursor + 1..end : Needs(Order[k]))
  BY DEF read_up_to
<1>2. ASSUME NEW k \in 1..end, row[Order[k]].state = "invalid" PROVE seen'
  <2>1. CASE k <= cursor
    BY <1>1, <1>2, <2>1, OrderedTargets DEF Swept
  <2>2. CASE ~(k <= cursor)
    <3>1. k \in cursor + 1..end
      BY <2>2, OrderedTargets DEF Swept
    <3>2. Needs(Order[k])
      BY <1>2 DEF Needs, classify
    <3> QED
      BY <1>1, <3>1, <3>2
  <2> QED
    BY <2>1, <2>2
<1> QED
  BY <1>1, <1>2

\* No step makes a row invalid, and the cursor passes none unseen.
LEMMA SweptStep ==
  ASSUME BackfillInv, [BackfillNext]_bvars
  PROVE  Swept'
<1> USE BackfillAssumption DEF BackfillInv, Free, Admitting, database, pool, sweep,
   gate, bounds, bvars
<1>1. ASSUME NEW z \in Targets, Rest(z) PROVE Swept'
  BY <1>1 DEF Rest, Swept
<1>2. ASSUME NEW z \in Targets, Drain(z) PROVE Swept'
  BY <1>2 DEF Drain, Swept
<1>3. ASSUME NEW z \in Targets, LiveRun(z) PROVE Swept'
  <2>1. \E lvt : rewritten(z, lvt)
    BY <1>3 DEF LiveRun
  <2>2. UNCHANGED <<cursor, seen, in_flight, choosing>>
    BY <1>3 DEF LiveRun
  <2> QED
    BY <2>1, <2>2, Rewriting, SweptKept DEF Typed
<1>4. ASSUME NEW z \in Targets, LiveRouted(z) PROVE Swept'
  BY <1>4 DEF LiveRouted, Swept
<1>5. ASSUME NEW z \in Targets, LiveFails(z) PROVE Swept'
  BY <1>5 DEF LiveFails, Swept
<1>6. ASSUME NEW z \in Targets, Start(z) PROVE Swept'
  BY <1>6 DEF Start, Swept
<1>7. ASSUME NEW z \in Targets, LoadHistory(z) PROVE Swept'
  BY <1>7 DEF LoadHistory, Swept
<1>8. ASSUME NEW z \in Targets, Publish(z) PROVE Swept'
  <2>1. rewritten(z, worker[z].lvt) \/ row' = row
    BY <1>8 DEF Publish
  <2>2. UNCHANGED <<cursor, seen, in_flight, choosing>>
    BY <1>8 DEF Publish
  <2> QED
    BY <2>1, <2>2, Rewriting, SweptKept DEF Typed
<1>9. ASSUME NEW z \in Targets, CheckPublished(z) PROVE Swept'
  BY <1>9 DEF CheckPublished, Swept
<1>10. ASSUME NEW z \in Targets, Report(z) PROVE Swept'
  BY <1>10 DEF Report, Swept
<1>11. ASSUME NEW z \in Targets, JobFails(z) PROVE Swept'
  <2>1. rewritten(z, worker[z].lvt) \/ row' = row
    BY <1>11 DEF JobFails
  <2>2. UNCHANGED <<cursor, seen, in_flight, choosing>>
    BY <1>11 DEF JobFails
  <2> QED
    BY <2>1, <2>2, Rewriting, SweptKept DEF Typed
<1>12. ASSUME NEW z \in Targets, Submit(z) PROVE Swept'
  BY <1>12 DEF Submit, Swept
<1>13. ASSUME NEW z \in Targets, Reap(z) PROVE Swept'
  BY <1>13 DEF Reap, Swept
<1>14. ASSUME NEW z \in Targets, Deliver(z) PROVE Swept'
  BY <1>14 DEF Deliver, Swept
<1>15. ASSUME NEW z \in Targets, Vote(z) PROVE Swept'
  BY <1>15 DEF Vote, Swept
<1>16. ASSUME NEW z \in Targets, SourceRow(z) PROVE Swept'
  BY <1>16 DEF SourceRow, Swept
<1>17. ASSUME NEW z \in Targets, Route(z) PROVE Swept'
  BY <1>17 DEF Route, Swept
<1>18. ASSUME NEW z \in Targets, TakeBack(z) PROVE Swept'
  BY <1>18 DEF TakeBack, Swept
<1>19. ASSUME NEW z \in Targets, Promote(z) PROVE Swept'
  <2>1. \E lvt : rewritten(z, lvt)
    BY <1>19 DEF Promote
  <2>2. UNCHANGED <<cursor, seen, in_flight, choosing>>
    BY <1>19 DEF Promote
  <2> QED
    BY <2>1, <2>2, Rewriting, SweptKept DEF Typed
<1>20. ASSUME NEW z \in Targets, NEW due, Refuse(z, due) PROVE Swept'
  <2>0. PICK end \in Ends : \E i : read_up_to(i, end)
    BY <1>20 DEF Refuse
  <2>1. PICK i : read_up_to(i, end)
    BY <2>0
  <2>2. row' = row /\ choosing' # "count"
    BY <1>20 DEF Refuse
  <2>3. end \in 0..Len(Order)
    BY PagesEnd DEF Swept
  <2> QED
    BY <2>1, <2>2, <2>3, Reading DEF Swept
<1>21. ASSUME NEW z \in Targets, NEW due, PutBack(z, due) PROVE Swept'
  <2>0. PICK end \in Ends : \E i : read_up_to(i, end)
    BY <1>21 DEF PutBack
  <2>1. PICK i : read_up_to(i, end)
    BY <2>0
  <2>2. row' = row /\ choosing' # "count"
    BY <1>21 DEF PutBack
  <2>3. end \in 0..Len(Order)
    BY PagesEnd DEF Swept
  <2> QED
    BY <2>1, <2>2, <2>3, Reading DEF Swept
<1>22. ASSUME NEW z \in Targets, NEW due, Admit(z, due) PROVE Swept'
  <2>0. PICK end \in Ends : \E i : read_up_to(i, end)
    BY <1>22 DEF Admit
  <2>1. PICK i : read_up_to(i, end)
    BY <2>0
  <2>2. row' = row /\ choosing' # "count"
    BY <1>22 DEF Admit
  <2>3. end \in 0..Len(Order)
    BY PagesEnd DEF Swept
  <2> QED
    BY <2>1, <2>2, <2>3, Reading DEF Swept
<1>23. ASSUME NEW due, Reconcile(due) PROVE Swept'
  <2>1. row' = row /\ in_flight' = {}
    BY <1>23 DEF Reconcile
  <2>2. read_up_to(Len(line(Len(Order))), Len(Order))
    BY <1>23 DEF Reconcile
  <2>3. Len(Order) \in 0..Len(Order)
    BY OrderedTargets
  <2>4. cursor' = Len(Order)
    BY <2>2 DEF read_up_to
  <2> QED
    BY <2>1, <2>2, <2>3, <2>4, Reading DEF Swept
<1>24. CASE Grace
  BY <1>24 DEF Grace, Swept
<1>25. CASE Finish
  BY <1>25 DEF Finish, Swept
<1>26. CASE Drained
  BY <1>26 DEF Drained, Swept
<1>27. CASE Resumed
  BY <1>27 DEF Resumed, Swept
<1>28. CASE ReportGate
  BY <1>28 DEF ReportGate, Swept
<1>29. CASE TogglePause
  BY <1>29 DEF TogglePause, Swept
<1>30. CASE ApproveGate
  BY <1>30 DEF ApproveGate, Swept
<1>31. CASE Restart
  BY <1>31 DEF Restart, Swept
<1>32. CASE UNCHANGED bvars
  BY <1>32 DEF Swept
<1> QED
  BY <1>1, <1>2, <1>3, <1>4, <1>5, <1>6, <1>7, <1>8, <1>9, <1>10, <1>11, <1>12, <1>13,
     <1>14, <1>15, <1>16,
     <1>17, <1>18, <1>19, <1>20, <1>21, <1>22, <1>23, <1>24, <1>25, <1>26, <1>27, <1>28, <1>29, <1>30, <1>31, <1>32
     DEF BackfillNext, LiveStep, JobStep, Environment

\* What is written is a row.
LEMMA RewritingTyped ==
  ASSUME row \in [Targets -> Row], NEW z \in Targets, NEW lvt \in Nat, rewritten(z, lvt)
  PROVE  row' \in [Targets -> Row]
BY DEF rewritten, Row

\* What workers become.
LEMMA WorkersTyped ==
  ASSUME worker \in [Targets -> Worker], NEW z \in Targets, NEW o \in Outcomes
  PROVE  /\ woken(z) \in [Targets -> Worker]
         /\ answers(z, o) \in [Targets -> Worker]
         /\ after_live(z, o) \in [Targets -> Worker]
<1>1. Resting \in Worker
  BY DEF Resting, Worker, Places, Outcomes
<1>2. \A p \in Places : [worker EXCEPT ![z].at = p] \in [Targets -> Worker]
  BY DEF Worker
<1>3. woken(z) \in [Targets -> Worker]
  BY <1>2 DEF woken, Places
<1>4. [Resting EXCEPT !.at = "report", !.job = TRUE, !.outcome = o] \in Worker
  BY <1>1 DEF Resting, Worker, Places
<1>5. [Resting EXCEPT !.at = "loop"] \in Worker
  BY <1>1 DEF Resting, Worker, Places
<1>6. answers(z, o) \in [Targets -> Worker]
  BY <1>4 DEF answers
<1>7. after_live(z, o) \in [Targets -> Worker]
  BY <1>5, <1>6 DEF after_live
<1> QED
  BY <1>3, <1>6, <1>7

\* A worker's new record keeps the type of all workers.
LEMMA WorkerStored ==
  ASSUME worker \in [Targets -> Worker], NEW z \in Targets, NEW w \in Worker
  PROVE  [worker EXCEPT ![z] = w] \in [Targets -> Worker]
OBVIOUS

\* The outcomes of a publication that is there.
LEMMA CaughtUp == \A r, claims, n : caught_up_outcome(r, claims, n) \in Outcomes
BY DEF caught_up_outcome, Outcomes, Complete, Deferred, Excluded

\* Every step keeps the types.
LEMMA TypedStep ==
  ASSUME BackfillInv, [BackfillNext]_bvars
  PROVE  Typed'
<1> USE BackfillAssumption DEF BackfillInv, database, pool, sweep, gate, bounds, bvars
<1>1. ASSUME NEW z \in Targets, Rest(z) PROVE Typed'
  BY <1>1 DEF Rest, Typed, Worker, Places, Outcomes, Resting
<1>2. ASSUME NEW z \in Targets, Drain(z) PROVE Typed'
  <2>1. queued' \in [Targets -> SUBSET {"live", "job"}]
    BY <1>2 DEF Drain, Typed
  <2>2. worker' \in [Targets -> Worker]
    <3>1. \A p \in Places, b \in BOOLEAN : [Resting EXCEPT !.at = p, !.job = b] \in Worker
      BY DEF Resting, Worker, Places, Outcomes
    <3>2. /\ (IF "live" \in queued[z] THEN "live" ELSE "start") \in Places
          /\ ("job" \in queued[z]) \in BOOLEAN
      BY DEF Places
    <3> QED
      BY <1>2, <3>1, <3>2 DEF Drain, Typed
  <2>3. UNCHANGED <<row, source, newest, polled>>
    BY <1>2 DEF Drain, database, pool
  <2> QED
    BY <2>1, <2>2, <2>3 DEF Typed
<1>3. ASSUME NEW z \in Targets, LiveRun(z) PROVE Typed'
  <2>1. row' \in [Targets -> Row]
    <3>1. PICK lvt \in polled[z]..newest[z] : rewritten(z, lvt)
      BY <1>3 DEF LiveRun
    <3>2. polled[z] \in Nat /\ newest[z] \in Nat
      BY DEF Typed
    <3>3. lvt \in Nat
      BY <3>2
    <3> QED
      BY <3>1, <3>3, RewritingTyped DEF Typed
  <2>2. worker' \in [Targets -> Worker]
    <3>1. "superseded_live" \in Outcomes
      BY DEF Outcomes, Complete, Failed, Deferred, Excluded
    <3> QED
      BY <1>3, <3>1, WorkersTyped DEF LiveRun, Typed
  <2>3. UNCHANGED <<source, newest, polled, queued>>
    BY <1>3 DEF LiveRun, database, pool
  <2> QED
    BY <2>1, <2>2, <2>3 DEF Typed
<1>4. ASSUME NEW z \in Targets, LiveRouted(z) PROVE Typed'
  <2>1. worker' \in [Targets -> Worker]
    <3>1. "live_owned" \in Outcomes
      BY DEF Outcomes, Complete, Failed, Deferred, Excluded
    <3> QED
      BY <1>4, <3>1, WorkersTyped DEF LiveRouted, Typed
  <2>3. UNCHANGED <<row, source, newest, polled, queued>>
    BY <1>4 DEF LiveRouted, database, pool
  <2> QED
    BY <2>1, <2>3 DEF Typed
<1>5. ASSUME NEW z \in Targets, LiveFails(z) PROVE Typed'
  <2>1. queued' \in [Targets -> SUBSET {"live", "job"}]
    BY <1>5 DEF LiveFails, Typed
  <2>2. worker' \in [Targets -> Worker]
    <3>1. "live_owned" \in Outcomes
      BY DEF Outcomes, Complete, Failed, Deferred, Excluded
    <3> QED
      BY <1>5, <3>1, WorkersTyped DEF LiveFails, Typed
  <2>3. UNCHANGED <<row, source, newest, polled>>
    BY <1>5 DEF LiveFails, database, pool
  <2> QED
    BY <2>1, <2>2, <2>3 DEF Typed
<1>6. ASSUME NEW z \in Targets, Start(z) PROVE Typed'
  <2>1. worker' \in [Targets -> Worker]
    <3>1. \/ worker' = [worker EXCEPT ![z] = [worker[z] EXCEPT !.at = "load", !.clean = TRUE, !.claims = source[z]]]
        \/ \E o \in Outcomes : worker' = answers(z, o)
      <4>1. {"live_owned", "memory_headroom"} \subseteq Outcomes
        BY DEF Outcomes, Complete, Failed, Deferred, Excluded
      <4> QED
        BY <1>6, <4>1, CaughtUp DEF Start
    <3>0. worker[z] \in Worker /\ source[z] \in Nat
      BY DEF Typed
    <3>2. [worker[z] EXCEPT !.at = "load", !.clean = TRUE, !.claims = source[z]] \in Worker
      BY <3>0 DEF Worker, Places
    <3>3. [worker EXCEPT ![z] = [worker[z] EXCEPT !.at = "load", !.clean = TRUE, !.claims = source[z]]]
            \in [Targets -> Worker]
      BY <3>2, WorkerStored DEF Typed
    <3>4. \A o \in Outcomes : answers(z, o) \in [Targets -> Worker]
      BY WorkersTyped DEF Typed
    <3> QED
      BY <3>1, <3>3, <3>4
  <2>3. UNCHANGED <<row, source, newest, polled, queued>>
    BY <1>6 DEF Start, database, pool
  <2> QED
    BY <2>1, <2>3 DEF Typed
<1>7. ASSUME NEW z \in Targets, LoadHistory(z) PROVE Typed'
  <2>1. worker' \in [Targets -> Worker]
    <3>1. newest[z] \in Nat
      BY DEF Typed
    <3>0. worker[z] \in Worker /\ newest[z] \in Nat
      BY DEF Typed
    <3>2. [worker[z] EXCEPT !.at = "write", !.lvt = newest[z]] \in Worker
      BY <3>0 DEF Worker, Places
    <3> QED
      BY <1>7, <3>2 DEF LoadHistory, Typed
  <2>3. UNCHANGED <<row, source, newest, polled, queued>>
    BY <1>7 DEF LoadHistory, database, pool
  <2> QED
    BY <2>1, <2>3 DEF Typed
<1>8. ASSUME NEW z \in Targets, Publish(z) PROVE Typed'
  <2>1. row' \in [Targets -> Row]
    <3>1. worker[z].lvt \in Nat
      BY DEF Typed, Worker
    <3> QED
      BY <1>8, <3>1, RewritingTyped DEF Publish, Typed
  <2>2. worker' \in [Targets -> Worker]
    <3>1. \/ worker' = [worker EXCEPT ![z] = [worker[z] EXCEPT !.at = "check", !.lvt = 0]]
        \/ worker' = answers(z, "superseded_live")
      BY <1>8 DEF Publish
    <3>0. worker[z] \in Worker
      BY DEF Typed
    <3>2. [worker[z] EXCEPT !.at = "check", !.lvt = 0] \in Worker
      BY <3>0 DEF Worker, Places
    <3>3. "superseded_live" \in Outcomes
      BY DEF Outcomes, Complete, Failed, Deferred, Excluded
    <3>4. [worker EXCEPT ![z] = [worker[z] EXCEPT !.at = "check", !.lvt = 0]] \in [Targets -> Worker]
      BY <3>2, WorkerStored DEF Typed
    <3>5. answers(z, "superseded_live") \in [Targets -> Worker]
      BY <3>3, WorkersTyped DEF Typed
    <3> QED
      BY <3>1, <3>4, <3>5
  <2>3. UNCHANGED <<source, newest, polled, queued>>
    BY <1>8 DEF Publish, database, pool
  <2> QED
    BY <2>1, <2>2, <2>3 DEF Typed
<1>9. ASSUME NEW z \in Targets, CheckPublished(z) PROVE Typed'
  <2>1. worker' \in [Targets -> Worker]
    <3>1. "published" \in Outcomes
      BY DEF Outcomes, Complete, Failed, Deferred, Excluded
    <3>2. PICK o \in Outcomes : worker' = answers(z, o)
      BY <1>9, <3>1, CaughtUp DEF CheckPublished
    <3> QED
      BY <3>2, WorkersTyped DEF Typed
  <2>3. UNCHANGED <<row, source, newest, polled, queued>>
    BY <1>9 DEF CheckPublished, database, pool
  <2> QED
    BY <2>1, <2>3 DEF Typed
<1>10. ASSUME NEW z \in Targets, Report(z) PROVE Typed'
  BY <1>10 DEF Report, Typed, Worker, Places, Outcomes, Resting
<1>11. ASSUME NEW z \in Targets, JobFails(z) PROVE Typed'
  <2>1. row' \in [Targets -> Row]
    <3>1. worker[z].lvt \in Nat
      BY DEF Typed, Worker
    <3> QED
      BY <1>11, <3>1, RewritingTyped DEF JobFails, Typed
  <2>2. worker' \in [Targets -> Worker]
    <3>1. PICK o \in Failed : worker' = answers(z, o)
      BY <1>11 DEF JobFails, Failed
    <3>2. o \in Outcomes
      BY DEF Outcomes
    <3> QED
      BY <3>1, <3>2, WorkersTyped DEF Typed
  <2>3. UNCHANGED <<source, newest, polled, queued>>
    BY <1>11 DEF JobFails, database, pool
  <2> QED
    BY <2>1, <2>2, <2>3 DEF Typed
<1>12. ASSUME NEW z \in Targets, Submit(z) PROVE Typed'
  <2>1. queued' \in [Targets -> SUBSET {"live", "job"}]
    <3>1. CASE z \in parked
      BY <1>12, <3>1 DEF Submit, Typed
    <3>2. CASE z \notin parked
      <4>1. queued' = [queued EXCEPT ![z] = queued[z] \cup {"job"}]
        BY <1>12, <3>2 DEF Submit
      <4> QED
        BY <4>1 DEF Typed
    <3> QED
      BY <3>1, <3>2
  <2>2. worker' \in [Targets -> Worker]
    <3>1. worker' = worker \/ worker' = woken(z)
      BY <1>12 DEF Submit
    <3>2. "none" \in Outcomes
      BY DEF Outcomes
    <3> QED
      BY <3>1, <3>2, WorkersTyped DEF Typed
  <2>3. UNCHANGED <<row, source, newest, polled>>
    BY <1>12 DEF Submit, database, pool
  <2> QED
    BY <2>1, <2>2, <2>3 DEF Typed
<1>13. ASSUME NEW z \in Targets, Reap(z) PROVE Typed'
  BY <1>13 DEF Reap, Typed
<1>14. ASSUME NEW z \in Targets, Deliver(z) PROVE Typed'
  <2>1. queued' \in [Targets -> SUBSET {"live", "job"}] /\ polled' \in [Targets -> Nat]
    BY <1>14 DEF Deliver, Typed
  <2>2. worker' \in [Targets -> Worker]
    <3>1. "none" \in Outcomes
      BY DEF Outcomes
    <3> QED
      BY <1>14, <3>1, WorkersTyped DEF Deliver, Typed
  <2>3. UNCHANGED <<row, source, newest>>
    BY <1>14 DEF Deliver, database
  <2> QED
    BY <2>1, <2>2, <2>3 DEF Typed
<1>15. ASSUME NEW z \in Targets, Vote(z) PROVE Typed'
  BY <1>15 DEF Vote, Typed
<1>16. ASSUME NEW z \in Targets, SourceRow(z) PROVE Typed'
  BY <1>16 DEF SourceRow, Typed
<1>17. ASSUME NEW z \in Targets, Route(z) PROVE Typed'
  BY <1>17 DEF Route, Typed
<1>18. ASSUME NEW z \in Targets, TakeBack(z) PROVE Typed'
  <2>1. queued' \in [Targets -> SUBSET {"live", "job"}]
    BY <1>18, ZenonT(40) DEF TakeBack, Typed
  <2>2. worker' \in [Targets -> Worker]
    <3>1. worker' = worker \/ worker' = woken(z)
      BY <1>18 DEF TakeBack
    <3>2. "none" \in Outcomes
      BY DEF Outcomes
    <3> QED
      BY <3>1, <3>2, WorkersTyped DEF Typed
  <2>3. UNCHANGED <<row, source, newest, polled>>
    BY <1>18 DEF TakeBack, database, pool
  <2> QED
    BY <2>1, <2>2, <2>3 DEF Typed
<1>19. ASSUME NEW z \in Targets, Promote(z) PROVE Typed'
  <2>1. row' \in [Targets -> Row]
    <3>1. PICK lvt \in row[z].lvt..newest[z] : rewritten(z, lvt)
      BY <1>19 DEF Promote
    <3>2. row[z].lvt \in Nat /\ newest[z] \in Nat
      BY DEF Typed, Row
    <3>3. lvt \in Nat
      BY <3>2
    <3> QED
      BY <3>1, <3>3, RewritingTyped DEF Typed
  <2>2. worker' \in [Targets -> Worker]
    <3>1. PICK b \in BOOLEAN : worker' = [worker EXCEPT ![z].clean = b]
      BY <1>19 DEF Promote
    <3> QED
      BY <3>1, ZenonT(40) DEF Typed, Worker
  <2>3. UNCHANGED <<source, newest, polled, queued>>
    BY <1>19 DEF Promote, database, pool
  <2> QED
    BY <2>1, <2>2, <2>3 DEF Typed
<1>20. ASSUME NEW z \in Targets, NEW due, Refuse(z, due) PROVE Typed'
  BY <1>20 DEF Refuse, Typed
<1>21. ASSUME NEW z \in Targets, NEW due, PutBack(z, due) PROVE Typed'
  BY <1>21 DEF PutBack, Typed
<1>22. ASSUME NEW z \in Targets, NEW due, Admit(z, due) PROVE Typed'
  BY <1>22 DEF Admit, Typed
<1>23. ASSUME NEW due, Reconcile(due) PROVE Typed'
  BY <1>23 DEF Reconcile, Typed
<1>24. CASE Grace
  BY <1>24 DEF Grace, Typed
<1>25. CASE Finish
  BY <1>25 DEF Finish, Typed
<1>26. CASE Drained
  BY <1>26 DEF Drained, Typed
<1>27. CASE Resumed
  BY <1>27 DEF Resumed, Typed
<1>28. CASE ReportGate
  BY <1>28 DEF ReportGate, Typed
<1>29. CASE TogglePause
  BY <1>29 DEF TogglePause, Typed
<1>30. CASE ApproveGate
  BY <1>30 DEF ApproveGate, Typed
<1>31. CASE Restart
  BY <1>31 DEF Restart, Typed, Worker, Places, Outcomes, Resting
<1>32. CASE UNCHANGED bvars
  BY <1>32 DEF Typed
<1> QED
  BY <1>1, <1>2, <1>3, <1>4, <1>5, <1>6, <1>7, <1>8, <1>9, <1>10, <1>11, <1>12, <1>13,
     <1>14, <1>15, <1>16,
     <1>17, <1>18, <1>19, <1>20, <1>21, <1>22, <1>23, <1>24, <1>25, <1>26, <1>27, <1>28, <1>29, <1>30, <1>31, <1>32
     DEF BackfillNext, LiveStep, JobStep, Environment

\* The invariant holds at the start.
LEMMA BackfillInvInit == ASSUME BackfillInit PROVE BackfillInv
<1>1. Typed
  <2>1. row \in [Targets -> Row]
    BY DEF BackfillInit, Rows, Row
  <2>2. source \in [Targets -> Nat] /\ newest \in [Targets -> Nat] /\ polled \in [Targets -> Nat]
    BY DEF BackfillInit
  <2>3. queued \in [Targets -> SUBSET {"live", "job"}]
    BY DEF BackfillInit
  <2>4. worker \in [Targets -> Worker]
    BY DEF BackfillInit, Resting, Worker, Places, Outcomes
  <2> QED
    BY <2>1, <2>2, <2>3, <2>4 DEF Typed
<1>2. \A z \in Targets : Slots(z)
  BY BackfillAssumption DEF BackfillInit, Slots, JobAt, Resting
<1>3. Stopped
  BY DEF BackfillInit, Stopped
<1>4. \A z \in Targets : Fresh(z)
  BY DEF BackfillInit, Fresh, Resting, Rows
<1>5. Swept
  BY BackfillAssumption, OrderedTargets DEF BackfillInit, Swept
<1> QED
  BY <1>1, <1>2, <1>3, <1>4, <1>5 DEF BackfillInv

\* The invariant holds throughout.
LEMMA BackfillInvariant == BackfillSpec => []BackfillInv
<1>1. BackfillInit => BackfillInv
  BY BackfillInvInit
<1>2. BackfillInv /\ [BackfillNext]_bvars => BackfillInv'
  BY TypedStep, SlotsStep, StoppedStep, FreshStep, SweptStep DEF BackfillInv
<1> QED
  BY <1>1, <1>2, PTL DEF BackfillSpec

-----------------------------------------------------------------------------
\* Every job in the pool has its slot until it has reported: the pool never
\* runs a job that _in_flight does not know, and never counts one twice.
THEOREM JobsKeepTheirSlots == BackfillSpec => []JobsHaveSlots
<1>1. BackfillInv => JobsHaveSlots
  BY DEF BackfillInv, Slots, JobsHaveSlots
<1> QED
  BY <1>1, BackfillInvariant, PTL

\* A drain that was confirmed, or a gate that was reported and not approved,
\* means that no job is queued or running.
THEOREM StopsAreQuiet == BackfillSpec => []QuietWhenStopped
<1>1. BackfillInv => QuietWhenStopped
  BY DEF BackfillInv, Slots, Stopped, QuietWhenStopped
<1> QED
  BY <1>1, BackfillInvariant, PTL

\* The steps that write a publication.
LEMMA RowWriters ==
  ASSUME [BackfillNext]_bvars, row' # row
  PROVE  \E z \in Targets : LiveRun(z) \/ Promote(z) \/ Publish(z) \/ JobFails(z)
BY DEF BackfillNext, LiveStep, JobStep, Environment, bvars, database,
  Rest, Drain, LiveRouted, LiveFails, Start, LoadHistory, CheckPublished, Report,
  Submit, Reap, Deliver, Vote, SourceRow, Route, TakeBack, Refuse, PutBack, Admit,
  Reconcile, Grace, Finish, Drained, Resumed, ReportGate, TogglePause, ApproveGate, Restart

\* A publication is never replaced by an older one, whichever of the live runs,
\* the promotions and the jobs wins the race for the row.
THEOREM LiveWritesWin == BackfillSpec => NeverOlder
<1>1. ASSUME BackfillInv, [BackfillNext]_bvars, NEW y \in Targets, row'[y] # row[y]
      PROVE  row'[y].lvt >= row[y].lvt
  <2> USE <1>1 DEF BackfillInv
  <2>1. PICK z \in Targets : LiveRun(z) \/ Promote(z) \/ Publish(z) \/ JobFails(z)
    BY RowWriters
  <2>2. row[z].lvt \in Nat /\ worker[z].lvt \in Nat /\ polled[z] \in Nat /\ newest[z] \in Nat
    BY DEF Typed, Row, Worker
  <2>3. PICK lvt : rewritten(z, lvt) /\ lvt >= row[z].lvt
    <3>1. CASE LiveRun(z)
      BY <3>1 DEF LiveRun
    <3>2. CASE Promote(z)
      BY <2>2, <3>2 DEF Promote
    <3>3. CASE Publish(z)
      BY <2>2, <3>3 DEF Publish, untouched, Fresh
    <3>4. CASE JobFails(z)
      BY <2>2, <3>4 DEF JobFails, untouched, Fresh
    <3> QED
      BY <2>1, <3>1, <3>2, <3>3, <3>4
  <2>4. row' = [row EXCEPT ![z] = [state |-> "valid", lvt |-> lvt]]
    BY <2>3 DEF rewritten
  <2>5. y = z
    BY <2>4 DEF Typed
  <2> QED
    BY <2>3, <2>4, <2>5 DEF Typed
<1>2. BackfillInv /\ [BackfillNext]_bvars
        => [\A z \in Targets : row'[z] # row[z] => row'[z].lvt >= row[z].lvt]_bvars
  BY <1>1
<1> QED
  BY <1>2, BackfillInvariant, PTL DEF BackfillSpec, NeverOlder

\* The step that ends a sweep as complete.
LEMMA Completing ==
  ASSUME [BackfillNext]_bvars, status' = "COMPLETE", choosing = "count", choosing' = None
  PROVE  Finish /\ completion = "COMPLETE"
<1>1. choosing' # choosing /\ choosing \notin Targets /\ choosing # None
  BY BackfillAssumption
<1>2. Finish
  BY <1>1, ZenonT(40) DEF BackfillNext, LiveStep, JobStep, Environment, bvars, Free, Admitting,
    Rest, Drain, LiveRun, LiveRouted, LiveFails, Start, LoadHistory, Publish, CheckPublished,
    Report, JobFails, Submit, Reap, Deliver, Vote, SourceRow, Route, TakeBack, Promote,
    Refuse, PutBack, Admit, Reconcile, Grace, Drained, Resumed, ReportGate, TogglePause,
    ApproveGate, Restart
<1> QED
  BY <1>2 DEF Finish

\* COMPLETE is the truth at that moment, although the count that decides it
\* never looks at invalid rows: the sweep has seen those.
THEOREM CompletionIsTrue == BackfillSpec => CompleteIsTrue
<1> DEFINE True == status' = "COMPLETE" /\ choosing = "count" /\ choosing' = None =>
                     in_flight = {} /\ \A z \in Targets : ~Needs(z)
<1>1. ASSUME BackfillInv, [BackfillNext]_bvars,
             status' = "COMPLETE", choosing = "count", choosing' = None
      PROVE  in_flight = {} /\ \A z \in Targets : ~Needs(z)
  <2>1. completion = "COMPLETE"
    BY <1>1, Completing
  <2>2. ~seen /\ \A z \in Targets : ~counted(z)
    BY <2>1 DEF completion, unresolved
  <2>3. in_flight = {} /\ cursor = Len(Order)
    BY <1>1 DEF BackfillInv, Swept
  <2>4. ASSUME NEW z \in Targets PROVE ~Needs(z)
    <3>1. PICK k \in 1..Len(Order) : z = Order[k]
      BY BackfillAssumption DEF Targets, Range
    <3>2. row[z].state # "invalid"
      BY <1>1, <2>2, <2>3, <3>1 DEF BackfillInv, Swept
    <3>3. row[z].state \in {"missing", "invalid", "valid"}
      BY <1>1 DEF BackfillInv, Typed, Row
    <3>4. ~counted(z)
      BY <2>2
    <3> QED
      BY <3>2, <3>3, <3>4 DEF counted, Needs, classify
  <2> QED
    BY <2>3, <2>4
<1>2. BackfillInv /\ [BackfillNext]_bvars => [True]_bvars
  BY <1>1
<1> QED
  BY <1>2, BackfillInvariant, PTL DEF BackfillSpec, CompleteIsTrue
=============================================================================
