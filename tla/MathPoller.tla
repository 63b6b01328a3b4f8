----------------------------- MODULE MathPoller -----------------------------
(***************************************************************************)
(* The Python math poller: polismath.poller.service.MathPollerService with *)
(* its ConversationWorkerPool and MathWriter, over the tables it reads and *)
(* writes.                                                                 *)
(*                                                                         *)
(* Three threads feed the pool: the vote poll and the moderation poll,     *)
(* each with its window, and the reconciler, which rebuilds parked         *)
(* conversations.  At most one worker drains a conversation.  It computes  *)
(* from the cached conversation and the batch, or from the full history,   *)
(* publishes, and only then caches.  What fails is retried RetryCap times  *)
(* and then parked until a thread heals it.                                *)
(*                                                                         *)
(* A conversation's matrix is the vote shown in each cell, known by its    *)
(* stamp; its moderation is the set of statements moderated out.  The PCA, *)
(* clusters and statistics derived from the two are functions of them and  *)
(* are left out.                                                           *)
(*                                                                         *)
(* A definition whose comment starts with "Slip:" is wrong on purpose: it  *)
(* is put in the place of the one after it to see a property fail.         *)
(***************************************************************************)
EXTENDS PollWindow, FiniteSets

CONSTANTS
  Zids, Cells, Tids,
  ThreadSets,       \* the sets of threads that may be running
  RetryCap,         \* MATH_POLLER_RETRY_CAP
  Unfinished,       \* conversations with a partial publication from before
  MaxStamp,         \* bound on stamps
  MaxModerations,   \* bound on changes of moderation
  MaxFaults,        \* bound on failed runs, crashes and evictions
  None

Polls == {"vote", "mod"}
Threads == Polls \cup {"reconcile"}
Stamps == 1..MaxStamp
Matrix == [Cells -> 0..MaxStamp]
Conv == [cells : Matrix, out : SUBSET Tids]
Published == [cells : Matrix, out : SUBSET Tids, whole : BOOLEAN]

ASSUME PollerAssumption ==
  /\ ThreadSets \subseteq SUBSET Threads
  /\ Unfinished \subseteq Zids
  /\ {RetryCap, MaxStamp, MaxModerations, MaxFaults} \subseteq Nat
  /\ None \notin Zids \cup Conv \cup Published

VARIABLES
  votes,        \* table votes: committed rows
  comments,     \* table comments: the current version of each statement
  math,         \* tables math_main, math_bidtopid, math_ptptstats
  missed,       \* history: rows that fell below a window unread
  win,          \* _vote_window, _mod_window (with the watermarks)
  rows,         \* what a poll in progress has read
  running,      \* the threads that are not stalled throughout
  thr,          \* where each thread is
  queue,        \* pool: what is queued for each conversation
  parked,       \* pool: conversations that are not processed
  unresolved,   \* pool: conversations whose live work has not succeeded
  worker,       \* pool: the worker of each conversation
  cache,        \* _convs
  attempts,     \* _retry_counts
  repaired,     \* _startup_repair_done
  changes,      \* history: when each statement's moderation was changed
  faults

tables == <<votes, comments, math>>
polls == <<running, missed, win, rows>>
pool == <<queue, unresolved, worker>>
memory == <<cache, attempts, repaired>>
bounds == <<changes, faults>>
pvars == <<tables, polls, thr, pool, parked, memory, bounds>>

Vote == [zid : Zids, item : Cells, stamp : Stamps]
Comment == [zid : Zids, item : Tids, stamp : 0..MaxStamp, out : BOOLEAN]
Batch == [votes : SUBSET Vote, mod : BOOLEAN, rebuild : BOOLEAN]
Window == [watermark : Nat, lower : Nat, handled : SUBSET (Vote \cup Comment)]
Worker == [at : {"idle", "loop", "load", "write", "keep"}, batch : Batch,
           conv : Conv \cup {None}, next : Conv \cup {None}]
Thread == [at : {"idle", "check", "invalidate", "unpark", "submit"},
           todo : SUBSET Zids, zid : Zids \cup {None}]

NoWork == [votes |-> {}, mod |-> FALSE, rebuild |-> FALSE]
EmptyMatrix == [c \in Cells |-> 0]
Resting == [at |-> "idle", batch |-> NoWork, conv |-> None, next |-> None]
Waiting == [at |-> "idle", todo |-> {}, zid |-> None]

PollerInit ==
  /\ votes = {}
  /\ comments = {[zid |-> z, item |-> t, stamp |-> 0, out |-> FALSE] :
                   z \in Zids, t \in Tids}
  /\ math = [z \in Zids |->
       IF z \in Unfinished
         THEN [cells |-> EmptyMatrix, out |-> {}, whole |-> FALSE] ELSE None]
  /\ running \in ThreadSets
  /\ missed = {}
  /\ win = [t \in Polls |-> start(0)]
  /\ rows = [t \in Polls |-> {}]
  /\ thr = [t \in Threads |-> Waiting]
  /\ queue = [z \in Zids |-> NoWork]
  /\ parked = {}
  /\ unresolved = {}
  /\ worker = [z \in Zids |-> Resting]
  /\ cache = [z \in Zids |-> None]
  /\ attempts = [z \in Zids |-> 0]
  /\ repaired = FALSE
  /\ changes = {}
  /\ faults = 0

-----------------------------------------------------------------------------
(* The server and its users                                                *)

\* The row, when the next poll of the thread will not read so far down.
below(t, r) == {x \in {r} : x.stamp <= win[t].lower}

\* A vote commits.  It was stamped at any time before.  What a stalled poll would
\* read is left out.
CommitVote(v) ==
  /\ "vote" \in running
  /\ v \notin votes
  /\ votes' = votes \cup {v}
  /\ missed' = missed \cup below("vote", v)
  /\ UNCHANGED <<comments, math, running, win, rows, thr, pool, parked, memory, bounds>>

\* A change of one statement's moderation commits, stamped at any time before;
\* no two changes of a statement are stamped with the same millisecond.
Moderate(c, stamp) ==
  /\ "mod" \in running
  /\ Cardinality(changes) < MaxModerations
  /\ [zid |-> c.zid, item |-> c.item, stamp |-> stamp] \notin changes
  /\ LET changed == [c EXCEPT !.stamp = stamp, !.out = ~@]
     IN  /\ comments' = (comments \ {c}) \cup {changed}
         /\ missed' = (missed \ {changed}) \cup below("mod", changed)
  /\ changes' = changes \cup {[zid |-> c.zid, item |-> c.item, stamp |-> stamp]}
  /\ UNCHANGED <<votes, math, running, win, rows, thr, pool, parked, memory, faults>>

-----------------------------------------------------------------------------
(* ConversationWorkerPool                                                  *)

\* coalesce_messages.
merged(a, b) == [votes   |-> a.votes \cup b.votes,
                 mod     |-> a.mod \/ b.mod,
                 rebuild |-> a.rebuild \/ b.rebuild]

\* submit, for every conversation that work has something for: dropped when it
\* is parked, else queued, and a worker is started when there is none.
submit_all(work) ==
  LET taken == {z \in Zids : work[z] # NoWork /\ z \notin parked}
  IN  /\ queue' = [z \in Zids |-> IF z \in taken THEN merged(queue[z], work[z])
                                                 ELSE queue[z]]
      /\ unresolved' = unresolved \cup taken
      /\ worker' = [z \in Zids |->
           IF z \in taken /\ worker[z].at = "idle"
             THEN [worker[z] EXCEPT !.at = "loop"] ELSE worker[z]]

submit(z, batch) == submit_all([y \in Zids |-> IF y = z THEN batch ELSE NoWork])

\* _run, nothing left to do: the worker goes.
Rest(z) ==
  /\ worker[z].at = "loop"
  /\ queue[z] = NoWork \/ z \in parked
  /\ queue' = [queue EXCEPT ![z] = NoWork]
  /\ worker' = [worker EXCEPT ![z] = Resting]
  /\ UNCHANGED <<tables, polls, thr, parked, unresolved, memory, bounds>>

\* _run takes all that is queued, coalesced, and _run_engine looks up the
\* cached conversation, unless the batch asks for a rebuild.  It may wait long
\* for its memory after that.
Drain(z) ==
  /\ worker[z].at = "loop"
  /\ queue[z] # NoWork
  /\ z \notin parked
  /\ queue' = [queue EXCEPT ![z] = NoWork]
  /\ worker' = [worker EXCEPT ![z] =
       [at |-> "load", batch |-> queue[z], next |-> None,
        conv |-> IF queue[z].rebuild THEN None ELSE cache[z]]]
  /\ UNCHANGED <<tables, polls, thr, parked, unresolved, memory, bounds>>

-----------------------------------------------------------------------------
(* Conversation                                                            *)

\* Slip: the votes of a batch are applied in the order they came.
update_votes_as_they_come(cells, batch) ==
  {f \in Matrix : \A c \in Cells :
     LET stamps == {v.stamp : v \in {w \in batch : w.item = c}}
     IN  IF stamps = {} THEN f[c] = cells[c] ELSE f[c] \in stamps}

\* Conversation.update_votes: the newest vote of the batch in each cell it has
\* votes for, whatever the cell showed.  The set holds the one result.
update_votes(cells, batch) ==
  {f \in Matrix : \A c \in Cells :
     LET stamps == {v.stamp : v \in {w \in batch : w.item = c}}
     IN  IF stamps = {} THEN f[c] = cells[c]
                        ELSE f[c] \in stamps /\ \A s \in stamps : s <= f[c]}

\* poll_moderation: the statements moderated out, as the table stands.
poll_moderation(z) == {c.item : c \in {d \in comments : d.zid = z /\ d.out}}

\* Conversation.update_moderation: an empty list leaves the set as it was.
update_moderation(out, listed) == IF listed = {} THEN out ELSE listed

\* _load_or_init: the full history over what is persisted, when that is whole
\* and can be read.
load_or_init(z) ==
  LET persisted == IF math[z] # None /\ math[z].whole THEN {math[z].out} ELSE {}
  IN  {[cells |-> f, out |-> update_moderation(o, poll_moderation(z))] :
         f \in update_votes(EmptyMatrix, {v \in votes : v.zid = z}),
         o \in persisted \cup {{}}}

\* Slip: moderation is read only when there are votes.
recomputed_for_votes(z, conv, batch) ==
  {[cells |-> f,
    out   |-> IF batch.mod /\ batch.votes # {}
                THEN update_moderation(conv.out, poll_moderation(z)) ELSE conv.out] :
     f \in update_votes(conv.cells, batch.votes)}

\* _compute_and_publish on a cached conversation.
recomputed(z, conv, batch) ==
  {[cells |-> f,
    out   |-> IF batch.mod THEN update_moderation(conv.out, poll_moderation(z))
                           ELSE conv.out] :
     f \in update_votes(conv.cells, batch.votes)}

Compute(z) ==
  /\ worker[z].at = "load"
  /\ \E c \in IF worker[z].conv = None THEN load_or_init(z)
              ELSE recomputed(z, worker[z].conv, worker[z].batch) :
       worker' = [worker EXCEPT ![z] = [@ EXCEPT !.at = "write", !.next = c]]
  /\ UNCHANGED <<tables, polls, thr, queue, parked, unresolved, memory, bounds>>

-----------------------------------------------------------------------------
(* MathWriter and the cache                                                *)

\* write_conv_updates: the three tables in one transaction, under one tick.
published(z) ==
  [math EXCEPT ![z] = [cells |-> worker[z].next.cells,
                       out   |-> worker[z].next.out, whole |-> TRUE]]

Write(z) ==
  /\ worker[z].at = "write"
  /\ math' = published(z)
  /\ worker' = [worker EXCEPT ![z].at = "keep"]
  /\ UNCHANGED <<votes, comments, polls, thr, queue, parked, unresolved, memory,
                 bounds>>

\* _remember; then the retry count is forgotten and the pool takes the work as
\* resolved, unless more was queued meanwhile.
Keep(z) ==
  /\ worker[z].at = "keep"
  /\ cache' = [cache EXCEPT ![z] = worker[z].next]
  /\ attempts' = [attempts EXCEPT ![z] = 0]
  /\ unresolved' = IF z \notin parked /\ queue[z] = NoWork
                     THEN unresolved \ {z} ELSE unresolved
  /\ worker' = [worker EXCEPT ![z] = [Resting EXCEPT !.at = "loop"]]
  /\ UNCHANGED <<tables, polls, thr, queue, parked, repaired, bounds>>

\* Conversations leave the cache for the count cap, for the bytes it may hold
\* or for the memory of another one.
Evict(z) ==
  /\ cache[z] # None
  /\ faults < MaxFaults
  /\ faults' = faults + 1
  /\ cache' = [cache EXCEPT ![z] = None]
  /\ UNCHANGED <<tables, polls, thr, pool, parked, attempts, repaired, changes>>

\* Slip: a rebuild is not asked for again (P-022 R03).
requeue_without_rebuild(z) ==
  merged(queue[z], [worker[z].batch EXCEPT !.rebuild = FALSE])

\* _requeue: what was queued meanwhile and everything the batch carried.
requeue(z) == merged(queue[z], worker[z].batch)

\* _on_engine_error: _requeue everything the batch carried, or park.
on_engine_error(z) ==
  /\ attempts' = [attempts EXCEPT ![z] = @ + 1]
  /\ worker' = [worker EXCEPT ![z] = [Resting EXCEPT !.at = "loop"]]
  /\ IF attempts[z] < RetryCap
       THEN /\ queue' = [queue EXCEPT ![z] = requeue(z)]
            /\ unresolved' = unresolved \cup {z}
            /\ UNCHANGED parked
       ELSE /\ queue' = [queue EXCEPT ![z] = NoWork]
            /\ parked' = parked \cup {z}
            /\ UNCHANGED unresolved

\* A read, the engine, the admission or the write fails; a commit whose answer
\* is lost fails too.
Fail(z) ==
  /\ worker[z].at \in {"load", "write"}
  /\ faults < MaxFaults
  /\ faults' = faults + 1
  /\ on_engine_error(z)
  /\ math' \in {math} \cup (IF worker[z].at = "write" THEN {published(z)} ELSE {})
  /\ UNCHANGED <<votes, comments, polls, thr, cache, repaired, changes>>

-----------------------------------------------------------------------------
(* The threads                                                             *)

Table(t) == IF t = "vote" THEN votes ELSE comments
split(t, polled) == IF t = "vote" THEN split_votes(win[t], polled)
                                  ELSE split_moderation(win[t], polled)
fresh(t) == split(t, rows[t])

\* _poll_votes_once, _poll_moderation_once: one statement reads the table.
Poll(t) ==
  /\ thr[t].at = "idle"
  /\ LET polled == poll_since(Table(t), win[t])
     IN  /\ rows' = [rows EXCEPT ![t] = polled]
         /\ thr' = [thr EXCEPT ![t] =
              [at |-> "check", todo |-> {r.zid : r \in split(t, polled)}, zid |-> None]]
  /\ UNCHANGED <<tables, running, missed, win, pool, parked, memory, bounds>>

\* _reconcile_once: the parked conversations as they are now.
Reconcile ==
  /\ "reconcile" \in running
  /\ thr["reconcile"].at = "idle"
  /\ parked # {}
  /\ thr' = [thr EXCEPT !["reconcile"] =
       [at |-> "check", todo |-> parked, zid |-> None]]
  /\ UNCHANGED <<tables, polls, pool, parked, memory, bounds>>

\* _unpark reads whether the conversation is parked ...
Check(t, z) ==
  /\ thr[t].at = "check"
  /\ z \in thr[t].todo
  /\ thr' = [thr EXCEPT ![t] =
       [at |-> IF z \in parked THEN "invalidate" ELSE "submit",
        todo |-> thr[t].todo \ {z}, zid |-> z]]
  /\ UNCHANGED <<tables, polls, pool, parked, memory, bounds>>

\* ... forgets its retries and drops it from the cache ...
Invalidate(t) ==
  LET z == thr[t].zid
  IN  /\ thr[t].at = "invalidate"
      /\ cache' = [cache EXCEPT ![z] = None]
      /\ attempts' = [attempts EXCEPT ![z] = 0]
      /\ thr' = [thr EXCEPT ![t].at = "unpark"]
      /\ UNCHANGED <<tables, polls, pool, parked, repaired, bounds>>

\* ... and lets it be processed again.
Unpark(t) ==
  /\ thr[t].at = "unpark"
  /\ parked' = parked \ {thr[t].zid}
  /\ thr' = [thr EXCEPT ![t].at = "submit"]
  /\ UNCHANGED <<tables, polls, pool, memory, bounds>>

work_of(t, z) ==
  [votes   |-> IF t = "vote" THEN {r \in fresh(t) : r.zid = z} ELSE {},
   mod     |-> t = "mod",
   rebuild |-> t = "reconcile"]

Submit(t) ==
  /\ thr[t].at = "submit"
  /\ submit(thr[t].zid, work_of(t, thr[t].zid))
  /\ thr' = [thr EXCEPT ![t].at = "check", ![t].zid = None]
  /\ UNCHANGED <<tables, polls, parked, memory, bounds>>

\* The end of a poll: the watermark and the window move.
Advance(t) ==
  /\ thr[t].at = "check"
  /\ thr[t].todo = {}
  /\ \E m \in advance_watermark(win[t].watermark, rows[t]) :
       /\ win' = [win EXCEPT ![t] = advanced(win[t], rows[t], m)]
       /\ missed' = missed \cup {r \in Table(t) \ rows[t] :
                                    r.stamp > win[t].lower
                                    /\ r.stamp <= lower_after(win[t], m)}
  /\ rows' = [rows EXCEPT ![t] = {}]
  /\ thr' = [thr EXCEPT ![t] = Waiting]
  /\ UNCHANGED <<tables, running, pool, parked, memory, bounds>>

Reconciled ==
  /\ "reconcile" \in running
  /\ thr["reconcile"].at = "check"
  /\ thr["reconcile"].todo = {}
  /\ thr' = [thr EXCEPT !["reconcile"] = Waiting]
  /\ UNCHANGED <<tables, polls, pool, parked, memory, bounds>>

\* _repair_incomplete_snapshots: once per process, from start() or, when that
\* failed, from the reconciler.
Repair ==
  /\ ~repaired
  /\ submit_all([z \in Zids |->
       IF math[z] # None /\ ~math[z].whole
         THEN [NoWork EXCEPT !.rebuild = TRUE] ELSE NoWork])
  /\ repaired' = TRUE
  /\ UNCHANGED <<tables, polls, thr, parked, cache, attempts, bounds>>

\* The process ends at any point and is started again: only the tables stay.
\* The first watermark lies days back, before every vote the model has.
Restart ==
  /\ faults < MaxFaults
  /\ faults' = faults + 1
  /\ missed' = {}
  /\ win' = [t \in Polls |-> start(0)]
  /\ rows' = [t \in Polls |-> {}]
  /\ thr' = [t \in Threads |-> Waiting]
  /\ queue' = [z \in Zids |-> NoWork]
  /\ parked' = {}
  /\ unresolved' = {}
  /\ worker' = [z \in Zids |-> Resting]
  /\ cache' = [z \in Zids |-> None]
  /\ attempts' = [z \in Zids |-> 0]
  /\ repaired' = FALSE
  /\ UNCHANGED <<tables, running, changes>>

-----------------------------------------------------------------------------
ThreadStep(t) ==
  \/ t \in Polls /\ (Poll(t) \/ Advance(t))
  \/ \E z \in Zids : Check(t, z)
  \/ Invalidate(t) \/ Unpark(t) \/ Submit(t)

WorkerStep(z) == Rest(z) \/ Drain(z) \/ Compute(z) \/ Write(z) \/ Keep(z)

PollerNext ==
  \/ \E v \in Vote : CommitVote(v)
  \/ \E c \in comments, s \in Stamps : Moderate(c, s)
  \/ \E t \in running : ThreadStep(t)
  \/ Reconcile \/ Reconciled \/ Repair
  \/ \E z \in Zids : WorkerStep(z) \/ Fail(z) \/ Evict(z)
  \/ Restart

PollerSpec == PollerInit /\ [][PollerNext]_pvars

\* The loops and the pool's threads go on; nothing needs to fail, to be evicted
\* or to be restarted.  The reconciler comes round whatever the others do.
PollerFair ==
  /\ \A t \in Threads : WF_pvars(t \in running /\ ThreadStep(t))
  /\ \A z \in Zids : WF_pvars(WorkerStep(z))
  /\ WF_pvars(Reconcile) /\ WF_pvars(Reconciled) /\ WF_pvars(Repair)

FairPollerSpec == PollerSpec /\ PollerFair

-----------------------------------------------------------------------------
(* Properties                                                              *)

\* Types.  The tables hold at most one row per conversation, the pool at most
\* one worker.
PollerTypeOK ==
  /\ votes \in SUBSET Vote
  /\ comments \in SUBSET Comment
  /\ math \in [Zids -> Published \cup {None}]
  /\ missed \in SUBSET (Vote \cup Comment)
  /\ running \in ThreadSets
  /\ win \in [Polls -> Window]
  /\ rows \in [Polls -> SUBSET (Vote \cup Comment)]
  /\ thr \in [Threads -> Thread]
  /\ queue \in [Zids -> Batch]
  /\ parked \in SUBSET Zids
  /\ unresolved \in SUBSET Zids
  /\ worker \in [Zids -> Worker]
  /\ cache \in [Zids -> Conv \cup {None}]
  /\ attempts \in [Zids -> Nat]
  /\ repaired \in BOOLEAN
  /\ changes \in SUBSET [zid : Zids, item : Tids, stamp : Stamps]
  /\ faults \in 0..MaxFaults

Healing(t, z) == thr[t].zid = z /\ thr[t].at \in {"invalidate", "unpark", "submit"}

\* Work that has not succeeded is never neither queued, running nor parked:
\* the bug of P-022 R03 that _requeue and submit guard against.
NeverStranded ==
  \A z \in unresolved :
    worker[z].at # "idle" \/ z \in parked \/ \E t \in Threads : Healing(t, z)

\* A vote escapes the poll only when one stamped a whole overlap later was
\* committed: what PollWindow promises of late commits.
MissedOnlyWhenLate ==
  \A v \in missed \cap votes : \E r \in votes : r.stamp >= v.stamp + Overlap

Unread(v) == v.stamp > win["vote"].lower
             /\ v \notin win["vote"].handled \cup rows["vote"]
AtLeast(v, batch) == \E w \in batch : w.zid = v.zid /\ w.item = v.item
                                      /\ w.stamp >= v.stamp
Rebuilding(z) ==
  \/ z \in parked \/ queue[z].rebuild \/ worker[z].batch.rebuild
  \/ \E t \in Threads : Healing(t, z)
Loading(z) ==
  \/ queue[z] # NoWork /\ cache[z] = None
  \/ worker[z].at = "load" /\ worker[z].conv = None
Holds(conv, v) == conv # None /\ conv.cells[v.item] >= v.stamp
OnItsWay(v) ==
  \/ AtLeast(v, {w \in fresh("vote") : w.zid \in thr["vote"].todo \cup {thr["vote"].zid}})
  \/ AtLeast(v, queue[v.zid].votes \cup worker[v.zid].batch.votes)
  \/ Rebuilding(v.zid) \/ Loading(v.zid)
  \/ Holds(worker[v.zid].next, v)

\* A committed vote that the windows did not miss is shown, or a newer one of
\* its cell is, or is still to come: whatever fails, is retried, parked, healed,
\* evicted or delivered late.
NothingForgotten ==
  \A v \in votes \ missed : Unread(v) \/ OnItsWay(v) \/ Holds(math[v.zid], v)

ModerationPending(z) ==
  \/ worker[z].at # "idle" \/ Rebuilding(z)
  \/ z \in thr["mod"].todo
  \/ \E c \in comments :
       c.zid = z /\ (c \in missed \/ (c.stamp > win["mod"].lower
                                      /\ c \notin win["mod"].handled \cup rows["mod"]))

\* With every change of moderation delivered, the statements moderated out are
\* the published ones, when there are any.
ModerationSettles ==
  \A z \in Zids : ~ModerationPending(z) /\ poll_moderation(z) # {}
    => math[z].out = poll_moderation(z)

\* ... and when there are none: _compute_and_publish says that reading the whole
\* moderation state "also captures un-moderation".
UnModerationCaptured ==
  \A z \in Zids : ~ModerationPending(z) /\ math[z] # None
    => math[z].out = poll_moderation(z)

Mirror == INSTANCE MathMirror WITH
  missed <- missed \cap votes,
  shown <- [z \in Zids |-> IF math[z] = None THEN EmptyMatrix ELSE math[z].cells]

\* The poller is a mirror of the votes: what it shows was always voted, and no
\* conversation stays behind for good.
ImplementsMirror == Mirror!Spec

\* A publication that was left in pieces before the start is replaced although
\* nobody votes there: _repair_incomplete_snapshots and the reconciler.
PiecesAreReplaced ==
  \A z \in Unfinished : <>(math[z].whole)
=============================================================================
