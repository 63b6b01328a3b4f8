---------------------------- MODULE PollerProofs ----------------------------
(***************************************************************************)
(* Proofs about MathPoller, for any conversations, threads and bounds.     *)
(***************************************************************************)
EXTENDS MathPoller, TLAPS

Busy(t) == thr[t].at \in {"invalidate", "unpark", "submit"}

\* What a poll has read is in its table, and a computed conversation is there.
Reads ==
  /\ rows["vote"] \subseteq votes
  /\ rows["mod"] \subseteq Comment
  /\ \A z \in Zids : worker[z].at \in {"write", "keep"} => worker[z].next # None
  /\ \A t \in Threads : Busy(t) => thr[t].zid \in Zids

Types == PollerTypeOK /\ Reads

\* A worker past the queue has something to do.
CarriedWork ==
  \A z \in Zids : worker[z].at \in {"load", "write", "keep"} => worker[z].batch # NoWork

\* The conversations that the vote poll has in hand have votes of the poll.
Awaits(z) == \E r \in fresh("vote") : r.zid = z
CarriedVotes ==
  /\ \A z \in thr["vote"].todo : Awaits(z)
  /\ Busy("vote") => Awaits(thr["vote"].zid)

\* NeverStranded with what is queued for an idle worker spelled out.
Alive(z) ==
  \/ worker[z].at \in {"load", "write", "keep"}
  \/ worker[z].at = "loop" /\ queue[z] # NoWork
  \/ z \in parked
  \/ \E t \in Threads : Healing(t, z)

Unstranded == \A z \in unresolved : Alive(z)

Overtaken(stamp) == \E r \in votes : r.stamp >= stamp

\* The window moved, and a vote was missed, only for a vote stamped so late.
Justified ==
  /\ \A v \in missed : v \in Vote => v \in votes
  /\ win["vote"].watermark = 0 \/ Overtaken(win["vote"].watermark)
  /\ win["vote"].lower = 0 \/ Overtaken(win["vote"].lower + Overlap)
  /\ MissedOnlyWhenLate

\* The votes of a conversation; cells that show some of them.
Own(vs, z) == {v \in vs : v.zid = z}
Voted(vs, z, cells) ==
  \A c \in Cells : cells[c] # 0 =>
    \E v \in vs : v.zid = z /\ v.item = c /\ v.stamp = cells[c]

\* Every conversation, wherever it is, shows votes that were cast.
Genuine(z) ==
  /\ math[z] # None => Voted(votes, z, math[z].cells)
  /\ cache[z] # None => Voted(votes, z, cache[z].cells)
  /\ worker[z].conv # None => Voted(votes, z, worker[z].conv.cells)
  /\ worker[z].next # None => Voted(votes, z, worker[z].next.cells)
  /\ queue[z].votes \subseteq Own(votes, z)
  /\ worker[z].batch.votes \subseteq Own(votes, z)

PollerInv ==
  /\ Types
  /\ CarriedWork
  /\ CarriedVotes
  /\ Unstranded
  /\ Justified
  /\ \A z \in Zids : Genuine(z)

\* None is not a conversation.
LEMMA NoneIsNoConv == None \notin Conv
BY PollerAssumption

\* What is computed is a conversation.
LEMMA ComputedTyped ==
  ASSUME Types, NEW z \in Zids
  PROVE  /\ load_or_init(z) \subseteq Conv
         /\ \A conv \in Conv : \A batch : recomputed(z, conv, batch) \subseteq Conv
<1>1. \A cells, batch : update_votes(cells, batch) \subseteq Matrix
  BY DEF update_votes
<1>2. poll_moderation(z) \subseteq Tids
  BY DEF poll_moderation, Types, PollerTypeOK, Comment
<1>3. \A out \in SUBSET Tids : update_moderation(out, poll_moderation(z)) \in SUBSET Tids
  BY <1>2 DEF update_moderation
<1>4. math[z] # None => math[z].out \in SUBSET Tids
  BY DEF Types, PollerTypeOK, Published
<1>5. load_or_init(z) \subseteq Conv
  <2>1. SUFFICES ASSUME NEW c \in load_or_init(z) PROVE c \in Conv
    OBVIOUS
  <2>2. PICK f \in update_votes(EmptyMatrix, {v \in votes : v.zid = z}), o \in SUBSET Tids :
          c = [cells |-> f, out |-> update_moderation(o, poll_moderation(z))]
    BY <1>4 DEF load_or_init
  <2> QED
    BY <1>1, <1>3, <2>2 DEF Conv
<1>6. ASSUME NEW conv \in Conv, NEW batch
      PROVE recomputed(z, conv, batch) \subseteq Conv
  BY <1>1, <1>3 DEF recomputed, Conv
<1> QED
  BY <1>5, <1>6

\* What a thread submits is a batch.
LEMMA WorkTyped ==
  ASSUME Types, NEW t \in Threads, NEW z PROVE work_of(t, z) \in Batch
<1>1. fresh("vote") \subseteq Vote
  BY DEF fresh, split, split_votes, Types, PollerTypeOK, Reads
<1> QED
  BY <1>1 DEF work_of, Batch

\* What submitting leaves of the pool.
SubmitTypes ==
  /\ queue' \in [Zids -> Batch] /\ unresolved' \in SUBSET Zids /\ worker' \in [Zids -> Worker]
  /\ \A z \in Zids : worker'[z].at \in {"write", "keep"} => worker'[z].next # None

\* submit keeps the types of the pool.
LEMMA SubmitTyped ==
  ASSUME Types, NEW work \in [Zids -> Batch], submit_all(work) PROVE SubmitTypes
<1>1. \A a, b \in Batch : merged(a, b) \in Batch
  BY DEF merged, Batch
<1>2. queue' \in [Zids -> Batch]
  BY <1>1 DEF submit_all, Types, PollerTypeOK
<1>3. unresolved' \in SUBSET Zids
  BY DEF submit_all, Types, PollerTypeOK
<1>4. \A z \in Zids : worker[z] \in Worker /\ [worker[z] EXCEPT !.at = "loop"] \in Worker
  BY DEF Types, PollerTypeOK, Worker
<1>5. \A z \in Zids : worker'[z] \in {worker[z], [worker[z] EXCEPT !.at = "loop"]}
  BY DEF submit_all
<1>6. worker' \in [Zids -> Worker]
  BY <1>4, <1>5 DEF submit_all
<1>7. \A z \in Zids : worker'[z].at \in {"write", "keep"} => worker'[z].next # None
  <2>1. TAKE z \in Zids
  <2>2. CASE worker'[z] = worker[z]
    BY <2>2 DEF Types, Reads
  <2>3. CASE worker'[z] = [worker[z] EXCEPT !.at = "loop"]
    BY <1>4, <2>3 DEF Worker
  <2> QED
    BY <1>5, <2>2, <2>3
<1> QED
  BY <1>2, <1>3, <1>6, <1>7 DEF SubmitTypes

\* Every step keeps the types.
LEMMA TypesStep ==
  ASSUME PollerInv, [PollerNext]_pvars
  PROVE  Types'
<1> USE PollerAssumption, OverlapAssumption
        DEF PollerInv, tables, polls, pool, memory, bounds, pvars
<1>1. ASSUME NEW v \in Vote, CommitVote(v) PROVE Types'
  <2>1. votes' \in SUBSET Vote /\ votes \subseteq votes'
    BY <1>1 DEF CommitVote, Types, PollerTypeOK
  <2>2. missed' \in SUBSET (Vote \cup Comment)
    BY <1>1 DEF CommitVote, below, Types, PollerTypeOK
  <2>3. UNCHANGED <<comments, math, running, win, rows, thr, queue, parked, unresolved,
        worker, cache, attempts, repaired, changes, faults>>
    BY <1>1 DEF CommitVote
  <2> QED
    BY <2>1, <2>2, <2>3 DEF Types, PollerTypeOK, Reads, Busy
<1>2. ASSUME NEW c \in comments, NEW s \in Stamps, Moderate(c, s) PROVE Types'
  <2>1. c \in Comment
    BY DEF Types, PollerTypeOK
  <2>2. [c EXCEPT !.stamp = s, !.out = ~c.out] \in Comment
    <3>1. c \in [zid : Zids, item : Tids, stamp : 0..MaxStamp, out : BOOLEAN]
      BY <2>1 DEF Comment
    <3>2. s \in 0..MaxStamp
      BY DEF Stamps
    <3>3. (~c.out) \in BOOLEAN
      OBVIOUS
    <3> HIDE DEF PollerInv
    <3> QED
      BY <3>1, <3>2, <3>3 DEF Comment
  <2>3. comments' \in SUBSET Comment
    BY <1>2, <2>2 DEF Moderate, Types, PollerTypeOK
  <2>4. missed' \in SUBSET (Vote \cup Comment)
    BY <1>2, <2>2 DEF Moderate, below, Types, PollerTypeOK
  <2>5. changes' \in SUBSET [zid : Zids, item : Tids, stamp : Stamps]
    BY <1>2, <2>1 DEF Moderate, Types, PollerTypeOK, Comment
  <2>6. UNCHANGED <<votes, math, running, win, rows, thr, queue, parked, unresolved,
        worker, cache, attempts, repaired, faults>>
    BY <1>2 DEF Moderate
  <2> QED
    BY <2>1, <2>2, <2>3, <2>4, <2>5, <2>6 DEF Types, PollerTypeOK, Reads, Busy
<1>3. ASSUME NEW t \in Polls, Poll(t) PROVE Types'
  <2>1. PICK polled : /\ polled = poll_since(Table(t), win[t])
                     /\ rows' = [rows EXCEPT ![t] = polled]
                     /\ thr' = [thr EXCEPT ![t] = [at |-> "check",
                                  todo |-> {r.zid : r \in split(t, polled)}, zid |-> None]]
    BY <1>3 DEF Poll
  <2>2. /\ t = "vote" => polled \subseteq votes
        /\ t = "mod" => polled \subseteq comments
    BY <2>1 DEF poll_since, Table, Polls
  <2>3. polled \subseteq Vote \cup Comment
    BY <2>2 DEF Types, PollerTypeOK, Polls
  <2>4. {r.zid : r \in split(t, polled)} \subseteq Zids
    BY <2>3 DEF split, split_votes, split_moderation, Vote, Comment
  <2>5. rows' \in [Polls -> SUBSET (Vote \cup Comment)] /\ Polls \subseteq Threads
    BY <2>1, <2>3 DEF Types, PollerTypeOK, Polls, Threads
  <2>6. rows'["vote"] \subseteq votes /\ rows'["mod"] \subseteq Comment
    BY <2>1, <2>2 DEF Types, PollerTypeOK, Polls, Reads
  <2>7. thr' \in [Threads -> Thread] /\ thr'[t].at = "check" /\ \A u \in Threads : u # t => thr'[u] = thr[u]
    BY <2>1, <2>4, <2>5 DEF Types, PollerTypeOK, Thread
  <2>8. UNCHANGED <<votes, comments, math, missed, running, win, queue, parked,
        unresolved, worker, cache, attempts, repaired, changes, faults>>
    BY <1>3 DEF Poll
  <2> QED
    BY <2>1, <2>2, <2>3, <2>4, <2>5, <2>6, <2>7, <2>8
       DEF Types, PollerTypeOK, Reads, Busy
<1>4. ASSUME NEW t \in Polls, Advance(t) PROVE Types'
  <2>1. PICK m \in advance_watermark(win[t].watermark, rows[t]) :
          /\ win' = [win EXCEPT ![t] = advanced(win[t], rows[t], m)]
          /\ missed' = missed \cup {r \in Table(t) \ rows[t] :
                          r.stamp > win[t].lower /\ r.stamp <= lower_after(win[t], m)}
    BY <1>4 DEF Advance
  <2>2. win[t].watermark \in Nat /\ win[t].lower \in Nat /\ rows[t] \subseteq Vote \cup Comment
    BY DEF Types, PollerTypeOK, Window
  <2>3. m \in Nat
    BY <2>2 DEF advance_watermark, Vote, Comment, Stamps
  <2>4. lower_after(win[t], m) \in Nat
    BY <2>2, <2>3 DEF lower_after
  <2>5. advanced(win[t], rows[t], m) \in Window
    BY <2>2, <2>3, <2>4 DEF advanced, Window
  <2>6. win' \in [Polls -> Window]
    BY <2>1, <2>5 DEF Types, PollerTypeOK
  <2>7. missed' \in SUBSET (Vote \cup Comment)
    BY <2>1 DEF Types, PollerTypeOK, Table
  <2>8. rows' = [rows EXCEPT ![t] = {}] /\ thr' = [thr EXCEPT ![t] = Waiting]
    BY <1>4 DEF Advance
  <2>9. rows' \in [Polls -> SUBSET (Vote \cup Comment)] /\ \A u \in Polls : rows'[u] \subseteq rows[u]
    BY <2>8 DEF Types, PollerTypeOK
  <2>10. Waiting \in Thread
    BY DEF Waiting, Thread
  <2>11. thr' \in [Threads -> Thread]
    BY <2>8, <2>10 DEF Types, PollerTypeOK
  <2>12. \A u \in Threads : thr'[u] = thr[u] \/ thr'[u].at = "idle"
    BY <2>8 DEF Types, PollerTypeOK, Waiting
  <2>13. "vote" \in Polls /\ "mod" \in Polls
    BY DEF Polls
  <2>14. UNCHANGED <<votes, comments, math, running, queue, parked, unresolved, worker,
         cache, attempts, repaired, changes, faults>>
    BY <1>4 DEF Advance
  <2> QED
    BY <2>1, <2>2, <2>3, <2>4, <2>5, <2>6, <2>7, <2>8, <2>9, <2>10, <2>11, <2>12,
       <2>13, <2>14 DEF Types, PollerTypeOK, Reads, Busy
<1>5. ASSUME NEW t \in Threads, NEW z \in Zids, Check(t, z) PROVE Types'
  BY <1>5 DEF Check, Thread, Types, PollerTypeOK, Reads, Busy
<1>6. ASSUME NEW t \in Threads, Invalidate(t) PROVE Types'
  <2>1. thr' = [thr EXCEPT ![t].at = "unpark"] /\ thr[t].zid \in Zids
    BY <1>6 DEF Invalidate, Types, Reads, Busy
  <2>2. thr' \in [Threads -> Thread]
    BY <2>1 DEF Types, PollerTypeOK, Thread
  <2>3. \A u \in Threads : thr'[u] = thr[u] \/ thr'[u].zid \in Zids
    BY <2>1 DEF Types, PollerTypeOK
  <2>4. cache' \in [Zids -> Conv \cup {None}] /\ attempts' \in [Zids -> Nat]
    BY <1>6 DEF Invalidate, Types, PollerTypeOK
  <2>5. UNCHANGED <<votes, comments, math, missed, running, win, rows, queue, parked,
        unresolved, worker, repaired, changes, faults>>
    BY <1>6 DEF Invalidate
  <2> QED
    BY <2>1, <2>2, <2>3, <2>4, <2>5 DEF Types, PollerTypeOK, Reads, Busy
<1>7. ASSUME NEW t \in Threads, Unpark(t) PROVE Types'
  <2>1. thr' = [thr EXCEPT ![t].at = "submit"] /\ thr[t].zid \in Zids
    BY <1>7 DEF Unpark, Types, Reads, Busy
  <2>2. thr' \in [Threads -> Thread]
    BY <2>1 DEF Types, PollerTypeOK, Thread
  <2>3. \A u \in Threads : thr'[u] = thr[u] \/ thr'[u].zid \in Zids
    BY <2>1 DEF Types, PollerTypeOK
  <2>4. parked' \in SUBSET Zids
    BY <1>7 DEF Unpark, Types, PollerTypeOK
  <2>5. UNCHANGED <<votes, comments, math, missed, running, win, rows, queue,
        unresolved, worker, cache, attempts, repaired, changes, faults>>
    BY <1>7 DEF Unpark
  <2> QED
    BY <2>1, <2>2, <2>3, <2>4, <2>5 DEF Types, PollerTypeOK, Reads, Busy
<1>8. ASSUME NEW t \in Threads, Submit(t) PROVE Types'
  <2>1. /\ thr[t].zid \in Zids /\ submit(thr[t].zid, work_of(t, thr[t].zid))
        /\ thr' = [thr EXCEPT ![t].at = "check", ![t].zid = None]
    BY <1>8 DEF Submit, Types, Reads, Busy
  <2>2. thr' \in [Threads -> Thread] /\ \A u \in Threads : thr'[u] = thr[u] \/ thr'[u].at = "check"
    BY <2>1 DEF Types, PollerTypeOK, Thread
  <2>3. work_of(t, thr[t].zid) \in Batch
    BY WorkTyped
  <2>4. [y \in Zids |-> IF y = thr[t].zid THEN work_of(t, thr[t].zid) ELSE NoWork] \in [Zids -> Batch]
    BY <2>3 DEF NoWork, Batch
  <2>5. SubmitTypes
    BY <2>1, <2>4, SubmitTyped DEF submit
  <2>6. UNCHANGED <<votes, comments, math, missed, running, win, rows, parked, cache,
        attempts, repaired, changes, faults>>
    BY <1>8 DEF Submit
  <2> QED
    BY <2>1, <2>2, <2>3, <2>4, <2>5, <2>6
       DEF Types, PollerTypeOK, Reads, Busy, SubmitTypes
<1>9. ASSUME NEW z \in Zids, Rest(z) PROVE Types'
  BY <1>9 DEF Rest, Resting, Worker, Batch, NoWork, Types, PollerTypeOK, Reads, Busy
<1>10. ASSUME NEW z \in Zids, Drain(z) PROVE Types'
  BY <1>10 DEF Drain, Worker, Batch, NoWork, Types, PollerTypeOK, Reads, Busy
<1>11. ASSUME NEW z \in Zids, Compute(z) PROVE Types'
  <2>1. worker[z] \in Worker
    BY DEF Types, PollerTypeOK
  <2>2. worker[z].conv = None \/ worker[z].conv \in Conv
    BY <2>1 DEF Worker
  <2>3. PICK c \in IF worker[z].conv = None THEN load_or_init(z)
                ELSE recomputed(z, worker[z].conv, worker[z].batch) :
           worker' = [worker EXCEPT ![z] = [@ EXCEPT !.at = "write", !.next = c]]
    BY <1>11 DEF Compute
  <2>4. c \in Conv
    BY <2>2, <2>3, ComputedTyped, NoneIsNoConv
  <2>5. [worker[z] EXCEPT !.at = "write", !.next = c] \in Worker
    BY <2>1, <2>4 DEF Worker
  <2>6. worker' \in [Zids -> Worker] /\ \A y \in Zids : y # z => worker'[y] = worker[y]
    BY <2>3, <2>5 DEF Types, PollerTypeOK
  <2>7. worker'[z].next # None
    <3>1. worker'[z] = [worker[z] EXCEPT !.at = "write", !.next = c]
      BY <2>3 DEF Types, PollerTypeOK
    <3>2. worker'[z].next = c
      BY <2>1, <3>1 DEF Worker
    <3> QED
      BY <2>4, <3>2, NoneIsNoConv
  <2>8. UNCHANGED <<votes, comments, math, missed, running, win, rows, thr, queue,
        parked, unresolved, cache, attempts, repaired, changes, faults>>
    BY <1>11 DEF Compute
  <2> QED
    BY <2>1, <2>2, <2>3, <2>4, <2>5, <2>6, <2>7, <2>8
       DEF Types, PollerTypeOK, Reads, Busy
<1>12. ASSUME NEW z \in Zids, Write(z) PROVE Types'
  <2>1. worker[z].next \in Conv
    BY <1>12 DEF Write, Types, PollerTypeOK, Reads, Worker
  <2>2. published(z) \in [Zids -> Published \cup {None}]
    BY <2>1 DEF published, Published, Conv, Types, PollerTypeOK
  <2>3. math' \in [Zids -> Published \cup {None}]
    BY <1>12, <2>2 DEF Write
  <2>4. worker' = [worker EXCEPT ![z].at = "keep"] /\ worker[z].at = "write"
    BY <1>12 DEF Write
  <2>5. worker' \in [Zids -> Worker]
    BY <2>4, SMTT(40) DEF Types, PollerTypeOK, Worker
  <2>6. \A y \in Zids : worker'[y].at \in {"write", "keep"} => worker'[y].next # None
    BY <2>4 DEF Types, PollerTypeOK, Reads
  <2>7. UNCHANGED <<votes, comments, missed, running, win, rows, thr, queue, parked,
        unresolved, cache, attempts, repaired, changes, faults>>
    BY <1>12 DEF Write
  <2> QED
    BY <2>1, <2>2, <2>3, <2>4, <2>5, <2>6, <2>7 DEF Types, PollerTypeOK, Reads, Busy
<1>13. ASSUME NEW z \in Zids, Keep(z) PROVE Types'
  BY <1>13 DEF Keep, Resting, Worker, Batch, NoWork, Types, PollerTypeOK, Reads, Busy
<1>14. ASSUME NEW z \in Zids, Fail(z) PROVE Types'
  <2>1. math' \in [Zids -> Published \cup {None}]
    <3>1. CASE worker[z].at = "write"
      <4>1. worker[z].next \in Conv
        BY <3>1 DEF Types, PollerTypeOK, Reads, Worker
      <4>2. published(z) \in [Zids -> Published \cup {None}]
        BY <4>1 DEF published, Published, Conv, Types, PollerTypeOK
      <4> QED
        BY <1>14, <4>2 DEF Fail, Types, PollerTypeOK
    <3>2. CASE worker[z].at # "write"
      BY <1>14, <3>2 DEF Fail, Types, PollerTypeOK
    <3> QED
      BY <3>1, <3>2
  <2>2. requeue(z) \in Batch /\ NoWork \in Batch
    BY DEF requeue, merged, Types, PollerTypeOK, Worker, Batch, NoWork
  <2>3. queue' \in [Zids -> Batch]
    BY <1>14, <2>2 DEF Fail, on_engine_error, Types, PollerTypeOK
  <2>4. parked' \in SUBSET Zids /\ unresolved' \in SUBSET Zids
    BY <1>14 DEF Fail, on_engine_error, Types, PollerTypeOK
  <2>5. [Resting EXCEPT !.at = "loop"] \in Worker
    BY DEF Resting, Worker, Batch, NoWork
  <2>6. worker' = [worker EXCEPT ![z] = [Resting EXCEPT !.at = "loop"]]
    BY <1>14 DEF Fail, on_engine_error
  <2>7. worker' \in [Zids -> Worker]
    BY <2>5, <2>6 DEF Types, PollerTypeOK
  <2>8. \A y \in Zids : worker'[y].at \in {"write", "keep"} => worker'[y].next # None
    BY <2>6 DEF Types, PollerTypeOK, Reads, Resting
  <2>9. attempts' \in [Zids -> Nat]
    BY <1>14 DEF Fail, on_engine_error, Types, PollerTypeOK
  <2>10. faults' \in 0..MaxFaults
    BY <1>14 DEF Fail, Types, PollerTypeOK
  <2>11. UNCHANGED <<votes, comments, missed, running, win, rows, thr, cache, repaired,
         changes>>
    BY <1>14 DEF Fail, on_engine_error
  <2> QED
    BY <2>1, <2>2, <2>3, <2>4, <2>5, <2>6, <2>7, <2>8, <2>9, <2>10, <2>11
       DEF Types, PollerTypeOK, Reads, Busy
<1>15. ASSUME NEW z \in Zids, Evict(z) PROVE Types'
  BY <1>15 DEF Evict, Types, PollerTypeOK, Reads, Busy
<1>16. CASE Reconcile
  BY <1>16 DEF Reconcile, Thread, Types, PollerTypeOK, Reads, Busy
<1>17. CASE Reconciled
  BY <1>17 DEF Reconciled, Waiting, Thread, Types, PollerTypeOK, Reads, Busy
<1>18. CASE Repair
  <2>1. [z \in Zids |-> IF math[z] # None /\ ~math[z].whole
           THEN [NoWork EXCEPT !.rebuild = TRUE] ELSE NoWork] \in [Zids -> Batch]
    BY DEF NoWork, Batch
  <2>2. SubmitTypes
    BY <1>18, <2>1, SubmitTyped DEF Repair
  <2>3. repaired' \in BOOLEAN
    BY <1>18 DEF Repair
  <2>4. UNCHANGED <<votes, comments, math, missed, running, win, rows, thr, parked,
        cache, attempts, changes, faults>>
    BY <1>18 DEF Repair
  <2> QED
    BY <2>1, <2>2, <2>3, <2>4 DEF Types, PollerTypeOK, Reads, Busy, SubmitTypes
<1>19. CASE Restart
  <2>1. start(0) \in Window /\ Waiting \in Thread /\ NoWork \in Batch /\ Resting \in Worker
    BY DEF start, Window, Waiting, Thread, NoWork, Batch, Resting, Worker
  <2>2. /\ win' \in [Polls -> Window] /\ rows' \in [Polls -> SUBSET (Vote \cup Comment)]
        /\ thr' \in [Threads -> Thread] /\ queue' \in [Zids -> Batch] /\ worker' \in [Zids -> Worker]
        /\ cache' \in [Zids -> Conv \cup {None}] /\ attempts' \in [Zids -> Nat]
    BY <1>19, <2>1 DEF Restart
  <2>3. missed' = {} /\ parked' = {} /\ unresolved' = {} /\ repaired' = FALSE /\ faults' \in 0..MaxFaults
    BY <1>19 DEF Restart, Types, PollerTypeOK
  <2>4. UNCHANGED <<votes, comments, math, running, changes>>
    BY <1>19 DEF Restart, tables
  <2>5. Reads'
    BY <1>19 DEF Restart, Reads, Busy, Polls, Resting, Waiting
  <2> QED
    BY <2>2, <2>3, <2>4, <2>5 DEF Types, PollerTypeOK
<1>20. CASE UNCHANGED pvars
  BY <1>20 DEF Types, PollerTypeOK, Reads, Busy
<1>21. \A t \in running : t \in Threads
  BY DEF Types, PollerTypeOK
<1> QED
  BY <1>1, <1>2, <1>3, <1>4, <1>5, <1>6, <1>7, <1>8, <1>9, <1>10, <1>11, <1>12,
     <1>13, <1>14, <1>15, <1>16, <1>17, <1>18, <1>19, <1>20, <1>21
     DEF PollerNext, ThreadStep, WorkerStep

\* A vote is no change of moderation.
LEMMA Apart == Vote \cap Comment = {}
<1>1. ASSUME NEW x \in Vote, NEW y \in Comment, x = y PROVE FALSE
  <2>1. DOMAIN x = {"zid", "item", "stamp"} /\ DOMAIN y = {"zid", "item", "stamp", "out"}
    BY DEF Vote, Comment
  <2> QED
    BY <1>1, <2>1
<1> QED
  BY <1>1

\* No step lets a vote be missed that was not overtaken, and the window
\* stays behind the votes it moved for.
LEMMA JustifiedStep ==
  ASSUME PollerInv, [PollerNext]_pvars
  PROVE  Justified'
<1> USE PollerAssumption, OverlapAssumption
        DEF PollerInv, tables, polls, pool, memory, bounds, pvars
<1>1. ASSUME NEW v \in Vote, CommitVote(v) PROVE Justified'
  <2>1. votes' = votes \cup {v} /\ missed' = missed \cup below("vote", v) /\ UNCHANGED win
    BY <1>1 DEF CommitVote
  <2>2. v.stamp \in Nat \ {0} /\ win["vote"].lower \in Nat
    BY DEF Vote, Stamps, Types, PollerTypeOK, Window, Polls
  <2>3. \A r \in votes : r.stamp \in Nat
    BY DEF Vote, Stamps, Types, PollerTypeOK
  <2>4. \A stamp : Overtaken(stamp) => Overtaken(stamp)'
    BY <2>1 DEF Overtaken
  <2>5. \A x \in missed' : x \in missed \/ (x = v /\ v.stamp <= win["vote"].lower)
    BY <2>1 DEF below
  <2>6. v.stamp <= win["vote"].lower => Overtaken(v.stamp + Overlap)
    BY <2>2, <2>3 DEF Justified, Overtaken
  <2>7. \A x \in missed' : x \in Vote => x \in votes'
    BY <2>1, <2>5 DEF Justified
  <2>8. \A x \in missed' \cap votes' : Overtaken(x.stamp + Overlap)'
    <3>1. ASSUME NEW x \in missed', x \in Vote PROVE Overtaken(x.stamp + Overlap)'
      <4>1. CASE x \in missed
        BY <2>4, <3>1, <4>1 DEF Justified, MissedOnlyWhenLate, Overtaken
      <4>2. CASE x \notin missed
        BY <2>4, <2>5, <2>6, <4>2
      <4> QED
        BY <4>1, <4>2
    <3>2. votes' \subseteq Vote
      BY <2>1 DEF Types, PollerTypeOK
    <3> QED
      BY <3>1, <3>2
  <2>9. MissedOnlyWhenLate'
    BY <2>8 DEF MissedOnlyWhenLate, Overtaken
  <2> QED
    BY <2>1, <2>4, <2>7, <2>9 DEF Justified
<1>2. ASSUME NEW c \in comments, NEW s \in Stamps, Moderate(c, s) PROVE Justified'
  <2>1. c \in Comment
    BY DEF Types, PollerTypeOK
  <2>2. [c EXCEPT !.stamp = s, !.out = ~c.out] \in Comment
    <3>1. c \in [zid : Zids, item : Tids, stamp : 0..MaxStamp, out : BOOLEAN]
      BY <2>1 DEF Comment
    <3>2. s \in 0..MaxStamp
      BY DEF Stamps
    <3>3. (~c.out) \in BOOLEAN
      OBVIOUS
    <3> HIDE DEF PollerInv
    <3> QED
      BY <3>1, <3>2, <3>3 DEF Comment
  <2>4. \A x \in missed' : x \in Vote => x \in missed
    BY <1>2, <2>2, Apart DEF Moderate, below
  <2>3. UNCHANGED <<votes, win>> /\ votes \subseteq Vote
    BY <1>2 DEF Moderate, Types, PollerTypeOK
  <2> QED
    BY <2>3, <2>4 DEF Justified, MissedOnlyWhenLate, Overtaken
<1>3. ASSUME NEW t \in Polls, Poll(t) PROVE Justified'
  BY <1>3 DEF Poll, Justified, MissedOnlyWhenLate, Overtaken
<1>4. ASSUME NEW t \in Polls, Advance(t) PROVE Justified'
  <2>1. PICK m \in advance_watermark(win[t].watermark, rows[t]) :
          /\ win' = [win EXCEPT ![t] = advanced(win[t], rows[t], m)]
          /\ missed' = missed \cup {r \in Table(t) \ rows[t] :
                          r.stamp > win[t].lower /\ r.stamp <= lower_after(win[t], m)}
    BY <1>4 DEF Advance
  <2>2. UNCHANGED votes /\ votes \subseteq Vote /\ comments \subseteq Comment
    BY <1>4 DEF Advance, Types, PollerTypeOK
  <2>3. CASE t = "mod"
    <3>1. \A x \in missed' : x \in Vote => x \in missed
      BY <2>1, <2>2, <2>3, Apart DEF Table
    <3>2. win'["vote"] = win["vote"]
      BY <2>1, <2>3 DEF Types, PollerTypeOK
    <3> QED
      BY <2>2, <3>1, <3>2 DEF Justified, MissedOnlyWhenLate, Overtaken
  <2>4. CASE t = "vote"
    <3>1. win[t].watermark \in Nat /\ win[t].lower \in Nat /\ rows[t] \subseteq votes
      BY <2>4 DEF Types, PollerTypeOK, Window, Reads
    <3>2. \A r \in votes : r.stamp \in Nat
      BY <2>2 DEF Vote, Stamps
    <3>3. m \in Nat /\ (m = 0 \/ Overtaken(m))
      BY <2>4, <3>1, <3>2 DEF advance_watermark, Justified, Overtaken
    <3>10. m \in Nat /\ Overlap \in Nat /\ win[t].lower \in Nat
      BY <3>1, <3>3
    <3>4. \/ lower_after(win[t], m) = win[t].lower
          \/ lower_after(win[t], m) = m - Overlap /\ m - Overlap > win[t].lower
      BY DEF lower_after
    <3>11. lower_after(win[t], m) \in Nat
      BY <3>4, <3>10
    <3>5. win'[t].watermark = m /\ win'[t].lower = lower_after(win[t], m)
      BY <2>1 DEF advanced, Types, PollerTypeOK
    <3>6. win'[t].watermark = 0 \/ Overtaken(win'[t].watermark)
      BY <3>3, <3>5
    <3>7. win'[t].lower = 0 \/ Overtaken(win'[t].lower + Overlap)
      BY <2>4, <3>3, <3>4, <3>5, <3>10 DEF Justified
    <3>8. ASSUME NEW x \in missed', x \in Vote PROVE x \in votes
      BY <2>1, <2>4, <3>8 DEF Table, Justified
    <3>9. ASSUME NEW x \in missed', x \in votes PROVE Overtaken(x.stamp + Overlap)
      <4>1. CASE x \in missed
        BY <3>9, <4>1 DEF Justified, MissedOnlyWhenLate, Overtaken
      <4>2. CASE x \notin missed
        <5>1. x.stamp > win[t].lower /\ x.stamp <= lower_after(win[t], m)
          BY <2>1, <4>2
        <5>2. Overtaken(m) /\ x.stamp + Overlap <= m
          BY <3>2, <3>3, <3>4, <3>9, <3>10, <5>1
        <5> QED
          BY <3>2, <3>3, <3>9, <5>2 DEF Overtaken
      <4> QED
        BY <4>1, <4>2
    <3> QED
      BY <2>2, <2>4, <3>6, <3>7, <3>8, <3>9 DEF Justified, MissedOnlyWhenLate, Overtaken
  <2> QED
    BY <2>3, <2>4 DEF Polls
<1>5. ASSUME NEW t \in Threads, NEW z \in Zids, Check(t, z) PROVE Justified'
  BY <1>5 DEF Check, Justified, MissedOnlyWhenLate, Overtaken
<1>6. ASSUME NEW t \in Threads, Invalidate(t) PROVE Justified'
  BY <1>6 DEF Invalidate, Justified, MissedOnlyWhenLate, Overtaken
<1>7. ASSUME NEW t \in Threads, Unpark(t) PROVE Justified'
  BY <1>7 DEF Unpark, Justified, MissedOnlyWhenLate, Overtaken
<1>8. ASSUME NEW t \in Threads, Submit(t) PROVE Justified'
  BY <1>8 DEF Submit, Justified, MissedOnlyWhenLate, Overtaken
<1>9. ASSUME NEW z \in Zids, Rest(z) PROVE Justified'
  BY <1>9 DEF Rest, Justified, MissedOnlyWhenLate, Overtaken
<1>10. ASSUME NEW z \in Zids, Drain(z) PROVE Justified'
  BY <1>10 DEF Drain, Justified, MissedOnlyWhenLate, Overtaken
<1>11. ASSUME NEW z \in Zids, Compute(z) PROVE Justified'
  BY <1>11 DEF Compute, Justified, MissedOnlyWhenLate, Overtaken
<1>12. ASSUME NEW z \in Zids, Write(z) PROVE Justified'
  BY <1>12 DEF Write, Justified, MissedOnlyWhenLate, Overtaken
<1>13. ASSUME NEW z \in Zids, Keep(z) PROVE Justified'
  BY <1>13 DEF Keep, Justified, MissedOnlyWhenLate, Overtaken
<1>14. ASSUME NEW z \in Zids, Fail(z) PROVE Justified'
  BY <1>14 DEF Fail, Justified, MissedOnlyWhenLate, Overtaken
<1>15. ASSUME NEW z \in Zids, Evict(z) PROVE Justified'
  BY <1>15 DEF Evict, Justified, MissedOnlyWhenLate, Overtaken
<1>16. CASE Reconcile
  BY <1>16 DEF Reconcile, Justified, MissedOnlyWhenLate, Overtaken
<1>17. CASE Reconciled
  BY <1>17 DEF Reconciled, Justified, MissedOnlyWhenLate, Overtaken
<1>18. CASE Repair
  BY <1>18 DEF Repair, Justified, MissedOnlyWhenLate, Overtaken
<1>19. CASE Restart
  BY <1>19 DEF Restart, start, Polls, Justified, MissedOnlyWhenLate, Overtaken, Types,
     PollerTypeOK, Reads, Window
<1>20. CASE UNCHANGED pvars
  BY <1>20 DEF Justified, MissedOnlyWhenLate, Overtaken
<1>21. \A t \in running : t \in Threads
  BY DEF Types, PollerTypeOK
<1> QED
  BY <1>1, <1>2, <1>3, <1>4, <1>5, <1>6, <1>7, <1>8, <1>9, <1>10, <1>11, <1>12,
     <1>13, <1>14, <1>15, <1>16, <1>17, <1>18, <1>19, <1>20, <1>21
     DEF PollerNext, ThreadStep, WorkerStep

\* A worker past the queue keeps the work it took.
LEMMA CarriedWorkStep ==
  ASSUME PollerInv, [PollerNext]_pvars
  PROVE  CarriedWork'
<1> USE PollerAssumption
        DEF PollerInv, tables, polls, pool, memory, bounds, pvars
<1>1. ASSUME NEW v \in Vote, CommitVote(v) PROVE CarriedWork'
  BY <1>1 DEF CommitVote, CarriedWork
<1>2. ASSUME NEW c \in comments, NEW s \in Stamps, Moderate(c, s) PROVE CarriedWork'
  BY <1>2 DEF Moderate, CarriedWork
<1>3. ASSUME NEW t \in Polls, Poll(t) PROVE CarriedWork'
  BY <1>3 DEF Poll, CarriedWork
<1>4. ASSUME NEW t \in Polls, Advance(t) PROVE CarriedWork'
  BY <1>4 DEF Advance, CarriedWork
<1>5. ASSUME NEW t \in Threads, NEW z \in Zids, Check(t, z) PROVE CarriedWork'
  BY <1>5 DEF Check, CarriedWork
<1>6. ASSUME NEW t \in Threads, Invalidate(t) PROVE CarriedWork'
  BY <1>6 DEF Invalidate, CarriedWork
<1>7. ASSUME NEW t \in Threads, Unpark(t) PROVE CarriedWork'
  BY <1>7 DEF Unpark, CarriedWork
<1>8. ASSUME NEW t \in Threads, Submit(t) PROVE CarriedWork'
  BY <1>8 DEF Submit, submit, submit_all, CarriedWork, Types, PollerTypeOK, Reads
<1>9. ASSUME NEW z \in Zids, Rest(z) PROVE CarriedWork'
  BY <1>9 DEF Rest, Resting, CarriedWork, Types, PollerTypeOK, Reads
<1>10. ASSUME NEW z \in Zids, Drain(z) PROVE CarriedWork'
  BY <1>10 DEF Drain, CarriedWork, Types, PollerTypeOK, Reads
<1>11. ASSUME NEW z \in Zids, Compute(z) PROVE CarriedWork'
  BY <1>11 DEF Compute, CarriedWork, Types, PollerTypeOK, Reads
<1>12. ASSUME NEW z \in Zids, Write(z) PROVE CarriedWork'
  BY <1>12 DEF Write, CarriedWork, Types, PollerTypeOK, Reads
<1>13. ASSUME NEW z \in Zids, Keep(z) PROVE CarriedWork'
  BY <1>13 DEF Keep, Resting, CarriedWork, Types, PollerTypeOK, Reads
<1>14. ASSUME NEW z \in Zids, Fail(z) PROVE CarriedWork'
  BY <1>14 DEF Fail, on_engine_error, Resting, CarriedWork, Types, PollerTypeOK, Reads
<1>15. ASSUME NEW z \in Zids, Evict(z) PROVE CarriedWork'
  BY <1>15 DEF Evict, CarriedWork
<1>16. CASE Reconcile
  BY <1>16 DEF Reconcile, CarriedWork
<1>17. CASE Reconciled
  BY <1>17 DEF Reconciled, CarriedWork
<1>18. CASE Repair
  BY <1>18 DEF Repair, submit_all, CarriedWork, Types, PollerTypeOK, Reads
<1>19. CASE Restart
  BY <1>19 DEF Restart, Resting, CarriedWork, Types, PollerTypeOK, Reads
<1>20. CASE UNCHANGED pvars
  BY <1>20 DEF CarriedWork
<1>21. \A t \in running : t \in Threads
  BY DEF Types, PollerTypeOK
<1> QED
  BY <1>1, <1>2, <1>3, <1>4, <1>5, <1>6, <1>7, <1>8, <1>9, <1>10, <1>11, <1>12,
     <1>13, <1>14, <1>15, <1>16, <1>17, <1>18, <1>19, <1>20, <1>21
     DEF PollerNext, ThreadStep, WorkerStep

\* A thread with a conversation in hand has votes for it.
LEMMA CarriedVotesStep ==
  ASSUME PollerInv, [PollerNext]_pvars
  PROVE  CarriedVotes'
<1> USE PollerAssumption
        DEF PollerInv, tables, polls, pool, memory, bounds, pvars
<1>1. ASSUME NEW v \in Vote, CommitVote(v) PROVE CarriedVotes'
  BY <1>1
     DEF CommitVote, CarriedVotes, Awaits, Busy, fresh, split, Types, PollerTypeOK, Reads
<1>2. ASSUME NEW c \in comments, NEW s \in Stamps, Moderate(c, s) PROVE CarriedVotes'
  BY <1>2
     DEF Moderate, CarriedVotes, Awaits, Busy, fresh, split, Types, PollerTypeOK, Reads
<1>3. ASSUME NEW t \in Polls, Poll(t) PROVE CarriedVotes'
  BY <1>3 DEF Poll, Thread, Threads, Polls, CarriedVotes, Awaits, Busy, fresh, split,
     Types, PollerTypeOK, Reads
<1>4. ASSUME NEW t \in Polls, Advance(t) PROVE CarriedVotes'
  BY <1>4 DEF Advance, Waiting, CarriedVotes, Awaits, Busy, fresh, split, Types,
     PollerTypeOK, Reads
<1>5. ASSUME NEW t \in Threads, NEW z \in Zids, Check(t, z) PROVE CarriedVotes'
  BY <1>5
     DEF Check, CarriedVotes, Awaits, Busy, fresh, split, Types, PollerTypeOK, Reads
<1>6. ASSUME NEW t \in Threads, Invalidate(t) PROVE CarriedVotes'
  BY <1>6
     DEF Invalidate, CarriedVotes, Awaits, Busy, fresh, split, Types, PollerTypeOK, Reads
<1>7. ASSUME NEW t \in Threads, Unpark(t) PROVE CarriedVotes'
  BY <1>7
     DEF Unpark, CarriedVotes, Awaits, Busy, fresh, split, Types, PollerTypeOK, Reads
<1>8. ASSUME NEW t \in Threads, Submit(t) PROVE CarriedVotes'
  BY <1>8 DEF Submit, Thread, CarriedVotes, Awaits, Busy, fresh, split, Types,
     PollerTypeOK, Reads
<1>9. ASSUME NEW z \in Zids, Rest(z) PROVE CarriedVotes'
  BY <1>9 DEF Rest, CarriedVotes, Awaits, Busy, fresh, split, Types, PollerTypeOK, Reads
<1>10. ASSUME NEW z \in Zids, Drain(z) PROVE CarriedVotes'
  BY <1>10
     DEF Drain, CarriedVotes, Awaits, Busy, fresh, split, Types, PollerTypeOK, Reads
<1>11. ASSUME NEW z \in Zids, Compute(z) PROVE CarriedVotes'
  BY <1>11
     DEF Compute, CarriedVotes, Awaits, Busy, fresh, split, Types, PollerTypeOK, Reads
<1>12. ASSUME NEW z \in Zids, Write(z) PROVE CarriedVotes'
  BY <1>12
     DEF Write, CarriedVotes, Awaits, Busy, fresh, split, Types, PollerTypeOK, Reads
<1>13. ASSUME NEW z \in Zids, Keep(z) PROVE CarriedVotes'
  BY <1>13
     DEF Keep, CarriedVotes, Awaits, Busy, fresh, split, Types, PollerTypeOK, Reads
<1>14. ASSUME NEW z \in Zids, Fail(z) PROVE CarriedVotes'
  BY <1>14
     DEF Fail, CarriedVotes, Awaits, Busy, fresh, split, Types, PollerTypeOK, Reads
<1>15. ASSUME NEW z \in Zids, Evict(z) PROVE CarriedVotes'
  BY <1>15
     DEF Evict, CarriedVotes, Awaits, Busy, fresh, split, Types, PollerTypeOK, Reads
<1>16. CASE Reconcile
  BY <1>16
     DEF Reconcile, CarriedVotes, Awaits, Busy, fresh, split, Types, PollerTypeOK, Reads
<1>17. CASE Reconciled
  BY <1>17 DEF Reconciled, Waiting, CarriedVotes, Awaits, Busy, fresh, split, Types,
     PollerTypeOK, Reads
<1>18. CASE Repair
  BY <1>18
     DEF Repair, CarriedVotes, Awaits, Busy, fresh, split, Types, PollerTypeOK, Reads
<1>19. CASE Restart
  <2>1. thr'["vote"] = Waiting
    BY <1>19 DEF Restart, Threads, Polls
  <2> QED
    BY <2>1 DEF CarriedVotes, Waiting, Busy
<1>20. CASE UNCHANGED pvars
  BY <1>20 DEF CarriedVotes, Awaits, Busy, fresh, split
<1>21. \A t \in running : t \in Threads
  BY DEF Types, PollerTypeOK
<1> QED
  BY <1>1, <1>2, <1>3, <1>4, <1>5, <1>6, <1>7, <1>8, <1>9, <1>10, <1>11, <1>12,
     <1>13, <1>14, <1>15, <1>16, <1>17, <1>18, <1>19, <1>20, <1>21
     DEF PollerNext, ThreadStep, WorkerStep

\* Merging work with nothing is that work, and with more is work.
LEMMA MergedIsWork ==
  ASSUME NEW a \in Batch, NEW b \in Batch, a # NoWork \/ b # NoWork
  PROVE  merged(a, b) # NoWork
BY DEF merged, Batch, NoWork

\* What is submitted is queued, running or dropped for the parked.
LEMMA SubmitAlive ==
  ASSUME PollerInv, NEW work \in [Zids -> Batch], submit_all(work), UNCHANGED parked,
         NEW z \in unresolved', Alive(z) => Alive(z)' \/ work[z] # NoWork
                                            \/ (worker[z].at = "loop" /\ queue[z] # NoWork)
                                            \/ worker[z].at \in {"load", "write", "keep"}
  PROVE  Alive(z)'
<1> USE DEF PollerInv, Types, PollerTypeOK
<1>1. z \in Zids /\ worker[z] \in Worker /\ queue[z] \in Batch
  BY DEF submit_all
<1>2. worker[z].at \in {"idle", "loop", "load", "write", "keep"}
  BY <1>1 DEF Worker
<1>3. CASE z \in parked
  BY <1>3 DEF Alive
<1>4. CASE z \notin parked /\ work[z] # NoWork
  <2>1. queue'[z] = merged(queue[z], work[z])
    BY <1>1, <1>4 DEF submit_all
  <2>2. queue'[z] # NoWork
    BY <1>1, <1>4, <2>1, MergedIsWork
  <2>3. worker'[z] = IF worker[z].at = "idle" THEN [worker[z] EXCEPT !.at = "loop"] ELSE worker[z]
    BY <1>1, <1>4 DEF submit_all
  <2>4. worker'[z].at = "loop" \/ worker'[z].at \in {"load", "write", "keep"}
    BY <1>1, <1>2, <2>3 DEF Worker
  <2> QED
    BY <2>2, <2>4 DEF Alive
<1>5. CASE z \notin parked /\ work[z] = NoWork
  <2>1. queue'[z] = queue[z] /\ worker'[z] = worker[z] /\ z \in unresolved
    BY <1>1, <1>5 DEF submit_all
  <2> QED
    BY <1>5, <2>1 DEF Alive, Unstranded
<1> QED
  BY <1>3, <1>4, <1>5

\* No step strands a conversation.
LEMMA UnstrandedStep ==
  ASSUME PollerInv, [PollerNext]_pvars
  PROVE  Unstranded'
<1> USE PollerAssumption
        DEF PollerInv, tables, polls, pool, memory, bounds, pvars
<1>1. ASSUME NEW v \in Vote, CommitVote(v) PROVE Unstranded'
  BY <1>1 DEF CommitVote, Unstranded, Alive, Healing
<1>2. ASSUME NEW c \in comments, NEW s \in Stamps, Moderate(c, s) PROVE Unstranded'
  BY <1>2 DEF Moderate, Unstranded, Alive, Healing
<1>3. ASSUME NEW t \in Polls, Poll(t) PROVE Unstranded'
  BY <1>3 DEF Poll, Unstranded, Alive, Healing
<1>4. ASSUME NEW t \in Polls, Advance(t) PROVE Unstranded'
  BY <1>4 DEF Advance, Unstranded, Alive, Healing
<1>5. ASSUME NEW t \in Threads, NEW z \in Zids, Check(t, z) PROVE Unstranded'
  BY <1>5 DEF Check, Unstranded, Alive, Healing
<1>6. ASSUME NEW t \in Threads, Invalidate(t) PROVE Unstranded'
  BY <1>6 DEF Invalidate, Unstranded, Alive, Healing
<1>7. ASSUME NEW t \in Threads, Unpark(t) PROVE Unstranded'
  BY <1>7 DEF Unpark, Unstranded, Alive, Healing
<1>8. ASSUME NEW t \in Threads, Submit(t) PROVE Unstranded'
  <2>1. /\ thr[t].zid \in Zids /\ submit(thr[t].zid, work_of(t, thr[t].zid)) /\ UNCHANGED parked
        /\ thr' = [thr EXCEPT ![t].at = "check", ![t].zid = None] /\ thr[t].at = "submit"
    BY <1>8 DEF Submit, Types, Reads, Busy
  <2>2. work_of(t, thr[t].zid) \in Batch
    BY WorkTyped
  <2>3. work_of(t, thr[t].zid) # NoWork
    <3>1. CASE t = "vote"
      BY <2>1, <3>1 DEF work_of, NoWork, CarriedVotes, Awaits, Busy
    <3>2. CASE t # "vote"
      BY <3>2 DEF work_of, NoWork, Threads, Polls
    <3> QED
      BY <3>1, <3>2
  <2> DEFINE work == [y \in Zids |-> IF y = thr[t].zid THEN work_of(t, thr[t].zid) ELSE NoWork]
  <2>4. work \in [Zids -> Batch] /\ submit_all(work)
    BY <2>1, <2>2 DEF submit, NoWork, Batch
  <2>5. ASSUME NEW z \in unresolved' PROVE Alive(z)'
    <3>1. z \in Zids
      BY <2>4 DEF submit_all, Types, PollerTypeOK
    <3>2. ASSUME NEW u \in Threads, Healing(u, z), z # thr[t].zid PROVE Healing(u, z)'
      BY <2>1, <3>2 DEF Healing, Types, PollerTypeOK
    <3>3. Alive(z) => Alive(z)' \/ work[z] # NoWork \/ (worker[z].at = "loop" /\ queue[z] # NoWork)
                      \/ worker[z].at \in {"load", "write", "keep"}
      BY <2>1, <2>3, <3>1, <3>2 DEF Alive
    <3> HIDE DEF work
    <3> QED
      BY <2>1, <2>4, <3>3, SubmitAlive
  <2> QED
    BY <2>5 DEF Unstranded
<1>9. ASSUME NEW z \in Zids, Rest(z) PROVE Unstranded'
  BY <1>9 DEF Rest, Unstranded, Alive, Healing
<1>10. ASSUME NEW z \in Zids, Drain(z) PROVE Unstranded'
  BY <1>10 DEF Drain, Unstranded, Alive, Healing, Types, PollerTypeOK, Reads
<1>11. ASSUME NEW z \in Zids, Compute(z) PROVE Unstranded'
  BY <1>11 DEF Compute, Unstranded, Alive, Healing
<1>12. ASSUME NEW z \in Zids, Write(z) PROVE Unstranded'
  BY <1>12 DEF Write, Unstranded, Alive, Healing
<1>13. ASSUME NEW z \in Zids, Keep(z) PROVE Unstranded'
  BY <1>13 DEF Keep, Unstranded, Alive, Healing
<1>14. ASSUME NEW z \in Zids, Fail(z) PROVE Unstranded'
  <2>1. worker[z].batch \in Batch /\ queue[z] \in Batch /\ worker[z].batch # NoWork
    BY <1>14 DEF Fail, Types, PollerTypeOK, Worker, CarriedWork
  <2>2. requeue(z) # NoWork
    BY <2>1, MergedIsWork DEF requeue
  <2>3. worker'[z].at = "loop" /\ (queue'[z] = requeue(z) \/ z \in parked')
    BY <1>14 DEF Fail, on_engine_error, Resting, Types, PollerTypeOK
  <2>4. ASSUME NEW y \in unresolved', y # z
        PROVE y \in unresolved /\ (Alive(y) => Alive(y)')
    BY <1>14, <2>4 DEF Fail, on_engine_error, Alive, Healing, Types, PollerTypeOK
  <2> QED
    BY <2>2, <2>3, <2>4 DEF Unstranded, Alive
<1>15. ASSUME NEW z \in Zids, Evict(z) PROVE Unstranded'
  BY <1>15 DEF Evict, Unstranded, Alive, Healing
<1>16. CASE Reconcile
  BY <1>16 DEF Reconcile, Unstranded, Alive, Healing
<1>17. CASE Reconciled
  BY <1>17 DEF Reconciled, Unstranded, Alive, Healing
<1>18. CASE Repair
  <2> DEFINE work == [z \in Zids |-> IF math[z] # None /\ ~math[z].whole
                         THEN [NoWork EXCEPT !.rebuild = TRUE] ELSE NoWork]
  <2>1. work \in [Zids -> Batch] /\ submit_all(work) /\ UNCHANGED <<parked, thr>>
    BY <1>18 DEF Repair, NoWork, Batch
  <2>2. ASSUME NEW z \in unresolved' PROVE Alive(z)'
    <3>1. Alive(z) => Alive(z)' \/ work[z] # NoWork \/ (worker[z].at = "loop" /\ queue[z] # NoWork)
                      \/ worker[z].at \in {"load", "write", "keep"}
      BY <2>1 DEF Alive, Healing
    <3> HIDE DEF work
    <3> QED
      BY <2>1, <3>1, SubmitAlive
  <2> QED
    BY <2>2 DEF Unstranded
<1>19. CASE Restart
  BY <1>19 DEF Restart, Unstranded, Alive, Healing
<1>20. CASE UNCHANGED pvars
  BY <1>20 DEF Unstranded, Alive, Healing
<1>21. \A t \in running : t \in Threads
  BY DEF Types, PollerTypeOK
<1> QED
  BY <1>1, <1>2, <1>3, <1>4, <1>5, <1>6, <1>7, <1>8, <1>9, <1>10, <1>11, <1>12,
     <1>13, <1>14, <1>15, <1>16, <1>17, <1>18, <1>19, <1>20, <1>21
     DEF PollerNext, ThreadStep, WorkerStep

\* What was voted stays voted, and updating with votes shows votes.
LEMMA VotedGrows ==
  ASSUME NEW vs, NEW ws, vs \subseteq ws, NEW z
  PROVE  /\ \A cells : Voted(vs, z, cells) => Voted(ws, z, cells)
         /\ Own(vs, z) \subseteq Own(ws, z)
BY DEF Voted, Own

\* Nothing shown is voted by anybody.
LEMMA EmptyVoted == \A vs, z : Voted(vs, z, EmptyMatrix)
BY DEF Voted, EmptyMatrix

\* Updating what was voted with votes gives what was voted.
LEMMA UpdateVoted ==
  ASSUME NEW vs, NEW z, NEW cells, Voted(vs, z, cells), NEW batch \in SUBSET Own(vs, z),
         NEW f \in update_votes(cells, batch)
  PROVE  Voted(vs, z, f)
<1>1. ASSUME NEW c \in Cells, f[c] # 0
      PROVE  \E v \in vs : v.zid = z /\ v.item = c /\ v.stamp = f[c]
  <2> DEFINE stamps == {v.stamp : v \in {w \in batch : w.item = c}}
  <2>1. CASE stamps = {}
    <3>1. f[c] = cells[c]
      BY <2>1 DEF update_votes
    <3> QED
      BY <1>1, <3>1 DEF Voted
  <2>2. CASE stamps # {}
    <3>1. f[c] \in stamps
      BY <2>2 DEF update_votes
    <3> QED
      BY <3>1 DEF Own
  <2> QED
    BY <2>1, <2>2
<1> QED
  BY <1>1 DEF Voted

\* What a computation makes of votes is votes.
LEMMA ComputedVoted ==
  ASSUME Types, NEW z \in Zids, Genuine(z)
  PROVE  /\ \A c \in load_or_init(z) : Voted(votes, z, c.cells)
         /\ worker[z].conv # None =>
              \A c \in recomputed(z, worker[z].conv, worker[z].batch) :
                Voted(votes, z, c.cells)
<1>1. ASSUME NEW c \in load_or_init(z) PROVE Voted(votes, z, c.cells)
  <2>1. c.cells \in update_votes(EmptyMatrix, Own(votes, z))
    BY DEF load_or_init, Own
  <2> QED
    BY <2>1, EmptyVoted, UpdateVoted
<1>2. ASSUME worker[z].conv # None,
             NEW c \in recomputed(z, worker[z].conv, worker[z].batch)
      PROVE  Voted(votes, z, c.cells)
  <2>1. c.cells \in update_votes(worker[z].conv.cells, worker[z].batch.votes)
    BY DEF recomputed
  <2>2. /\ Voted(votes, z, worker[z].conv.cells)
        /\ worker[z].batch.votes \in SUBSET Own(votes, z)
    BY <1>2 DEF Genuine
  <2> QED
    BY <2>1, <2>2, UpdateVoted
<1> QED
  BY <1>1, <1>2

\* Submitting votes queues votes.
LEMMA SubmitGenuine ==
  ASSUME Types, \A z \in Zids : Genuine(z), NEW work \in [Zids -> Batch],
         \A z \in Zids : work[z].votes \subseteq Own(votes, z),
         submit_all(work), UNCHANGED <<votes, math, cache>>, NEW z \in Zids
  PROVE  Genuine(z)'
<1>1. queue[z] \in Batch /\ work[z] \in Batch /\ worker[z] \in Worker
  BY DEF Types, PollerTypeOK
<1>2. queue'[z] = queue[z] \/ queue'[z] = merged(queue[z], work[z])
  BY DEF submit_all
<1>3. queue'[z].votes \subseteq Own(votes, z)
  <2>1. queue[z].votes \subseteq Own(votes, z)
    BY DEF Genuine
  <2>2. merged(queue[z], work[z]).votes = queue[z].votes \cup work[z].votes
    BY DEF merged
  <2> QED
    BY <1>2, <2>1, <2>2
<1>4. worker'[z] = worker[z] \/ worker'[z] = [worker[z] EXCEPT !.at = "loop"]
  BY DEF submit_all
<1>5. /\ worker'[z].conv = worker[z].conv /\ worker'[z].next = worker[z].next
      /\ worker'[z].batch = worker[z].batch
  BY <1>1, <1>4 DEF Worker
<1> QED
  BY <1>3, <1>5 DEF Genuine

\* No step makes a conversation show what nobody voted.
LEMMA GenuineStep ==
  ASSUME PollerInv, [PollerNext]_pvars
  PROVE  (\A y \in Zids : Genuine(y))'
<1> USE PollerAssumption
        DEF PollerInv, tables, polls, pool, memory, bounds, pvars
<1>1. ASSUME NEW v \in Vote, CommitVote(v) PROVE (\A y \in Zids : Genuine(y))'
  <2>1. votes \subseteq votes' /\ UNCHANGED <<math, cache, worker, queue>>
    BY <1>1 DEF CommitVote
  <2>2. ASSUME NEW y \in Zids PROVE Genuine(y)'
    <3>1. Own(votes, y) \subseteq Own(votes', y) /\ \A cells : Voted(votes, y, cells) => Voted(votes', y, cells)
      BY <2>1, VotedGrows
    <3>2. Genuine(y)
      OBVIOUS
    <3> HIDE DEF PollerInv
    <3> QED
      BY <2>1, <3>1, <3>2 DEF Genuine
  <2> QED
    BY <2>2
<1>2. ASSUME NEW c \in comments, NEW s \in Stamps, Moderate(c, s)
      PROVE (\A y \in Zids : Genuine(y))'
  BY <1>2 DEF Moderate, Genuine, Types, PollerTypeOK
<1>3. ASSUME NEW t \in Polls, Poll(t) PROVE (\A y \in Zids : Genuine(y))'
  BY <1>3 DEF Poll, Genuine, Types, PollerTypeOK
<1>4. ASSUME NEW t \in Polls, Advance(t) PROVE (\A y \in Zids : Genuine(y))'
  BY <1>4 DEF Advance, Genuine, Types, PollerTypeOK
<1>5. ASSUME NEW t \in Threads, NEW z \in Zids, Check(t, z)
      PROVE (\A y \in Zids : Genuine(y))'
  BY <1>5 DEF Check, Genuine, Types, PollerTypeOK
<1>6. ASSUME NEW t \in Threads, Invalidate(t) PROVE (\A y \in Zids : Genuine(y))'
  BY <1>6 DEF Invalidate, Genuine, Types, PollerTypeOK
<1>7. ASSUME NEW t \in Threads, Unpark(t) PROVE (\A y \in Zids : Genuine(y))'
  BY <1>7 DEF Unpark, Genuine, Types, PollerTypeOK
<1>8. ASSUME NEW t \in Threads, Submit(t) PROVE (\A y \in Zids : Genuine(y))'
  <2>1. /\ thr[t].zid \in Zids /\ submit(thr[t].zid, work_of(t, thr[t].zid))
        /\ UNCHANGED <<votes, math, cache>>
    BY <1>8 DEF Submit, Types, Reads, Busy
  <2> DEFINE work == [y \in Zids |-> IF y = thr[t].zid THEN work_of(t, thr[t].zid) ELSE NoWork]
  <2>2. work_of(t, thr[t].zid) \in Batch /\ NoWork \in Batch
    BY WorkTyped DEF NoWork, Batch
  <2>3. work_of(t, thr[t].zid).votes \subseteq Own(votes, thr[t].zid)
    BY DEF work_of, Own, fresh, split, split_votes, Types, Reads
  <2>4. work \in [Zids -> Batch] /\ submit_all(work)
    BY <2>1, <2>2 DEF submit
  <2>5. \A y \in Zids : work[y].votes \subseteq Own(votes, y)
    BY <2>1, <2>3 DEF NoWork
  <2> HIDE DEF work
  <2> QED
    BY <2>1, <2>4, <2>5, SubmitGenuine
<1>9. ASSUME NEW z \in Zids, Rest(z) PROVE (\A y \in Zids : Genuine(y))'
  <2>1. UNCHANGED votes
    BY <1>9 DEF Rest
  <2>2. worker'[z] = Resting /\ queue'[z] = NoWork /\ UNCHANGED <<math, cache>>
    BY <1>9 DEF Rest, Types, PollerTypeOK
  <2>3. ASSUME NEW y \in Zids, y # z PROVE Genuine(y)'
    BY <1>9, <2>1, <2>3 DEF Rest, Genuine, Types, PollerTypeOK
  <2>4. Genuine(z)'
    BY <1>9, <2>1, <2>2 DEF Genuine, Resting, NoWork
  <2> QED
    BY <2>3, <2>4
<1>10. ASSUME NEW z \in Zids, Drain(z) PROVE (\A y \in Zids : Genuine(y))'
  <2>1. UNCHANGED votes
    BY <1>10 DEF Drain
  <2>2. /\ worker'[z].batch = queue[z] /\ worker'[z].next = None
        /\ worker'[z].conv = None \/ worker'[z].conv = cache[z]
        /\ queue'[z] = NoWork /\ UNCHANGED <<math, cache>>
    BY <1>10 DEF Drain, Types, PollerTypeOK
  <2>3. ASSUME NEW y \in Zids, y # z PROVE Genuine(y)'
    BY <1>10, <2>1, <2>3 DEF Drain, Genuine, Types, PollerTypeOK
  <2>4. Genuine(z)'
    BY <1>10, <2>1, <2>2 DEF Genuine, NoWork
  <2> QED
    BY <2>3, <2>4
<1>11. ASSUME NEW z \in Zids, Compute(z) PROVE (\A y \in Zids : Genuine(y))'
  <2>1. UNCHANGED votes
    BY <1>11 DEF Compute
  <2>2. PICK c \in IF worker[z].conv = None THEN load_or_init(z)
                ELSE recomputed(z, worker[z].conv, worker[z].batch) :
           worker' = [worker EXCEPT ![z] = [@ EXCEPT !.at = "write", !.next = c]]
    BY <1>11 DEF Compute
  <2>3. Voted(votes, z, c.cells)
    BY <2>2, ComputedVoted
  <2>4. worker'[z] = [worker[z] EXCEPT !.at = "write", !.next = c] /\ worker[z] \in Worker
    BY <2>2 DEF Types, PollerTypeOK
  <2>5. worker'[z].next = c /\ worker'[z].conv = worker[z].conv /\ worker'[z].batch = worker[z].batch
    BY <2>4 DEF Worker
  <2>6. UNCHANGED <<queue, math, cache>>
    BY <1>11 DEF Compute
  <2>7. ASSUME NEW y \in Zids, y # z PROVE Genuine(y)'
    BY <1>11, <2>1, <2>7 DEF Compute, Genuine, Types, PollerTypeOK
  <2>8. Genuine(z)'
    BY <1>11, <2>1, <2>2, <2>3, <2>4, <2>5, <2>6 DEF Genuine
  <2> QED
    BY <2>7, <2>8
<1>12. ASSUME NEW z \in Zids, Write(z) PROVE (\A y \in Zids : Genuine(y))'
  <2>1. UNCHANGED votes
    BY <1>12 DEF Write
  <2>2. worker[z].next # None
    BY <1>12 DEF Write, Types, Reads
  <2>3. math'[z].cells = worker[z].next.cells
    BY <1>12 DEF Write, published, Types, PollerTypeOK
  <2>4. worker'[z] = [worker[z] EXCEPT !.at = "keep"] /\ worker[z] \in Worker
    BY <1>12 DEF Write, Types, PollerTypeOK
  <2>5. worker'[z].next = worker[z].next /\ worker'[z].conv = worker[z].conv /\ worker'[z].batch = worker[z].batch
    BY <2>4 DEF Worker
  <2>6. UNCHANGED <<queue, cache>>
    BY <1>12 DEF Write
  <2>7. ASSUME NEW y \in Zids, y # z PROVE Genuine(y)'
    BY <1>12, <2>1, <2>7 DEF Write, published, Genuine, Types, PollerTypeOK
  <2>8. Genuine(z)'
    BY <1>12, <2>1, <2>2, <2>3, <2>4, <2>5, <2>6 DEF Genuine
  <2> QED
    BY <2>7, <2>8
<1>13. ASSUME NEW z \in Zids, Keep(z) PROVE (\A y \in Zids : Genuine(y))'
  <2>1. UNCHANGED votes
    BY <1>13 DEF Keep
  <2>2. worker'[z] = [Resting EXCEPT !.at = "loop"] /\ cache'[z] = worker[z].next /\ UNCHANGED <<math, queue>>
    BY <1>13 DEF Keep, Types, PollerTypeOK
  <2>3. ASSUME NEW y \in Zids, y # z PROVE Genuine(y)'
    BY <1>13, <2>1, <2>3 DEF Keep, Genuine, Types, PollerTypeOK
  <2>4. Genuine(z)'
    BY <1>13, <2>1, <2>2 DEF Genuine, Resting, NoWork
  <2> QED
    BY <2>3, <2>4
<1>14. ASSUME NEW z \in Zids, Fail(z) PROVE (\A y \in Zids : Genuine(y))'
  <2>1. UNCHANGED votes
    BY <1>14 DEF Fail
  <2>2. worker'[z] = [Resting EXCEPT !.at = "loop"] /\ UNCHANGED cache
    BY <1>14 DEF Fail, on_engine_error, Types, PollerTypeOK
  <2>3. queue'[z] = NoWork \/ queue'[z] = requeue(z)
    BY <1>14 DEF Fail, on_engine_error, Types, PollerTypeOK
  <2>4. queue'[z].votes \subseteq Own(votes, z)
    BY <2>3 DEF requeue, merged, NoWork, Genuine
  <2>5. math'[z] # None => Voted(votes, z, math'[z].cells)
    <3>1. CASE math' = math
      BY <3>1 DEF Genuine
    <3>2. CASE math' # math
      <4>1. worker[z].at = "write" /\ math' = published(z)
        BY <1>14, <3>2 DEF Fail
      <4>2. worker[z].next # None /\ math'[z].cells = worker[z].next.cells
        BY <4>1 DEF published, Types, PollerTypeOK, Reads
      <4> QED
        BY <4>2 DEF Genuine
    <3> QED
      BY <3>1, <3>2
  <2>6. worker'[z].conv = None /\ worker'[z].next = None /\ worker'[z].batch.votes = {}
    BY <2>2 DEF Resting, NoWork
  <2>7. ASSUME NEW y \in Zids, y # z PROVE Genuine(y)'
    BY <1>14, <2>1, <2>7
       DEF Fail, on_engine_error, published, Genuine, Types, PollerTypeOK
  <2>8. Genuine(z)'
    BY <1>14, <2>1, <2>2, <2>3, <2>4, <2>5, <2>6 DEF Genuine
  <2> QED
    BY <2>7, <2>8
<1>15. ASSUME NEW z \in Zids, Evict(z) PROVE (\A y \in Zids : Genuine(y))'
  BY <1>15 DEF Evict, Genuine, Types, PollerTypeOK
<1>16. CASE Reconcile
  BY <1>16 DEF Reconcile, Genuine, Types, PollerTypeOK
<1>17. CASE Reconciled
  BY <1>17 DEF Reconciled, Genuine, Types, PollerTypeOK
<1>18. CASE Repair
  <2> DEFINE work == [z \in Zids |-> IF math[z] # None /\ ~math[z].whole
                         THEN [NoWork EXCEPT !.rebuild = TRUE] ELSE NoWork]
  <2>1. work \in [Zids -> Batch] /\ submit_all(work) /\ UNCHANGED <<votes, math, cache>>
    BY <1>18 DEF Repair, NoWork, Batch
  <2>2. \A y \in Zids : work[y].votes \subseteq Own(votes, y)
    BY DEF NoWork
  <2> HIDE DEF work
  <2> QED
    BY <2>1, <2>2, SubmitGenuine
<1>19. CASE Restart
  <2>1. UNCHANGED <<votes, math>>
    BY <1>19 DEF Restart
  <2>2. ASSUME NEW y \in Zids
        PROVE worker'[y] = Resting /\ cache'[y] = None /\ queue'[y] = NoWork
    BY <1>19 DEF Restart
  <2> QED
    BY <2>1, <2>2 DEF Genuine, Resting, NoWork
<1>20. CASE UNCHANGED pvars
  BY <1>20 DEF Genuine
<1>21. \A t \in running : t \in Threads
  BY DEF Types, PollerTypeOK
<1> QED
  BY <1>1, <1>2, <1>3, <1>4, <1>5, <1>6, <1>7, <1>8, <1>9, <1>10, <1>11, <1>12,
     <1>13, <1>14, <1>15, <1>16, <1>17, <1>18, <1>19, <1>20, <1>21
     DEF PollerNext, ThreadStep, WorkerStep

-----------------------------------------------------------------------------
\* The poller starts within the invariant.
LEMMA InvariantStarts ==
  ASSUME PollerInit
  PROVE  PollerInv
<1> USE PollerAssumption, OverlapAssumption DEF PollerInit
<1>1. /\ start(0) \in Window /\ Waiting \in Thread /\ NoWork \in Batch /\ Resting \in Worker
      /\ comments \in SUBSET Comment
  <2>1. \A z \in Zids, t \in Tids : [zid |-> z, item |-> t, stamp |-> 0, out |-> FALSE] \in Comment
    BY DEF Comment
  <2>2. comments \in SUBSET Comment
    BY <2>1
  <2> QED
    BY <2>2 DEF start, Window, Waiting, Thread, NoWork, Batch, Resting, Worker
<1>2. math \in [Zids -> Published \cup {None}]
  <2>1. [cells |-> EmptyMatrix, out |-> {}, whole |-> FALSE] \in Published
    BY DEF EmptyMatrix, Published, Matrix
  <2> QED
    BY <2>1
<1>3. PollerTypeOK
  <2>1. /\ votes \in SUBSET Vote /\ missed \in SUBSET (Vote \cup Comment)
        /\ running \in ThreadSets /\ parked \in SUBSET Zids /\ unresolved \in SUBSET Zids
        /\ changes \in SUBSET [zid : Zids, item : Tids, stamp : Stamps]
    OBVIOUS
  <2>3. faults \in 0..MaxFaults
    BY MaxFaults \in Nat
  <2>4. repaired \in BOOLEAN
    OBVIOUS
  <2>2. /\ win \in [Polls -> Window] /\ rows \in [Polls -> SUBSET (Vote \cup Comment)]
        /\ thr \in [Threads -> Thread] /\ queue \in [Zids -> Batch]
        /\ worker \in [Zids -> Worker] /\ cache \in [Zids -> Conv \cup {None}]
        /\ attempts \in [Zids -> Nat]
    BY <1>1
  <2> QED
    BY <1>1, <1>2, <2>1, <2>2, <2>3, <2>4 DEF PollerTypeOK
<1>4. Reads
  BY DEF Reads, Busy, Polls, Resting, Waiting
<1>5. CarriedWork
  BY DEF CarriedWork, Resting
<1>6. CarriedVotes
  <2>1. thr["vote"] = Waiting
    BY DEF Threads, Polls
  <2> QED
    BY <2>1 DEF CarriedVotes, Waiting, Busy
<1>7. Unstranded
  BY DEF Unstranded
<1>8. Justified
  BY DEF Justified, MissedOnlyWhenLate, start, Polls
<1>9. ASSUME NEW z \in Zids PROVE Genuine(z)
  <2>1. math[z] # None => math[z].cells = EmptyMatrix
    OBVIOUS
  <2> QED
    BY <2>1, EmptyVoted DEF Genuine, Resting, NoWork
<1> QED
  BY <1>3, <1>4, <1>5, <1>6, <1>7, <1>8, <1>9 DEF PollerInv, Types

\* The invariant holds of every behaviour, fair or not.
THEOREM PollerInvariant == PollerSpec => []PollerInv
<1>1. PollerInit => PollerInv
  BY InvariantStarts
<1>2. PollerInv /\ [PollerNext]_pvars => PollerInv'
  <2>1. SUFFICES ASSUME PollerInv, [PollerNext]_pvars PROVE PollerInv'
    OBVIOUS
  <2>2. Types' /\ CarriedWork' /\ CarriedVotes'
    BY <2>1, TypesStep, CarriedWorkStep, CarriedVotesStep
  <2>3. Unstranded' /\ Justified' /\ (\A z \in Zids : Genuine(z))'
    BY <2>1, UnstrandedStep, JustifiedStep, GenuineStep
  <2> QED
    BY <2>2, <2>3 DEF PollerInv
<1> QED
  BY <1>1, <1>2, PTL DEF PollerSpec

-----------------------------------------------------------------------------
\* Every variable of the service keeps its type, and a conversation has at most
\* one worker.
THEOREM PollerKeepsTypes == PollerSpec => []PollerTypeOK
<1>1. PollerInv => PollerTypeOK
  BY DEF PollerInv, Types
<1> QED
  BY <1>1, PollerInvariant, PTL

\* Work that has not succeeded is never left with nobody to do it: _requeue,
\* _unpark and submit (P-022 R03).
THEOREM NoWorkIsStranded == PollerSpec => []NeverStranded
<1>1. PollerInv => NeverStranded
  BY DEF PollerInv, Types, Unstranded, Alive, NeverStranded
<1> QED
  BY <1>1, PollerInvariant, PTL

\* The overlap window loses no vote that commits within the overlap:
\* PollWindow.split, advanced and advance_watermark.
THEOREM OnlyLateVotesAreMissed == PollerSpec => []MissedOnlyWhenLate
<1>1. PollerInv => MissedOnlyWhenLate
  BY DEF PollerInv, Justified
<1> QED
  BY <1>1, PollerInvariant, PTL

-----------------------------------------------------------------------------
\* The poller starts as a mirror does.
LEMMA MirrorInit ==
  ASSUME PollerInit
  PROVE  Mirror!Init
<1>1. ASSUME NEW z \in Zids
      PROVE (IF math[z] = None THEN EmptyMatrix ELSE math[z].cells) = EmptyMatrix
  BY DEF PollerInit
<1> QED
  BY <1>1 DEF PollerInit, Mirror!Init, EmptyMatrix

\* A publication shows votes of its conversation.
LEMMA PublishedIsVoted ==
  ASSUME PollerInv, NEW z \in Zids, worker[z].at = "write", math' = published(z),
         UNCHANGED <<votes, missed>>
  PROVE  Mirror!Publish(z)
<1> DEFINE f == worker[z].next.cells
<1>1. worker[z].next # None
  BY DEF PollerInv, Types, Reads
<1>2. f \in [Cells -> 0..MaxStamp]
  BY <1>1 DEF PollerInv, Types, PollerTypeOK, Worker, Conv, Matrix
<1>3. \A c \in Cells : f[c] # 0 => Mirror!IsVote(z, c, f[c])
  BY <1>1 DEF PollerInv, Genuine, Voted, Mirror!IsVote
<1>4. /\ \A y \in Zids : y # z => math'[y] = math[y]
      /\ math'[z].cells = f /\ math'[z] # None
  <2>1. math'[z] = [cells |-> f, out |-> worker[z].next.out, whole |-> TRUE]
    BY DEF published, PollerInv, Types, PollerTypeOK
  <2>2. math'[z] # None
    <3>1. math'[z] \in Published
      <4>1. worker[z].next.out \in SUBSET Tids
        BY <1>1 DEF PollerInv, Types, PollerTypeOK, Worker, Conv
      <4> QED
        BY <1>2, <2>1, <4>1 DEF Published, Matrix
    <3> QED
      BY <3>1, PollerAssumption
  <2> QED
    BY <2>1, <2>2 DEF published, PollerInv, Types, PollerTypeOK
<1> QED
  BY <1>2, <1>3, <1>4 DEF Mirror!Publish

\* Every step is one the mirror may take.
LEMMA MirrorStep ==
  ASSUME PollerInv, [PollerNext]_pvars
  PROVE  [Mirror!Next]_(Mirror!vars)
<1> USE DEF pvars, tables, polls, bounds
<1>1. ASSUME NEW v \in Vote, CommitVote(v) PROVE Mirror!Next
  <2>1. v \notin missed
    BY <1>1 DEF CommitVote, PollerInv, Justified
  <2>2. /\ (missed \cap votes)' = missed \cap votes
        \/ (missed \cap votes)' = (missed \cap votes) \cup {v}
    BY <1>1, <2>1 DEF CommitVote, below, PollerInv, Justified
  <2>3. Mirror!Commit(v)
    BY <1>1, <2>2 DEF CommitVote, Mirror!Commit
  <2> QED
    BY <2>3 DEF Mirror!Next, Mirror!Vote, Vote, Stamps
<1>2. ASSUME UNCHANGED <<votes, math>> PROVE Mirror!Next
  <2>1. Mirror!Miss
    BY <1>2 DEF Mirror!Miss
  <2> QED
    BY <2>1 DEF Mirror!Next
<1>3. ASSUME NEW z \in Zids, Write(z) PROVE Mirror!Next
  <2>1. Mirror!Publish(z)
    BY <1>3, PublishedIsVoted DEF Write
  <2> QED
    BY <2>1 DEF Mirror!Next
<1>4. ASSUME NEW z \in Zids, Fail(z) PROVE Mirror!Next
  <2>1. CASE math' = math
    <3>1. UNCHANGED <<votes, math>>
      BY <1>4, <2>1 DEF Fail
    <3> QED
      BY <1>2, <3>1
  <2>2. CASE math' # math
    <3>1. Mirror!Publish(z)
      BY <1>4, <2>2, PublishedIsVoted DEF Fail
    <3> QED
      BY <3>1 DEF Mirror!Next
  <2> QED
    BY <2>1, <2>2
<1>5. ASSUME NEW c \in comments, NEW s \in Stamps, Moderate(c,
      s) PROVE UNCHANGED <<votes, math>>
  BY <1>5 DEF Moderate
<1>6. ASSUME NEW t \in running, ThreadStep(t) PROVE UNCHANGED <<votes, math>>
  BY <1>6 DEF ThreadStep, Poll, Advance, Check, Invalidate, Unpark, Submit
<1>7. ASSUME Reconcile \/ Reconciled \/ Repair \/ Restart PROVE UNCHANGED <<votes,
      math>>
  BY <1>7 DEF Reconcile, Reconciled, Repair, Restart
<1>8. ASSUME NEW z \in Zids, Rest(z) \/ Drain(z) \/ Compute(z) \/ Keep(z) \/ Evict(z)
      PROVE  UNCHANGED <<votes, math>>
  BY <1>8 DEF Rest, Drain, Compute, Keep, Evict
<1>9. CASE UNCHANGED pvars
  BY <1>2, <1>9
<1> QED
  BY <1>1, <1>2, <1>3, <1>4, <1>5, <1>6, <1>7, <1>8, <1>9 DEF PollerNext, WorkerStep

\* What the poller publishes was always voted, whatever fails or is restarted:
\* readers of math_main may reason about a mirror of the votes.
THEOREM PollerIsAMirror == PollerSpec => Mirror!Safety
<1>1. PollerInit => Mirror!Init
  BY MirrorInit
<1>2. PollerInv /\ [PollerNext]_pvars => [Mirror!Next]_(Mirror!vars)
  BY MirrorStep
<1> QED
  BY <1>1, <1>2, PollerInvariant, PTL DEF PollerSpec, Mirror!Safety

=============================================================================
