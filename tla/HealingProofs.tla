--------------------------- MODULE HealingProofs ---------------------------
(***************************************************************************)
(* Proofs about MathPoller: what healing a parked conversation must not    *)
(* meet for no vote and no change of moderation to be forgotten.           *)
(***************************************************************************)
EXTENDS PollerProofs

-----------------------------------------------------------------------------
(* The condition.  _unpark reads is_parked, drops the cache and un-parks in *)
(* three steps with no lock over them.                                      *)

Places(t, z, S) == thr[t].zid = z /\ thr[t].at \in S

\* Nothing but rebuilds is queued or run.
OnlyRebuilds(z) ==
  /\ queue[z].votes = {} /\ ~queue[z].mod
  /\ worker[z].batch.votes = {} /\ ~worker[z].batch.mod

\* While a poll heals a conversation, nobody else un-parks it; or it is only
\* rebuilt then, and the other poll has nothing to do with it.
HealsUndisturbed ==
  \A t \in Polls, z \in Zids : Places(t, z, {"invalidate", "unpark"}) =>
    \/ z \in parked
    \/ OnlyRebuilds(z) /\ \A u \in Polls : thr[u].zid = z => u = t

-----------------------------------------------------------------------------
(* What a conversation has to show is a piece of news: a vote, brought by   *)
(* the vote poll, or the statements moderated out, by the moderation poll.  *)

VoteNews == [by : {"vote"}, zid : Zids, item : Cells, stamp : Stamps]
ModNews == [by : {"mod"}, zid : Zids, out : SUBSET Tids]
News == VoteNews \cup ModNews

Has(conv, x) ==
  conv # None /\ IF x.by = "vote" THEN conv.cells[x.item] >= x.stamp ELSE conv.out = x.out

\* A batch that brings the news, or newer ones; one that brings no older ones
\* without them.
Brings(batch, x) == IF x.by = "vote" THEN AtLeast(x, batch.votes) ELSE batch.mod
Meets(batch, x) == x.by = "vote" /\ \E w \in batch.votes : w.zid = x.zid /\ w.item = x.item
Suits(batch, x) == Meets(batch, x) => Brings(batch, x)

\* A row that polls are done with, and a conversation a poll has in hand.
Seen(t, r) ==
  r \notin missed /\ (r.stamp <= win[t].lower \/ r \in win[t].handled \cup rows[t])
InHand(t, z) == z \in thr[t].todo \cup {thr[t].zid}
VoteOf(x) == [zid |-> x.zid, item |-> x.item, stamp |-> x.stamp]

\* News that were handed to the pool, or could have been.
Due(x) ==
  IF x.by = "vote"
  THEN /\ VoteOf(x) \in votes /\ Seen("vote", VoteOf(x))
       /\ ~AtLeast(x, {w \in fresh("vote") : InHand("vote", w.zid)})
  ELSE /\ x.out # {} /\ x.out = poll_moderation(x.zid)
       /\ ~InHand("mod", x.zid)
       /\ \A c \in comments : c.zid = x.zid => Seen("mod", c)

-----------------------------------------------------------------------------
(* The invariant.                                                          *)

Active(z) == worker[z].at \in {"load", "write", "keep"}
Shown(x) == Has(math[x.zid], x)
Firm(x) == cache[x.zid] = None \/ (Has(cache[x.zid], x) /\ Shown(x))

\* What the running worker makes will show x ...
Computes(x) ==
  LET w == worker[x.zid]
  IN  /\ w.at = "load" => \/ w.conv = None \/ Brings(w.batch, x)
                          \/ Has(w.conv, x) /\ Suits(w.batch, x) /\ Shown(x)
      /\ w.at \in {"write", "keep"} => Has(w.next, x)
      /\ w.at = "keep" => Shown(x)

\* ... and so does what is made after it failed.
Retries(x) ==
  LET b == worker[x.zid].batch IN Brings(b, x) \/ b.rebuild \/ Firm(x)

Announced(z) == queue[z] # NoWork \/ \E t \in Polls : Places(t, z, {"submit"})

Covered(x) ==
  LET z == x.zid
  IN  \/ Brings(queue[z], x) \/ queue[z].rebuild
      \/ z \in parked
      \/ Healing("reconcile", z)
      \/ ~Active(z) /\ cache[z] = None /\ Announced(z)
      \/ ~Active(z) /\ Firm(x) /\ Shown(x)
      \/ Active(z) /\ Computes(x) /\ Retries(x)

\* Older votes never come after newer ones.
Ordered(x) ==
  /\ Suits(queue[x.zid], x)
  /\ Suits(worker[x.zid].batch, x) \/ Brings(queue[x.zid], x)

\* What is cached when a poll un-parks shows x, and what may come to be.
Guarded(x) ==
  \A t \in Polls :
    /\ Places(t, x.zid, {"invalidate", "unpark"}) /\ Active(x.zid) => Computes(x)
    /\ Places(t, x.zid, {"unpark"}) => Firm(x)

Kept(x) == Covered(x) /\ Ordered(x) /\ Guarded(x)

\* Workers, parked conversations and threads at rest.
WorkersRest ==
  \A z \in Zids : /\ ~Active(z) => worker[z].batch = NoWork
                  /\ worker[z].at = "idle" => queue[z] = NoWork
                  /\ z \in parked => ~Active(z) /\ queue[z] = NoWork
ThreadsWait ==
  /\ \A t \in Threads : /\ thr[t].at \in {"idle", "check"} => thr[t].zid = None
                        /\ thr[t].at = "idle" => thr[t].todo = {}
  /\ \A t \in Polls : thr[t].at = "idle" => rows[t] = {}

\* The windows and the rows in them.
InWindow ==
  /\ \A t \in Polls, r \in Vote \cup Comment :
       r \in rows[t] \cup win[t].handled => r.stamp > win[t].lower
  /\ win["vote"].handled \subseteq votes
  /\ \A v \in missed : v \in Vote => v.stamp <= win["vote"].lower
Dated ==
  /\ \A c \in comments : c.stamp = 0 => ~c.out
  /\ \A c \in comments \cup rows["mod"] \cup win["mod"].handled :
       c.stamp # 0 => [zid |-> c.zid, item |-> c.item, stamp |-> c.stamp] \in changes

\* Where two polls heal one conversation, nothing is cached before both have
\* dropped it.
Twice ==
  \A t, u \in Polls, z \in Zids :
    t # u /\ Places(t, z, {"unpark"}) /\ Places(u, z, {"unpark", "submit"})
      => cache[z] = None

HealInv ==
  /\ WorkersRest /\ ThreadsWait
  /\ InWindow /\ Dated /\ Twice
  /\ \A x \in News : Due(x) => Kept(x)

-----------------------------------------------------------------------------
(* News, batches and conversations.                                        *)

LEMMA NewsTyped ==
  ASSUME NEW x \in News
  PROVE  x.zid \in Zids /\ x.by \in Polls
BY DEF News, VoteNews, ModNews, Polls

LEMMA MergedBrings ==
  ASSUME NEW x, NEW a \in Batch, NEW b \in Batch
  PROVE  /\ merged(a, b) \in Batch
         /\ Brings(merged(a, b), x) <=> Brings(a, x) \/ Brings(b, x)
         /\ Suits(a, x) /\ Suits(b, x) => Suits(merged(a, b), x)
         /\ merged(a, b).votes = a.votes \cup b.votes
         /\ merged(a, b).mod <=> a.mod \/ b.mod
         /\ merged(a, b).rebuild <=> a.rebuild \/ b.rebuild
         /\ merged(a, b) = NoWork => a = NoWork /\ b = NoWork
<1>1. /\ merged(a, b) \in Batch /\ merged(a, b).votes = a.votes \cup b.votes
      /\ merged(a, b).mod <=> a.mod \/ b.mod
      /\ merged(a, b).rebuild <=> a.rebuild \/ b.rebuild
  BY DEF merged, Batch
<1>2. Brings(merged(a, b), x) <=> Brings(a, x) \/ Brings(b, x)
  BY <1>1 DEF Brings, AtLeast
<1>3. Meets(merged(a, b), x) <=> Meets(a, x) \/ Meets(b, x)
  BY <1>1 DEF Meets
<1> QED
  BY <1>1, <1>2, <1>3, MergedIsWork DEF Suits

LEMMA NoWorkBringsNothing ==
  ASSUME NEW x
  PROVE  ~Brings(NoWork, x) /\ Suits(NoWork, x) /\ ~NoWork.rebuild /\ NoWork \in Batch
BY DEF Brings, Meets, Suits, NoWork, AtLeast, Batch

\* News that a newer vote of the cell makes good.
LEMMA NewerHas ==
  ASSUME NEW x \in VoteNews, NEW y \in VoteNews, y.zid = x.zid, y.item = x.item,
         y.stamp >= x.stamp
  PROVE  /\ \A conv \in Conv \cup Published \cup {None} : Has(conv, y) => Has(conv, x)
         /\ \A batch \in Batch : /\ Brings(batch, y) => Brings(batch, x)
                                 /\ Suits(batch, y) => Suits(batch, x)
<1> USE DEF VoteNews
<1>1. x.stamp \in Int /\ y.stamp \in Int /\ x.item \in Cells
  BY PollerAssumption DEF Stamps
<1>2. ASSUME NEW conv \in Conv \cup Published \cup {None}, Has(conv, y) PROVE Has(conv, x)
  <2>1. conv.cells[x.item] \in Int
    BY <1>1, <1>2, PollerAssumption DEF Has, Conv, Published, Matrix
  <2> QED
    BY <1>1, <1>2, <2>1 DEF Has
<1>3. ASSUME NEW batch \in Batch
      PROVE  /\ Brings(batch, y) => Brings(batch, x)
             /\ Meets(batch, x) => Meets(batch, y)
  <2>1. \A w \in batch.votes : w.stamp \in Int
    BY PollerAssumption DEF Batch, Vote, Stamps
  <2> QED
    BY <1>1, <2>1 DEF Brings, AtLeast, Meets
<1> QED
  BY <1>2, <1>3 DEF Suits

\* The history over what is persisted shows all news there are.
LEMMA LoadHas ==
  ASSUME Types, NEW x \in News, Due(x), NEW c \in load_or_init(x.zid)
  PROVE  Has(c, x)
<1>1. PICK f \in update_votes(EmptyMatrix, {v \in votes : v.zid = x.zid}) :
        \E o : c = [cells |-> f, out |-> update_moderation(o, poll_moderation(x.zid))]
  BY DEF load_or_init
<1>2. c # None
  BY ComputedTyped, NoneIsNoConv, NewsTyped
<1>3. CASE x.by = "vote"
  <2>1. VoteOf(x) \in votes
    BY <1>3 DEF Due
  <2>2. x.item \in Cells
    BY <1>3 DEF News, VoteNews, ModNews
  <2>3. x.stamp \in {v.stamp : v \in {w \in {v \in votes : v.zid = x.zid} : w.item = x.item}}
    BY <2>1 DEF VoteOf
  <2>4. x.stamp <= f[x.item]
    BY <2>2, <2>3 DEF update_votes
  <2>5. f[x.item] \in Int /\ x.stamp \in Int
    BY <1>3, <2>2, PollerAssumption DEF update_votes, Matrix, News, VoteNews, ModNews, Stamps
  <2> QED
    BY <1>1, <1>2, <1>3, <2>4, <2>5 DEF Has
<1>4. CASE x.by # "vote"
  BY <1>1, <1>2, <1>4 DEF Due, Has, update_moderation
<1> QED
  BY <1>3, <1>4

\* So does what is computed from a batch that brings them, or from a
\* conversation that shows them and a batch that suits.
LEMMA RecomputedHas ==
  ASSUME Types, NEW x \in News, Due(x), NEW conv \in Conv, NEW batch \in Batch,
         batch.votes \subseteq Own(votes, x.zid),
         Brings(batch, x) \/ (Has(conv, x) /\ Suits(batch, x)),
         NEW c \in recomputed(x.zid, conv, batch)
  PROVE  Has(c, x)
<1>1. PICK f \in update_votes(conv.cells, batch.votes) :
        c = [cells |-> f, out |-> IF batch.mod
               THEN update_moderation(conv.out, poll_moderation(x.zid)) ELSE conv.out]
  BY DEF recomputed
<1>2. c # None
  BY ComputedTyped, NoneIsNoConv, NewsTyped
<1>3. CASE x.by = "vote"
  <2> DEFINE stamps == {v.stamp : v \in {w \in batch.votes : w.item = x.item}}
  <2>1. x.item \in Cells /\ x.stamp \in Int
    BY <1>3, PollerAssumption DEF News, VoteNews, ModNews, Stamps
  <2>2. IF stamps = {} THEN f[x.item] = conv.cells[x.item]
                       ELSE \A s \in stamps : s <= f[x.item]
    BY <2>1 DEF update_votes
  <2>3. f[x.item] \in Int /\ \A s \in stamps : s \in Int
    BY <2>1, PollerAssumption DEF update_votes, Matrix, Batch, Vote, Stamps
  <2>4. CASE Brings(batch, x)
    <3>1. PICK w \in batch.votes : w.item = x.item /\ w.stamp >= x.stamp
      BY <1>3, <2>4 DEF Brings, AtLeast
    <3>2. w.stamp \in stamps
      BY <3>1
    <3>3. w.stamp <= f[x.item]
      BY <2>2, <3>2
    <3>4. f[x.item] >= x.stamp
      BY <2>1, <2>3, <3>1, <3>2, <3>3
    <3> QED
      BY <1>1, <1>2, <1>3, <3>4 DEF Has
  <2>5. CASE ~Brings(batch, x) /\ Has(conv, x) /\ Suits(batch, x)
    <3>1. ~Meets(batch, x)
      BY <2>5 DEF Suits
    <3>2. stamps = {}
      BY <1>3, <3>1 DEF Meets, Own
    <3> QED
      BY <1>1, <1>2, <1>3, <2>2, <2>5, <3>2 DEF Has
  <2> QED
    BY <2>4, <2>5
<1>4. CASE x.by # "vote"
  <2>1. x.out = poll_moderation(x.zid) /\ x.out # {}
    BY <1>4 DEF Due
  <2>2. CASE batch.mod
    BY <1>1, <1>2, <1>4, <2>1, <2>2 DEF Has, update_moderation
  <2>3. CASE ~batch.mod
    BY <1>1, <1>2, <1>4, <2>3 DEF Has, Brings
  <2> QED
    BY <2>2, <2>3
<1> QED
  BY <1>3, <1>4

-----------------------------------------------------------------------------
(* What a step leaves alone.                                               *)

\* The pool and what is computed for a conversation; where the threads are.
Untouched(z) ==
  /\ math'[z] = math[z] /\ cache'[z] = cache[z]
  /\ queue'[z] = queue[z] /\ worker'[z] = worker[z]
  /\ z \in parked' <=> z \in parked
SamePlaces(z) ==
  \A t \in Threads : \/ thr'[t].at = thr[t].at /\ thr'[t].zid = thr[t].zid
                     \/ thr[t].zid # z /\ thr'[t].zid # z

LEMMA PollsAreThreads == Polls \subseteq Threads /\ "reconcile" \in Threads \ Polls
BY DEF Polls, Threads

LEMMA PlacesKept ==
  ASSUME NEW z, SamePlaces(z)
  PROVE  /\ \A t \in Threads : \A S : Places(t, z, S)' <=> Places(t, z, S)
         /\ \A t \in Threads : Healing(t, z)' <=> Healing(t, z)
         /\ queue'[z] = queue[z] => (Announced(z)' <=> Announced(z))
<1>1. \A t \in Threads : \A S : Places(t, z, S)' <=> Places(t, z, S)
  BY DEF SamePlaces, Places
<1>2. \A t \in Threads : Healing(t, z)' <=> Healing(t, z)
  BY DEF SamePlaces, Healing
<1> QED
  BY <1>1, <1>2, PollsAreThreads DEF Announced

LEMMA SameKeeps ==
  ASSUME NEW x \in News, Untouched(x.zid), SamePlaces(x.zid)
  PROVE  Kept(x) <=> Kept(x)'
<1> DEFINE z == x.zid
<1>1. /\ \A t \in Polls : \A S : Places(t, z, S)' <=> Places(t, z, S)
      /\ Healing("reconcile", z)' <=> Healing("reconcile", z)
      /\ Announced(z)' <=> Announced(z)
  BY PlacesKept, PollsAreThreads DEF Untouched
<1>2. /\ Active(z)' <=> Active(z)
      /\ Shown(x)' <=> Shown(x)
      /\ Firm(x)' <=> Firm(x)
  BY DEF Untouched, Active, Shown, Firm
<1>3. Computes(x)' <=> Computes(x)
  BY <1>2 DEF Untouched, Computes
<1>4. Retries(x)' <=> Retries(x)
  BY <1>2 DEF Untouched, Retries
<1>5. Covered(x)' <=> Covered(x)
  BY <1>1, <1>2, <1>3, <1>4 DEF Untouched, Covered
<1>6. Ordered(x)' <=> Ordered(x)
  BY DEF Untouched, Ordered
<1>7. Guarded(x)' <=> Guarded(x)
  BY <1>1, <1>2, <1>3 DEF Guarded
<1> QED
  BY <1>5, <1>6, <1>7 DEF Kept

\* What is kept of a newer vote is kept of an older one.
LEMMA NewerKept ==
  ASSUME Types, NEW x \in VoteNews, NEW y \in VoteNews, y.zid = x.zid, y.item = x.item,
         y.stamp >= x.stamp, Kept(y)
  PROVE  Kept(x)
<1> DEFINE z == x.zid
<1> DEFINE w == worker[z]
<1>1. /\ z \in Zids /\ queue[z] \in Batch /\ w \in Worker
      /\ math[z] \in Conv \cup Published \cup {None} /\ cache[z] \in Conv \cup Published \cup {None}
  BY DEF Types, PollerTypeOK, VoteNews
<1>2. w.batch \in Batch /\ {w.conv, w.next} \subseteq Conv \cup Published \cup {None}
  BY <1>1 DEF Worker
<1>3. /\ \A conv \in Conv \cup Published \cup {None} : Has(conv, y) => Has(conv, x)
      /\ \A batch \in Batch : /\ Brings(batch, y) => Brings(batch, x)
                              /\ Suits(batch, y) => Suits(batch, x)
  BY NewerHas
<1>4. (Shown(y) => Shown(x)) /\ (Firm(y) => Firm(x))
  BY <1>1, <1>3 DEF Shown, Firm
<1>5. Computes(y) => Computes(x)
  BY <1>2, <1>3, <1>4 DEF Computes
<1>6. Retries(y) => Retries(x)
  BY <1>2, <1>3, <1>4 DEF Retries
<1>7. Covered(x)
  BY <1>1, <1>3, <1>4, <1>5, <1>6 DEF Kept, Covered
<1>8. Ordered(x)
  BY <1>1, <1>2, <1>3 DEF Kept, Ordered
<1>9. Guarded(x)
  BY <1>4, <1>5 DEF Kept, Guarded
<1> QED
  BY <1>7, <1>8, <1>9 DEF Kept

\* News become due only when the tables, the windows or what is in hand change.
LEMMA SameDue ==
  ASSUME NEW x \in News, Due(x)', UNCHANGED <<votes, comments, missed, win, rows>>,
         \A t \in Polls : InHand(t, x.zid) => InHand(t, x.zid)'
  PROVE  Due(x)
<1>1. /\ fresh("vote")' = fresh("vote")
      /\ \A t, r : Seen(t, r)' <=> Seen(t, r)
      /\ poll_moderation(x.zid)' = poll_moderation(x.zid)
  BY DEF fresh, split, split_votes, split_moderation, superseded, Seen, poll_moderation
<1>2. CASE x.by = "vote"
  <2>1. AtLeast(x, {w \in fresh("vote") : InHand("vote", w.zid)})
          => AtLeast(x, {w \in fresh("vote") : InHand("vote", w.zid)'})
    BY DEF AtLeast, Polls
  <2> QED
    BY <1>1, <1>2, <2>1 DEF Due
<1>3. CASE x.by # "vote"
  BY <1>1, <1>3 DEF Due, Polls
<1> QED
  BY <1>2, <1>3
-----------------------------------------------------------------------------
(* Workers and threads at rest.                                            *)

LEMMA SubmitRests ==
  ASSUME Types, WorkersRest, NEW work \in [Zids -> Batch], submit_all(work), UNCHANGED parked
  PROVE  WorkersRest'
<1>1. SUFFICES ASSUME NEW z \in Zids
               PROVE  /\ ~Active(z)' => worker'[z].batch = NoWork
                      /\ worker'[z].at = "idle" => queue'[z] = NoWork
                      /\ z \in parked => ~Active(z)' /\ queue'[z] = NoWork
  BY DEF WorkersRest
<1>2. worker[z] \in Worker
  BY DEF Types, PollerTypeOK
<1>3. CASE work[z] # NoWork /\ z \notin parked
  <2>1. worker'[z] = IF worker[z].at = "idle" THEN [worker[z] EXCEPT !.at = "loop"]
                                              ELSE worker[z]
    BY <1>3 DEF submit_all
  <2>2. CASE worker[z].at = "idle"
    <3>1. worker'[z].at = "loop" /\ worker'[z].batch = worker[z].batch
      BY <1>2, <2>1, <2>2 DEF Worker
    <3> QED
      BY <1>3, <2>2, <3>1 DEF WorkersRest, Active
  <2>3. CASE worker[z].at # "idle"
    BY <1>3, <2>1, <2>3 DEF WorkersRest, Active
  <2> QED
    BY <2>2, <2>3
<1>4. CASE ~(work[z] # NoWork /\ z \notin parked)
  <2>1. worker'[z] = worker[z] /\ queue'[z] = queue[z]
    BY <1>4 DEF submit_all
  <2> QED
    BY <2>1 DEF WorkersRest, Active
<1> QED
  BY <1>3, <1>4

LEMMA WorkersRestStep ==
  ASSUME PollerInv, WorkersRest, [PollerNext]_pvars
  PROVE  WorkersRest'
<1> USE PollerAssumption DEF PollerInv, tables, polls, pool, memory, bounds, pvars
<1>1. CASE UNCHANGED <<queue, worker, parked>>
  BY <1>1 DEF WorkersRest, Active
<1>2. ASSUME NEW t \in Threads, Unpark(t) PROVE WorkersRest'
  BY <1>2 DEF Unpark, WorkersRest, Active, Types, PollerTypeOK
<1>3. ASSUME NEW t \in Threads, Submit(t) PROVE WorkersRest'
  <2>1. submit(thr[t].zid, work_of(t, thr[t].zid)) /\ UNCHANGED parked
    BY <1>3 DEF Submit
  <2>2. [y \in Zids |-> IF y = thr[t].zid THEN work_of(t, thr[t].zid) ELSE NoWork]
          \in [Zids -> Batch]
    BY WorkTyped, NoWorkBringsNothing
  <2> QED
    BY <2>1, <2>2, SubmitRests DEF submit
<1>4. CASE Repair
  <2>1. [z \in Zids |-> IF math[z] # None /\ ~math[z].whole
           THEN [NoWork EXCEPT !.rebuild = TRUE] ELSE NoWork] \in [Zids -> Batch]
    BY DEF NoWork, Batch
  <2> QED
    BY <1>4, <2>1, SubmitRests DEF Repair
<1>5. ASSUME NEW z \in Zids, Rest(z) PROVE WorkersRest'
  BY <1>5 DEF Rest, Resting, WorkersRest, Active, Types, PollerTypeOK
<1>6. ASSUME NEW z \in Zids, Drain(z) PROVE WorkersRest'
  BY <1>6 DEF Drain, WorkersRest, Active, Types, PollerTypeOK
<1>7. ASSUME NEW z \in Zids, Compute(z) PROVE WorkersRest'
  <2>1. /\ worker[z].at = "load" /\ UNCHANGED <<queue, parked>>
        /\ \A y \in Zids : y # z => worker'[y] = worker[y]
        /\ worker'[z].at = "write"
    BY <1>7 DEF Compute, Types, PollerTypeOK, Worker
  <2> QED
    BY <2>1 DEF WorkersRest, Active
<1>8. ASSUME NEW z \in Zids, Write(z) PROVE WorkersRest'
  <2>1. /\ worker[z].at = "write" /\ UNCHANGED <<queue, parked>>
        /\ \A y \in Zids : y # z => worker'[y] = worker[y]
        /\ worker'[z].at = "keep"
    BY <1>8 DEF Write, Types, PollerTypeOK, Worker
  <2> QED
    BY <2>1 DEF WorkersRest, Active
<1>9. ASSUME NEW z \in Zids, Keep(z) PROVE WorkersRest'
  BY <1>9 DEF Keep, Resting, WorkersRest, Active, Types, PollerTypeOK
<1>10. ASSUME NEW z \in Zids, Fail(z) PROVE WorkersRest'
  <2>1. /\ worker[z].at \in {"load", "write"}
        /\ \A y \in Zids : y # z => worker'[y] = worker[y] /\ queue'[y] = queue[y]
                                    /\ (y \in parked' <=> y \in parked)
        /\ worker'[z].at = "loop" /\ worker'[z].batch = NoWork
        /\ z \in parked' => z \in parked \/ queue'[z] = NoWork
    BY <1>10 DEF Fail, on_engine_error, Resting, Types, PollerTypeOK
  <2> QED
    BY <2>1 DEF WorkersRest, Active
<1>11. CASE Restart
  BY <1>11 DEF Restart, Resting, WorkersRest, Active
<1>12. \A t \in running : t \in Threads
  BY DEF Types, PollerTypeOK
<1>13. \/ UNCHANGED <<queue, worker, parked>>
       \/ \E t \in Threads : Unpark(t) \/ Submit(t)
       \/ Repair \/ Restart
       \/ \E z \in Zids : Rest(z) \/ Drain(z) \/ Compute(z) \/ Write(z) \/ Keep(z) \/ Fail(z)
  BY <1>12 DEF PollerNext, ThreadStep, WorkerStep, CommitVote, Moderate, Poll, Advance,
               Check, Invalidate, Reconcile, Reconciled, Evict
<1> QED
  BY <1>1, <1>2, <1>3, <1>4, <1>5, <1>6, <1>7, <1>8, <1>9, <1>10, <1>11, <1>13

LEMMA ThreadsWaitStep ==
  ASSUME PollerInv, ThreadsWait, [PollerNext]_pvars
  PROVE  ThreadsWait'
<1> USE PollerAssumption DEF PollerInv, tables, polls, pool, memory, bounds, pvars
<1>1. CASE UNCHANGED <<thr, rows>>
  BY <1>1 DEF ThreadsWait
<1>2. ASSUME NEW t \in Polls, Poll(t) PROVE ThreadsWait'
  <2>1. /\ \A u \in Threads : u # t => thr'[u] = thr[u]
        /\ \A u \in Polls : u # t => rows'[u] = rows[u]
        /\ thr'[t].at = "check" /\ thr'[t].zid = None
    BY <1>2, PollsAreThreads DEF Poll, Types, PollerTypeOK
  <2> QED
    BY <2>1, PollsAreThreads DEF ThreadsWait
<1>3. ASSUME NEW t \in Polls, Advance(t) PROVE ThreadsWait'
  <2>1. /\ \A u \in Threads : u # t => thr'[u] = thr[u]
        /\ \A u \in Polls : u # t => rows'[u] = rows[u]
        /\ thr'[t] = Waiting /\ rows'[t] = {}
    BY <1>3, PollsAreThreads DEF Advance, Types, PollerTypeOK
  <2> QED
    BY <2>1, PollsAreThreads DEF ThreadsWait, Waiting
<1>4. ASSUME NEW t \in Threads,
             Invalidate(t) \/ Unpark(t) \/ Submit(t) \/ \E z \in Zids : Check(t, z)
      PROVE ThreadsWait'
  <2>1. /\ \A u \in Threads : u # t => thr'[u] = thr[u]
        /\ UNCHANGED rows
        /\ \/ thr'[t].at \in {"invalidate", "unpark", "submit"}
           \/ thr'[t].at = "check" /\ thr'[t].zid = None
    BY <1>4 DEF Invalidate, Unpark, Submit, Check, Types, PollerTypeOK, Thread
  <2> QED
    BY <2>1, PollsAreThreads DEF ThreadsWait
<1>5. CASE Reconcile \/ Reconciled
  BY <1>5, PollsAreThreads DEF Reconcile, Reconciled, Waiting, ThreadsWait, Types, PollerTypeOK
<1>6. CASE Restart
  BY <1>6 DEF Restart, Waiting, ThreadsWait
<1>7. \A t \in running : t \in Threads
  BY DEF Types, PollerTypeOK
<1>8. \/ UNCHANGED <<thr, rows>>
      \/ \E t \in Polls : Poll(t) \/ Advance(t)
      \/ \E t \in Threads : \/ Invalidate(t) \/ Unpark(t) \/ Submit(t)
                            \/ \E z \in Zids : Check(t, z)
      \/ Reconcile \/ Reconciled \/ Restart
  BY <1>7 DEF PollerNext, ThreadStep, WorkerStep, CommitVote, Moderate, Rest, Drain,
              Compute, Write, Keep, Fail, Evict, Repair
<1> QED
  BY <1>1, <1>2, <1>3, <1>4, <1>5, <1>6, <1>8

-----------------------------------------------------------------------------
(* The windows and the rows in them.                                       *)

LEMMA InWindowStep ==
  ASSUME PollerInv, InWindow, [PollerNext]_pvars
  PROVE  InWindow'
<1> USE PollerAssumption, OverlapAssumption
        DEF PollerInv, tables, polls, pool, memory, bounds, pvars
<1>1. CASE UNCHANGED <<votes, missed, win, rows>>
  BY <1>1 DEF InWindow
<1>2. ASSUME NEW v \in Vote, CommitVote(v) PROVE InWindow'
  <2>1. /\ votes \subseteq votes' /\ UNCHANGED <<win, rows>>
        /\ \A x \in missed' : x \in missed \/ x.stamp <= win["vote"].lower
    BY <1>2 DEF CommitVote, below
  <2> QED
    BY <2>1 DEF InWindow
<1>3. ASSUME NEW c \in comments, NEW s \in Stamps, Moderate(c, s) PROVE InWindow'
  <2>1. [c EXCEPT !.stamp = s, !.out = ~c.out] \in Comment
    <3>1. c \in [zid : Zids, item : Tids, stamp : 0..MaxStamp, out : BOOLEAN]
      BY DEF Types, PollerTypeOK, Comment
    <3>2. s \in 0..MaxStamp /\ (~c.out) \in BOOLEAN
      BY DEF Stamps
    <3> HIDE DEF PollerInv
    <3> QED
      BY <3>1, <3>2 DEF Comment
  <2>2. \A x \in missed' : x \in missed \/ x \in Comment
    BY <1>3, <2>1 DEF Moderate, below
  <2>3. UNCHANGED <<votes, win, rows>>
    BY <1>3 DEF Moderate
  <2> QED
    BY <2>2, <2>3, Apart DEF InWindow
<1>4. ASSUME NEW t \in Polls, Poll(t) PROVE InWindow'
  <2>1. /\ UNCHANGED <<votes, missed, win>>
        /\ \A u \in Polls : rows'[u] = IF u = t THEN poll_since(Table(t), win[t]) ELSE rows[u]
    BY <1>4 DEF Poll, Types, PollerTypeOK
  <2>2. \A r \in poll_since(Table(t), win[t]) : r.stamp > win[t].lower
    BY DEF poll_since
  <2> QED
    BY <2>1, <2>2 DEF InWindow
<1>5. ASSUME NEW t \in Polls, Advance(t) PROVE InWindow'
  <2>1. PICK m \in advance_watermark(win[t].watermark, rows[t]) :
          /\ win' = [win EXCEPT ![t] = advanced(win[t], rows[t], m)]
          /\ missed' = missed \cup {r \in Table(t) \ rows[t] :
                          r.stamp > win[t].lower /\ r.stamp <= lower_after(win[t], m)}
    BY <1>5 DEF Advance
  <2>2. win[t].watermark \in Nat /\ win[t].lower \in Nat /\ rows[t] \subseteq Vote \cup Comment
    BY DEF Types, PollerTypeOK, Window
  <2>3. m \in Nat
    BY <2>2 DEF advance_watermark, Vote, Comment, Stamps
  <2>4. lower_after(win[t], m) \in Nat /\ lower_after(win[t], m) >= win[t].lower
    BY <2>2, <2>3 DEF lower_after
  <2>5. /\ win'[t].lower = lower_after(win[t], m)
        /\ win'[t].handled = {r \in rows[t] : r.stamp > lower_after(win[t], m)}
        /\ \A u \in Polls : u # t => win'[u] = win[u]
    BY <2>1 DEF advanced, Types, PollerTypeOK
  <2>6. UNCHANGED votes /\ \A u \in Polls : rows'[u] = IF u = t THEN {} ELSE rows[u]
    BY <1>5 DEF Advance, Types, PollerTypeOK
  <2>7. \A u \in Polls, r \in Vote \cup Comment :
          r \in rows'[u] \cup win'[u].handled => r.stamp > win'[u].lower
    BY <2>5, <2>6 DEF InWindow
  <2>8. win'["vote"].handled \subseteq votes
    BY <2>5, <2>6 DEF InWindow, Polls, Types, Reads
  <2>9. ASSUME NEW v \in missed', v \in Vote PROVE v.stamp <= win'["vote"].lower
    <3>1. CASE v \in missed
      <4>1. v.stamp <= win["vote"].lower /\ v.stamp \in Nat /\ win["vote"].lower \in Nat
        BY <2>9, <3>1 DEF InWindow, Vote, Stamps, Types, PollerTypeOK, Window, Polls
      <4> QED
        BY <2>4, <2>5, <4>1 DEF Polls
    <3>2. CASE v \notin missed
      <4>1. v \in Table(t) /\ v.stamp <= lower_after(win[t], m)
        BY <2>1, <3>2
      <4>2. t = "vote"
        BY <2>9, <4>1, Apart DEF Table, Polls, Types, PollerTypeOK
      <4> QED
        BY <2>5, <4>1, <4>2
    <3> QED
      BY <3>1, <3>2
  <2> QED
    BY <2>6, <2>7, <2>8, <2>9 DEF InWindow
<1>6. CASE Restart
  BY <1>6 DEF Restart, start, InWindow, Polls
<1>7. \A t \in running : t \in Threads
  BY DEF Types, PollerTypeOK
<1>8. \/ UNCHANGED <<votes, missed, win, rows>>
      \/ \E v \in Vote : CommitVote(v)
      \/ \E c \in comments, s \in Stamps : Moderate(c, s)
      \/ \E t \in Polls : Poll(t) \/ Advance(t)
      \/ Restart
  BY <1>7 DEF PollerNext, ThreadStep, WorkerStep, Invalidate, Unpark, Submit, Check, Reconcile,
              Reconciled, Rest, Drain, Compute, Write, Keep, Fail, Evict, Repair
<1> QED
  BY <1>1, <1>2, <1>3, <1>4, <1>5, <1>6, <1>8

LEMMA DatedStep ==
  ASSUME PollerInv, Dated, [PollerNext]_pvars
  PROVE  Dated'
<1> USE PollerAssumption DEF PollerInv, tables, polls, pool, memory, bounds, pvars
<1>1. CASE UNCHANGED <<comments, changes, win, rows>>
  BY <1>1 DEF Dated
<1>2. ASSUME NEW c \in comments, NEW s \in Stamps, Moderate(c, s) PROVE Dated'
  <2> DEFINE changed == [c EXCEPT !.stamp = s, !.out = ~c.out]
  <2>1. changed.zid = c.zid /\ changed.item = c.item /\ changed.stamp = s
    BY DEF Types, PollerTypeOK, Comment
  <2>2. s # 0
    BY DEF Stamps
  <2>3. /\ comments' \subseteq comments \cup {changed}
        /\ changes' = changes \cup {[zid |-> c.zid, item |-> c.item, stamp |-> s]}
        /\ UNCHANGED <<win, rows>>
    BY <1>2 DEF Moderate
  <2> HIDE DEF changed
  <2> QED
    BY <2>1, <2>2, <2>3 DEF Dated
<1>3. ASSUME NEW t \in Polls, Poll(t) PROVE Dated'
  <2>1. /\ UNCHANGED <<comments, changes, win>>
        /\ \A u \in Polls : rows'[u] = IF u = t THEN poll_since(Table(t), win[t]) ELSE rows[u]
    BY <1>3 DEF Poll, Types, PollerTypeOK
  <2>2. rows'["mod"] \subseteq rows["mod"] \cup comments
    BY <2>1 DEF Table, poll_since, Polls
  <2> QED
    BY <2>1, <2>2 DEF Dated
<1>4. ASSUME NEW t \in Polls, Advance(t) PROVE Dated'
  <2>1. /\ \A u \in Polls : rows'[u] \subseteq rows[u]
        /\ \A u \in Polls : win'[u].handled \subseteq win[u].handled \cup rows[u]
        /\ UNCHANGED <<comments, changes>>
    BY <1>4 DEF Advance, advanced, Types, PollerTypeOK
  <2> QED
    BY <2>1 DEF Dated, Polls
<1>5. CASE Restart
  BY <1>5 DEF Restart, start, Dated, Polls
<1>6. \A t \in running : t \in Threads
  BY DEF Types, PollerTypeOK
<1>7. \/ UNCHANGED <<comments, changes, win, rows>>
      \/ \E c \in comments, s \in Stamps : Moderate(c, s)
      \/ \E t \in Polls : Poll(t) \/ Advance(t)
      \/ Restart
  BY <1>6 DEF PollerNext, ThreadStep, WorkerStep, CommitVote, Invalidate, Unpark, Submit, Check,
              Reconcile, Reconciled, Rest, Drain, Compute, Write, Keep, Fail, Evict, Repair
<1> QED
  BY <1>1, <1>2, <1>3, <1>4, <1>5, <1>7

-----------------------------------------------------------------------------
(* Two polls at one conversation.                                          *)

LEMMA TwiceStep ==
  ASSUME PollerInv, WorkersRest, Twice, HealsUndisturbed, HealsUndisturbed',
         [PollerNext]_pvars
  PROVE  Twice'
<1> USE PollerAssumption DEF PollerInv, tables, polls, pool, memory, bounds, pvars
<1>1. SUFFICES ASSUME NEW t \in Polls, NEW u \in Polls, NEW z \in Zids, t # u,
                      Places(t, z, {"unpark"})', Places(u, z, {"unpark", "submit"})'
               PROVE  cache'[z] = None
  BY DEF Twice
<1>2. CASE UNCHANGED <<thr, cache>>
  BY <1>1, <1>2 DEF Twice, Places
<1>3. ASSUME NEW s \in Threads, NEW y \in Zids, Check(s, y) PROVE cache'[z] = None
  <2>1. /\ UNCHANGED <<cache, parked>>
        /\ \A p \in Threads : p # s => thr'[p] = thr[p]
        /\ thr'[s].zid = y
        /\ thr'[s].at = IF y \in parked THEN "invalidate" ELSE "submit"
    BY <1>3 DEF Check, Types, PollerTypeOK
  <2>2. CASE s = u
    <3>1. z \notin parked'
      BY <1>1, <2>1, <2>2, PollsAreThreads DEF Places
    <3>2. thr'[u].zid = z
      BY <1>1 DEF Places
    <3> QED
      BY <1>1, <3>1, <3>2 DEF HealsUndisturbed, Places
  <2>3. CASE s # u
    BY <1>1, <2>1, <2>3, PollsAreThreads DEF Twice, Places
  <2> QED
    BY <2>2, <2>3
<1>4. ASSUME NEW s \in Threads, Invalidate(s) PROVE cache'[z] = None
  <2>1. /\ \A y \in Zids : cache'[y] = IF y = thr[s].zid THEN None ELSE cache[y]
        /\ \A p \in Threads : p # s => thr'[p] = thr[p]
        /\ thr'[s].zid = thr[s].zid
    BY <1>4 DEF Invalidate, Types, PollerTypeOK
  <2> QED
    BY <1>1, <2>1, PollsAreThreads DEF Twice, Places
<1>5. ASSUME NEW s \in Threads, Unpark(s) PROVE cache'[z] = None
  <2>1. /\ UNCHANGED cache
        /\ \A p \in Threads : p # s => thr'[p] = thr[p]
        /\ thr[s].at = "unpark" /\ thr'[s].zid = thr[s].zid /\ thr'[s].at = "submit"
    BY <1>5 DEF Unpark, Types, PollerTypeOK
  <2> QED
    BY <1>1, <2>1, PollsAreThreads DEF Twice, Places
<1>6. ASSUME NEW s \in Threads, \/ Submit(s) \/ (s \in Polls /\ (Poll(s) \/ Advance(s)))
      PROVE cache'[z] = None
  <2>1. /\ UNCHANGED cache
        /\ \A p \in Threads : p # s => thr'[p] = thr[p]
        /\ thr'[s].at \in {"idle", "check"}
    BY <1>6 DEF Submit, Poll, Advance, Waiting, Types, PollerTypeOK, Thread
  <2> QED
    BY <1>1, <2>1, PollsAreThreads DEF Twice, Places
<1>7. CASE Reconcile \/ Reconciled
  <2>1. UNCHANGED cache /\ \A p \in Polls : thr'[p] = thr[p]
    BY <1>7, PollsAreThreads DEF Reconcile, Reconciled, Types, PollerTypeOK
  <2> QED
    BY <1>1, <2>1 DEF Twice, Places
<1>8. ASSUME NEW y \in Zids, Keep(y) PROVE cache'[z] = None
  <2>1. /\ Active(y) /\ UNCHANGED thr
        /\ \A q \in Zids : q # y => cache'[q] = cache[q]
    BY <1>8 DEF Keep, Active, Types, PollerTypeOK
  <2>2. CASE z = y
    BY <1>1, <2>1, <2>2 DEF HealsUndisturbed, Places, WorkersRest
  <2> QED
    BY <1>1, <2>1, <2>2 DEF Twice, Places
<1>9. ASSUME NEW y \in Zids, Evict(y) PROVE cache'[z] = None
  <2>1. UNCHANGED thr /\ \A q \in Zids : cache'[q] = IF q = y THEN None ELSE cache[q]
    BY <1>9 DEF Evict, Types, PollerTypeOK
  <2> QED
    BY <1>1, <2>1 DEF Twice, Places
<1>10. CASE Restart
  BY <1>10 DEF Restart
<1>11. \A s \in running : s \in Threads
  BY DEF Types, PollerTypeOK
<1>12. \/ UNCHANGED <<thr, cache>>
       \/ \E s \in Threads : \/ Invalidate(s) \/ Unpark(s) \/ Submit(s)
                             \/ s \in Polls /\ (Poll(s) \/ Advance(s))
                             \/ \E y \in Zids : Check(s, y)
       \/ Reconcile \/ Reconciled \/ Restart
       \/ \E y \in Zids : Keep(y) \/ Evict(y)
  BY <1>11 DEF PollerNext, ThreadStep, WorkerStep, CommitVote, Moderate, Rest, Drain, Compute,
               Write, Fail, Repair
<1> QED
  BY <1>2, <1>3, <1>4, <1>5, <1>6, <1>7, <1>8, <1>9, <1>10, <1>12

-----------------------------------------------------------------------------
(* What is due.                                                            *)

LEMMA NewsOfVotes ==
  ASSUME NEW x \in News
  PROVE  /\ x.by = "vote" <=> x \in VoteNews
         /\ x \in VoteNews => VoteOf(x) \in Vote /\ x.stamp \in Nat \ {0} /\ x.item \in Cells
         /\ x.by # "vote" => x \in ModNews /\ x.by = "mod"
BY PollerAssumption DEF News, VoteNews, ModNews, VoteOf, Vote, Stamps

LEMMA NewsOf ==
  ASSUME NEW v \in Vote
  PROVE  \E x \in VoteNews : VoteOf(x) = v /\ x.zid = v.zid /\ x.item = v.item /\ x.stamp = v.stamp
<1> DEFINE x == [by |-> "vote", zid |-> v.zid, item |-> v.item, stamp |-> v.stamp]
<1>1. x \in VoteNews
  BY DEF VoteNews, Vote
<1>2. VoteOf(x) = v
  BY DEF VoteOf, Vote
<1> QED
  BY <1>1, <1>2

LEMMA FreshIs ==
  fresh("vote") = {r \in rows["vote"] \ win["vote"].handled : ~superseded(win["vote"], r)}
BY DEF fresh, split, split_votes

\* What a poll delivers suits every vote it is done with.
LEMMA FreshSuits ==
  ASSUME Types, InWindow, NEW x \in VoteNews, Seen("vote", VoteOf(x)),
         NEW r \in fresh("vote"), r.zid = x.zid, r.item = x.item
  PROVE  AtLeast(x, {w \in fresh("vote") : w.zid = x.zid})
<1> DEFINE h == win["vote"]
<1> DEFINE v == VoteOf(x)
<1>1. v \in Vote /\ v.zid = x.zid /\ v.item = x.item /\ v.stamp = x.stamp
  BY NewsOfVotes DEF VoteOf, News
<1>2. /\ r \in Vote /\ r.stamp \in Nat /\ x.stamp \in Nat /\ h.lower \in Nat
      /\ \A w \in h.handled : w \in Vote /\ w.stamp \in Nat
  BY <1>1, PollerAssumption, FreshIs
     DEF Types, PollerTypeOK, Reads, InWindow, Window, Polls, Vote, Stamps
<1>3. CASE r.stamp >= x.stamp
  BY <1>3 DEF AtLeast
<1>4. CASE r.stamp < x.stamp
  <2>1. r \in rows["vote"] /\ r.stamp > h.lower /\ ~superseded(h, r)
    BY <1>2, FreshIs DEF InWindow, Polls
  <2>2. v \in h.handled \cup rows["vote"]
    BY <1>1, <1>2, <1>4, <2>1 DEF Seen
  <2>3. v \notin h.handled
    BY <1>1, <1>4, <2>1 DEF superseded
  <2>4. ~superseded(h, v)
    <3>1. ASSUME NEW w \in h.handled, w.zid = v.zid, w.item = v.item, w.stamp > v.stamp
          PROVE FALSE
      BY <1>1, <1>2, <1>4, <2>1, <3>1 DEF superseded
    <3> QED
      BY <3>1 DEF superseded
  <2>5. v \in fresh("vote")
    BY <2>2, <2>3, <2>4, FreshIs
  <2> QED
    BY <1>1, <1>2, <2>5 DEF AtLeast
<1> QED
  BY <1>2, <1>3, <1>4

\* What a thread submits suits everything that is due.
LEMMA WorkSuits ==
  ASSUME Types, InWindow, NEW x \in News, Due(x), NEW t \in Threads
  PROVE  Suits(work_of(t, x.zid), x)
<1>1. SUFFICES ASSUME Meets(work_of(t, x.zid), x) PROVE AtLeast(x, work_of(t, x.zid).votes)
  BY DEF Suits, Brings, Meets
<1>2. PICK r \in work_of(t, x.zid).votes : r.zid = x.zid /\ r.item = x.item
  BY <1>1 DEF Meets
<1>3. work_of(t, x.zid).votes = {w \in fresh("vote") : w.zid = x.zid} /\ r \in fresh("vote")
  BY <1>2 DEF work_of
<1>4. x \in VoteNews /\ Seen("vote", VoteOf(x))
  BY <1>1, NewsOfVotes DEF Meets, Due
<1> QED
  BY <1>2, <1>3, <1>4, FreshSuits

\* When one vote is superseded by another, a poll is done with both.
LEMMA DuePoll ==
  ASSUME PollerInv, ThreadsWait, InWindow, NEW t \in Polls, Poll(t), NEW x \in News, Due(x)'
  PROVE  \/ Due(x)
         \/ /\ x \in VoteNews
            /\ \E y \in VoteNews : /\ y.zid = x.zid /\ y.item = x.item /\ y.stamp >= x.stamp
                                   /\ Due(y)
<1> USE DEF PollerInv
<1> DEFINE polled == poll_since(Table(t), win[t])
<1>1. /\ UNCHANGED <<votes, comments, missed, win>> /\ thr[t].at = "idle"
      /\ \A u \in Polls : rows'[u] = IF u = t THEN polled ELSE rows[u]
      /\ \A u \in Polls : u # t => thr'[u] = thr[u]
      /\ thr'[t].todo = {r.zid : r \in split(t, polled)}
  BY PollsAreThreads DEF Poll, Types, PollerTypeOK, tables
<1>2. /\ rows[t] = {} /\ thr[t].zid = None /\ thr[t].todo = {}
      /\ \A z \in Zids : ~InHand(t, z)
  BY <1>1, PollsAreThreads, PollerAssumption DEF ThreadsWait, InHand
<1>3. poll_moderation(x.zid)' = poll_moderation(x.zid)
  BY <1>1 DEF poll_moderation
<1>4. CASE x.by = "vote" /\ t = "vote"
  <2> DEFINE v == VoteOf(x)
  <2>1. v \in votes /\ v \notin missed
    BY <1>1, <1>4 DEF Due, Seen
  <2>2. x \in VoteNews /\ v \in Vote /\ v.zid = x.zid /\ v.item = x.item /\ v.stamp = x.stamp
    BY <1>4, NewsOfVotes DEF VoteOf
  <2>3. fresh("vote") = {}
    BY <1>2, <1>4, FreshIs
  <2>4. \A y \in VoteNews : Due(y) <=> VoteOf(y) \in votes /\ Seen("vote", VoteOf(y))
    BY <2>3, NewsOfVotes DEF Due, AtLeast, VoteNews, News
  <2>5. fresh("vote")' = split_votes(win["vote"], polled)
    BY <1>1, <1>4 DEF fresh, split, Polls
  <2>6. \A w \in split_votes(win["vote"], polled) : InHand("vote", w.zid)'
    BY <1>1, <1>4 DEF InHand, split
  <2>7. v \notin split_votes(win["vote"], polled)
    <3>1. SUFFICES ASSUME v \in split_votes(win["vote"], polled) PROVE FALSE
      OBVIOUS
    <3>2. v.stamp \in Int
      BY <2>2, PollerAssumption DEF Vote, Stamps
    <3>3. AtLeast(x, {w \in fresh("vote")' : InHand("vote", w.zid)'})
      BY <2>2, <2>5, <2>6, <3>1, <3>2 DEF AtLeast
    <3>4. AtLeast(x, {w \in fresh("vote") : InHand("vote", w.zid)})'
      BY <3>3 DEF AtLeast
    <3> QED
      BY <1>4, <3>4 DEF Due
  <2>8. CASE Seen("vote", v)
    BY <2>1, <2>2, <2>4, <2>8
  <2>9. CASE ~Seen("vote", v)
    <3>1. v \in polled /\ v \notin win["vote"].handled
      BY <1>1, <1>4, <2>1, <2>9 DEF Due, Seen
    <3>2. PICK h \in win["vote"].handled : h.zid = v.zid /\ h.item = v.item /\ h.stamp > v.stamp
      BY <2>7, <3>1 DEF split_votes, superseded
    <3>3. h \in votes /\ h \in Vote /\ h.stamp > win["vote"].lower
      BY <3>2 DEF InWindow, Types, PollerTypeOK, Polls
    <3>4. h \notin missed
      <4>1. h.stamp \in Int /\ win["vote"].lower \in Int
        BY <3>3, PollerAssumption DEF Vote, Stamps, Types, PollerTypeOK, Window, Polls
      <4> QED
        BY <3>3, <4>1 DEF InWindow
    <3>5. PICK y \in VoteNews : VoteOf(y) = h /\ y.zid = h.zid /\ y.item = h.item /\ y.stamp = h.stamp
      BY <3>3, NewsOf
    <3>6. Due(y)
      BY <2>4, <3>2, <3>3, <3>4, <3>5 DEF Seen
    <3>7. y.stamp >= x.stamp
      BY <2>2, <3>2, <3>3, <3>5, PollerAssumption DEF Vote, Stamps
    <3> QED
      BY <2>2, <3>2, <3>5, <3>6, <3>7
  <2> QED
    BY <2>8, <2>9
<1>5. CASE x.by = "vote" /\ t # "vote"
  <2>1. t = "mod" /\ rows'["vote"] = rows["vote"] /\ thr'["vote"] = thr["vote"]
    BY <1>1, <1>5 DEF Polls
  <2>2. fresh("vote")' = fresh("vote") /\ \A z : InHand("vote", z)' <=> InHand("vote", z)
    BY <1>1, <2>1 DEF fresh, split, split_votes, superseded, InHand
  <2>3. AtLeast(x, {w \in fresh("vote") : InHand("vote", w.zid)})
          => AtLeast(x, {w \in fresh("vote") : InHand("vote", w.zid)})'
    BY <2>2 DEF AtLeast
  <2> QED
    BY <1>1, <1>5, <2>1, <2>3 DEF Due, Seen
<1>6. CASE x.by # "vote" /\ t = "mod"
  <2>1. ~InHand("mod", x.zid)
    BY <1>2, <1>6, NewsTyped
  <2>2. x.zid \notin thr'["mod"].todo
    BY <1>6 DEF Due, InHand
  <2>3. ASSUME NEW c \in comments, c.zid = x.zid PROVE Seen("mod", c)
    <3>1. Seen("mod", c)'
      BY <1>1, <1>6, <2>3 DEF Due
    <3>2. c \notin split_moderation(win["mod"], polled)
      BY <1>1, <1>6, <2>2, <2>3 DEF split
    <3> QED
      BY <1>1, <1>6, <3>1, <3>2 DEF Seen, split_moderation
  <2> QED
    BY <1>3, <1>6, <2>1, <2>3 DEF Due
<1>7. CASE x.by # "vote" /\ t # "mod"
  <2>1. "mod" \in Polls /\ rows'["mod"] = rows["mod"] /\ thr'["mod"] = thr["mod"]
    BY <1>1, <1>7 DEF Polls
  <2>2. (InHand("mod", x.zid)' <=> InHand("mod", x.zid)) /\ \A c : Seen("mod", c)' <=> Seen("mod", c)
    BY <1>1, <2>1 DEF InHand, Seen
  <2> QED
    BY <1>1, <1>3, <1>7, <2>2 DEF Due
<1> QED
  BY <1>4, <1>5, <1>6, <1>7

\* Rows that fall below the window unread are missed, not seen.
LEMMA DueAdvance ==
  ASSUME PollerInv, ThreadsWait, NEW t \in Polls, Advance(t), NEW x \in News, Due(x)'
  PROVE  Due(x)
<1> USE DEF PollerInv
<1>1. PICK m \in advance_watermark(win[t].watermark, rows[t]) :
        /\ win' = [win EXCEPT ![t] = advanced(win[t], rows[t], m)]
        /\ missed' = missed \cup {r \in Table(t) \ rows[t] :
                        r.stamp > win[t].lower /\ r.stamp <= lower_after(win[t], m)}
  BY DEF Advance
<1> DEFINE lower == lower_after(win[t], m)
<1>2. win[t].watermark \in Nat /\ win[t].lower \in Nat /\ rows[t] \subseteq Vote \cup Comment
  BY DEF Types, PollerTypeOK, Window
<1>3. m \in Nat
  BY <1>2, PollerAssumption DEF advance_watermark, Vote, Comment, Stamps
<1>4. lower \in Nat
  BY <1>2, <1>3, OverlapAssumption DEF lower_after
<1>5. /\ win'[t].lower = lower /\ win'[t].handled = {r \in rows[t] : r.stamp > lower}
      /\ rows'[t] = {}
      /\ UNCHANGED <<votes, comments>>
      /\ \A u \in Polls : u # t => /\ win'[u] = win[u] /\ rows'[u] = rows[u]
                                   /\ thr'[u] = thr[u]
  BY <1>1, PollsAreThreads DEF Advance, advanced, Types, PollerTypeOK, tables
<1>6. \A z \in Zids : ~InHand(t, z)
  BY PollsAreThreads, PollerAssumption DEF Advance, ThreadsWait, InHand
<1>7. \A u \in Polls : \A z \in Zids : u # t => (InHand(u, z)' <=> InHand(u, z))
  BY <1>5 DEF InHand
<1>8. ASSUME NEW u \in Polls, NEW r \in Table(u), r.stamp \in Nat, Seen(u, r)' PROVE Seen(u, r)
  <2>1. r \notin missed
    BY <1>1, <1>8 DEF Seen
  <2>2. CASE u # t
    BY <1>5, <1>8, <2>1, <2>2 DEF Seen
  <2>3. CASE u = t
    <3>1. CASE r \in rows[t]
      BY <2>1, <2>3, <3>1 DEF Seen
    <3>2. CASE r \notin rows[t]
      <4>1. r.stamp <= lower
        BY <1>5, <1>8, <2>3, <3>2 DEF Seen
      <4>2. ~(r.stamp > win[t].lower)
        BY <1>1, <1>8, <2>3, <3>2, <4>1 DEF Seen
      <4> QED
        BY <1>2, <1>8, <2>1, <2>3, <4>2 DEF Seen
    <3> QED
      BY <3>1, <3>2
  <2> QED
    BY <2>2, <2>3
<1>9. CASE x.by = "vote"
  <2>1. VoteOf(x) \in votes /\ VoteOf(x).stamp \in Nat
    BY <1>5, <1>9, NewsOfVotes, PollerAssumption DEF Due, Vote, Stamps
  <2>2. Seen("vote", VoteOf(x))
    BY <1>8, <1>9, <2>1 DEF Due, Table, Polls
  <2>3. ~AtLeast(x, {w \in fresh("vote") : InHand("vote", w.zid)})
    <3>1. fresh("vote") \subseteq Vote
      BY FreshIs DEF Types, PollerTypeOK, Reads
    <3>2. CASE t = "vote"
      BY <1>6, <3>1, <3>2 DEF AtLeast, Vote
    <3>3. CASE t # "vote"
      <4>1. win'["vote"] = win["vote"] /\ rows'["vote"] = rows["vote"] /\ thr'["vote"] = thr["vote"]
        BY <1>5, <3>3 DEF Polls
      <4>2. fresh("vote")' = fresh("vote") /\ \A z : InHand("vote", z)' <=> InHand("vote", z)
        BY <4>1 DEF fresh, split, split_votes, superseded, InHand
      <4>3. AtLeast(x, {w \in fresh("vote") : InHand("vote", w.zid)})
              => AtLeast(x, {w \in fresh("vote") : InHand("vote", w.zid)})'
        BY <4>2 DEF AtLeast
      <4> QED
        BY <1>9, <4>3 DEF Due
    <3> QED
      BY <3>2, <3>3
  <2> QED
    BY <1>9, <2>1, <2>2, <2>3 DEF Due
<1>10. CASE x.by # "vote"
  <2>1. ~InHand("mod", x.zid)
    BY <1>6, <1>7, <1>10, NewsTyped DEF Due, Polls
  <2>2. \A c \in comments : c.zid = x.zid => Seen("mod", c)
    <3>1. \A c \in comments : c.stamp \in Nat
      BY PollerAssumption DEF Types, PollerTypeOK, Comment
    <3> QED
      BY <1>5, <1>8, <1>10, <3>1 DEF Due, Table, Polls
  <2>3. poll_moderation(x.zid)' = poll_moderation(x.zid)
    BY <1>5 DEF poll_moderation
  <2> QED
    BY <1>10, <2>1, <2>2, <2>3 DEF Due
<1> QED
  BY <1>9, <1>10

\* A new row is unread or missed.
LEMMA DueCommitVote ==
  ASSUME PollerInv, InWindow, NEW v \in Vote, CommitVote(v), NEW x \in News, Due(x)'
  PROVE  Due(x)
<1> USE DEF PollerInv
<1>1. /\ v \notin votes /\ votes' = votes \cup {v}
      /\ missed' = missed \cup below("vote", v)
      /\ UNCHANGED <<comments, win, rows, thr>>
  BY DEF CommitVote
<1>2. ASSUME NEW t, NEW r, Seen(t, r)' PROVE Seen(t, r)
  BY <1>1, <1>2 DEF Seen
<1>3. fresh("vote")' = fresh("vote") /\ \A t, z : InHand(t, z)' <=> InHand(t, z)
  BY <1>1 DEF fresh, split, split_votes, superseded, InHand
<1>4. CASE x.by = "vote"
  <2>1. VoteOf(x) # v
    <3>1. v \notin win["vote"].handled \cup rows["vote"]
      BY <1>1 DEF InWindow, Types, Reads
    <3>2. ~Seen("vote", v)'
      BY <1>1, <3>1 DEF Seen, below
    <3> QED
      BY <1>4, <3>2 DEF Due, Seen
  <2>2. VoteOf(x) \in votes /\ Seen("vote", VoteOf(x))
    BY <1>1, <1>2, <1>4, <2>1 DEF Due
  <2>3. AtLeast(x, {w \in fresh("vote") : InHand("vote", w.zid)})
          => AtLeast(x, {w \in fresh("vote") : InHand("vote", w.zid)})'
    BY <1>3 DEF AtLeast
  <2> QED
    BY <1>4, <2>2, <2>3 DEF Due
<1>5. CASE x.by # "vote"
  <2>1. poll_moderation(x.zid)' = poll_moderation(x.zid)
    BY <1>1 DEF poll_moderation
  <2> QED
    BY <1>1, <1>2, <1>3, <1>5, <2>1 DEF Due
<1> QED
  BY <1>4, <1>5

\* So is the changed version of a statement.
LEMMA DueModerate ==
  ASSUME PollerInv, Dated, NEW c \in comments, NEW s \in Stamps, Moderate(c, s),
         NEW x \in News, Due(x)'
  PROVE  Due(x)
<1> USE DEF PollerInv
<1> DEFINE changed == [c EXCEPT !.stamp = s, !.out = ~c.out]
<1>1. /\ changed \in Comment /\ changed.zid = c.zid /\ changed.item = c.item
      /\ changed.stamp = s /\ s # 0
  <2>1. c \in [zid : Zids, item : Tids, stamp : 0..MaxStamp, out : BOOLEAN]
    BY DEF Types, PollerTypeOK, Comment
  <2>2. s \in 0..MaxStamp /\ (~c.out) \in BOOLEAN /\ s # 0
    BY PollerAssumption DEF Stamps
  <2> HIDE DEF PollerInv
  <2> QED
    BY <2>1, <2>2 DEF Comment
<1>2. /\ [zid |-> c.zid, item |-> c.item, stamp |-> s] \notin changes
      /\ comments' = (comments \ {c}) \cup {changed}
      /\ missed' = (missed \ {changed}) \cup below("mod", changed)
      /\ UNCHANGED <<votes, win, rows, thr>>
  BY DEF Moderate
<1> HIDE DEF changed
<1>3. ASSUME NEW t, NEW r, r # changed, Seen(t, r)' PROVE Seen(t, r)
  BY <1>2, <1>3 DEF Seen, below
<1>4. fresh("vote")' = fresh("vote") /\ \A t, z : InHand(t, z)' <=> InHand(t, z)
  BY <1>2 DEF fresh, split, split_votes, superseded, InHand
<1>5. CASE x.by = "vote"
  <2>1. VoteOf(x) # changed
    BY <1>1, <1>5, NewsOfVotes, Apart
  <2>2. VoteOf(x) \in votes /\ Seen("vote", VoteOf(x))
    BY <1>2, <1>3, <1>5, <2>1 DEF Due
  <2>3. AtLeast(x, {w \in fresh("vote") : InHand("vote", w.zid)})
          => AtLeast(x, {w \in fresh("vote") : InHand("vote", w.zid)})'
    BY <1>4 DEF AtLeast
  <2> QED
    BY <1>5, <2>2, <2>3 DEF Due
<1>6. CASE x.by # "vote" /\ x.zid = c.zid
  <2>1. Seen("mod", changed)'
    BY <1>1, <1>2, <1>6 DEF Due
  <2>2. changed \notin rows["mod"] \cup win["mod"].handled
    BY <1>1, <1>2 DEF Dated
  <2>3. changed.stamp <= win["mod"].lower /\ changed \notin below("mod", changed)
    BY <1>2, <2>1, <2>2 DEF Seen
  <2> QED
    BY <2>3 DEF below
<1>7. CASE x.by # "vote" /\ x.zid # c.zid
  <2>1. poll_moderation(x.zid)' = poll_moderation(x.zid)
    BY <1>1, <1>2, <1>7 DEF poll_moderation
  <2>2. \A d \in comments : d.zid = x.zid => d \in comments' /\ d # changed
    BY <1>1, <1>2, <1>7
  <2>3. \A d \in comments : d.zid = x.zid => Seen("mod", d)
    BY <1>3, <1>7, <2>2 DEF Due
  <2> QED
    BY <1>4, <1>7, <2>1, <2>3 DEF Due
<1> QED
  BY <1>5, <1>6, <1>7

\* After a restart everything is unread.
LEMMA DueRestart ==
  ASSUME PollerInv, Dated, Restart, NEW x \in News, Due(x)'
  PROVE  FALSE
<1> USE DEF PollerInv
<1>1. /\ UNCHANGED <<votes, comments>>
      /\ \A t \in Polls : /\ win'[t].lower = 0 /\ win'[t].handled = {} /\ rows'[t] = {}
  BY DEF Restart, start, tables
<1>2. \A t \in Polls : \A r : r.stamp \in Nat \ {0} => ~Seen(t, r)'
  BY <1>1 DEF Seen
<1>3. CASE x.by = "vote"
  <2>1. VoteOf(x).stamp \in Nat \ {0}
    BY <1>3, NewsOfVotes DEF VoteOf
  <2> QED
    BY <1>2, <1>3, <2>1 DEF Due, Polls
<1>4. CASE x.by # "vote"
  <2>1. PICK c \in comments : c.zid = x.zid /\ c.out
    BY <1>1, <1>4 DEF Due, poll_moderation
  <2>2. c.stamp \in Nat \ {0}
    BY <2>1, PollerAssumption DEF Dated, Types, PollerTypeOK, Comment
  <2> QED
    BY <1>1, <1>2, <1>4, <2>1, <2>2 DEF Due, Polls
<1> QED
  BY <1>3, <1>4

-----------------------------------------------------------------------------
(* The worker.                                                             *)

\* The news of other conversations, and those of this one.
LEMMA ElsewhereKept ==
  ASSUME NEW z, UNCHANGED thr,
         \A y \in Zids : y # z => Untouched(y),
         NEW x \in News, Kept(x), x.zid # z
  PROVE  Kept(x)'
BY SameKeeps, NewsTyped DEF SamePlaces

LEMMA StandsStill ==
  ASSUME NEW z, UNCHANGED thr
  PROVE  /\ \A t \in Threads : \A S : Places(t, z, S)' <=> Places(t, z, S)
         /\ \A t \in Polls : \A S : Places(t, z, S)' <=> Places(t, z, S)
         /\ Healing("reconcile", z)' <=> Healing("reconcile", z)
         /\ queue'[z] = queue[z] => (Announced(z)' <=> Announced(z))
BY PlacesKept, PollsAreThreads DEF SamePlaces

LEMMA RestKeeps ==
  ASSUME PollerInv, WorkersRest, NEW z \in Zids, Rest(z), NEW x \in News, Kept(x)
  PROVE  Kept(x)'
<1>1. /\ worker[z].at = "loop" /\ worker'[z] = Resting
      /\ queue[z] = NoWork /\ queue'[z] = NoWork
      /\ UNCHANGED <<math, cache, parked, thr>>
      /\ \A y \in Zids : y # z => Untouched(y)
  BY DEF Rest, PollerInv, Types, PollerTypeOK, WorkersRest, Untouched, tables, polls, memory
<1>2. CASE x.zid # z
  BY <1>1, <1>2, ElsewhereKept
<1>3. CASE x.zid = z
  <2>1. /\ ~Active(z) /\ ~Active(z)' /\ worker[z].batch = NoWork /\ worker'[z].batch = NoWork
        /\ Shown(x)' <=> Shown(x)
        /\ Firm(x)' <=> Firm(x)
    BY <1>1, <1>3 DEF Active, WorkersRest, Resting, Shown, Firm
  <2>2. Covered(x)'
    BY <1>1, <1>3, <2>1, StandsStill DEF Kept, Covered
  <2>3. Ordered(x)'
    BY <1>1, <1>3, <2>1 DEF Kept, Ordered
  <2>4. Guarded(x)'
    BY <1>1, <1>3, <2>1, StandsStill DEF Kept, Guarded
  <2> QED
    BY <2>2, <2>3, <2>4 DEF Kept
<1> QED
  BY <1>2, <1>3

\* The worker takes what is queued: it brings x, or is computed from what is
\* cached, which is empty or shows x.
LEMMA DrainKeeps ==
  ASSUME PollerInv, WorkersRest, HealsUndisturbed,
         NEW z \in Zids, Drain(z), NEW x \in News, Kept(x)
  PROVE  Kept(x)'
<1>1. /\ worker[z].at = "loop" /\ queue[z] # NoWork /\ z \notin parked
      /\ worker'[z] = [at |-> "load", batch |-> queue[z], next |-> None,
                       conv |-> IF queue[z].rebuild THEN None ELSE cache[z]]
      /\ queue'[z] = NoWork
      /\ UNCHANGED <<math, cache, parked, thr>>
      /\ \A y \in Zids : y # z => Untouched(y)
  BY DEF Drain, PollerInv, Types, PollerTypeOK, Untouched, tables, polls, memory
<1>2. CASE x.zid # z
  BY <1>1, <1>2, ElsewhereKept
<1>3. CASE x.zid = z
  <2>1. /\ ~Active(z) /\ Active(z)'
        /\ Shown(x)' <=> Shown(x)
        /\ Firm(x)' <=> Firm(x)
    BY <1>1, <1>3 DEF Active, Shown, Firm
  <2>2. /\ Computes(x)' <=> \/ worker'[z].conv = None \/ Brings(queue[z], x)
                            \/ Has(worker'[z].conv, x) /\ Suits(queue[z], x) /\ Shown(x)
        /\ Retries(x)' <=> Brings(queue[z], x) \/ queue[z].rebuild \/ Firm(x)
    BY <1>1, <1>3, <2>1 DEF Computes, Retries
  <2>3. Covered(x)'
    <3>1. CASE Healing("reconcile", z)
      BY <1>1, <1>3, <3>1, StandsStill DEF Covered
    <3>2. CASE Brings(queue[z], x) \/ queue[z].rebuild
      <4>1. Computes(x)' /\ Retries(x)'
        BY <1>1, <2>2, <3>2
      <4> QED
        BY <1>3, <2>1, <4>1 DEF Covered
    <3>3. CASE cache[z] = None
      <4>1. Computes(x)' /\ Retries(x)'
        BY <1>1, <1>3, <2>2, <3>3 DEF Firm
      <4> QED
        BY <1>3, <2>1, <4>1 DEF Covered
    <3>4. CASE Firm(x) /\ Shown(x) /\ cache[z] # None /\ ~queue[z].rebuild
      <4>1. Has(cache[z], x) /\ Suits(queue[z], x)
        BY <1>3, <3>4 DEF Firm, Kept, Ordered
      <4>2. Computes(x)' /\ Retries(x)'
        BY <1>1, <1>3, <2>2, <3>4, <4>1
      <4> QED
        BY <1>3, <2>1, <4>2 DEF Covered
    <3> QED
      BY <1>1, <1>3, <2>1, <3>1, <3>2, <3>3, <3>4 DEF Kept, Covered
  <2>4. Ordered(x)'
    BY <1>1, <1>3, NoWorkBringsNothing DEF Kept, Ordered
  <2>5. Guarded(x)'
    <3>1. ASSUME NEW t \in Polls, Places(t, z, {"invalidate", "unpark"}) PROVE Computes(x)'
      <4>1. OnlyRebuilds(z)
        BY <1>1, <3>1 DEF HealsUndisturbed
      <4>2. queue[z].rebuild
        <5>1. queue[z] \in Batch
          BY DEF PollerInv, Types, PollerTypeOK
        <5> QED
          BY <1>1, <4>1, <5>1 DEF OnlyRebuilds, Batch, NoWork
      <4> QED
        BY <1>1, <2>2, <4>2
    <3> QED
      BY <1>1, <1>3, <2>1, <3>1, StandsStill DEF Kept, Guarded
  <2> QED
    BY <2>3, <2>4, <2>5 DEF Kept
<1> QED
  BY <1>2, <1>3

\* What it computes shows x.
LEMMA ComputeKeeps ==
  ASSUME PollerInv, NEW z \in Zids, Compute(z), NEW x \in News, Due(x), Kept(x)
  PROVE  Kept(x)'
<1> DEFINE w == worker[z]
<1>1. w \in Worker
  BY DEF PollerInv, Types, PollerTypeOK
<1>2. PICK c \in IF w.conv = None THEN load_or_init(z) ELSE recomputed(z, w.conv, w.batch) :
        worker' = [worker EXCEPT ![z] = [@ EXCEPT !.at = "write", !.next = c]]
  BY DEF Compute
<1>3. /\ w.at = "load"
      /\ worker'[z].at = "write" /\ worker'[z].batch = w.batch /\ worker'[z].next = c
      /\ UNCHANGED <<math, cache, queue, parked, thr>>
      /\ \A y \in Zids : y # z => Untouched(y)
  BY <1>1, <1>2 DEF Compute, Worker, PollerInv, Types, PollerTypeOK, Untouched, tables, polls, memory
<1>4. CASE x.zid # z
  BY <1>3, <1>4, ElsewhereKept
<1>5. CASE x.zid = z
  <2>1. /\ Active(z) /\ Active(z)'
        /\ Shown(x)' <=> Shown(x)
        /\ Firm(x)' <=> Firm(x)
        /\ Retries(x)' <=> Retries(x)
    BY <1>3, <1>5 DEF Active, Shown, Firm, Retries
  <2>2. Computes(x) => Computes(x)'
    <3>1. SUFFICES ASSUME Computes(x) PROVE Has(c, x)
      BY <1>3, <1>5 DEF Computes
    <3>2. CASE w.conv = None
      BY <1>2, <1>5, <3>2, LoadHas DEF PollerInv
    <3>3. CASE w.conv # None
      <4>1. Brings(w.batch, x) \/ (Has(w.conv, x) /\ Suits(w.batch, x))
        BY <1>3, <1>5, <3>1, <3>3 DEF Computes
      <4>2. w.conv \in Conv /\ w.batch \in Batch /\ w.batch.votes \subseteq Own(votes, z)
        BY <1>1, <3>3 DEF Worker, PollerInv, Genuine
      <4>3. c \in recomputed(z, w.conv, w.batch)
        BY <1>2, <3>3
      <4> HIDE DEF w
      <4> QED
        BY <1>5, <4>1, <4>2, <4>3, RecomputedHas DEF PollerInv
    <3> QED
      BY <3>2, <3>3
  <2>3. Covered(x)'
    BY <1>3, <1>5, <2>1, <2>2, StandsStill DEF Kept, Covered
  <2>4. Ordered(x)'
    BY <1>3, <1>5 DEF Kept, Ordered
  <2>5. Guarded(x)'
    BY <1>5, <2>1, <2>2, <1>3, StandsStill DEF Kept, Guarded
  <2> QED
    BY <2>3, <2>4, <2>5 DEF Kept
<1> QED
  BY <1>4, <1>5

\* What is published has what was computed.
LEMMA PublishedHas ==
  ASSUME PollerInv, NEW z \in Zids, worker[z].at = "write", NEW x
  PROVE  Has(published(z)[z], x) <=> Has(worker[z].next, x)
<1>1. worker[z].next # None /\ worker[z].next \in Conv
  BY DEF PollerInv, Types, Reads, PollerTypeOK, Worker
<1>2. /\ published(z)[z] = [cells |-> worker[z].next.cells, out |-> worker[z].next.out, whole |-> TRUE]
      /\ published(z)[z] \in Published
  BY <1>1 DEF published, Published, Conv, PollerInv, Types, PollerTypeOK
<1>3. published(z)[z] # None
  BY <1>2, PollerAssumption
<1> QED
  BY <1>1, <1>2, <1>3 DEF Has

LEMMA WriteKeeps ==
  ASSUME PollerInv, NEW z \in Zids, Write(z), NEW x \in News, Kept(x)
  PROVE  Kept(x)'
<1> DEFINE w == worker[z]
<1>1. w \in Worker
  BY DEF PollerInv, Types, PollerTypeOK
<1>2. /\ w.at = "write" /\ math'[z] = published(z)[z]
      /\ worker'[z].at = "keep" /\ worker'[z].batch = w.batch /\ worker'[z].next = w.next
      /\ UNCHANGED <<cache, queue, parked, thr>>
      /\ \A y \in Zids : y # z => Untouched(y)
  BY <1>1 DEF Write, Worker, published, PollerInv, Types, PollerTypeOK, Untouched, polls, memory
<1>3. CASE x.zid # z
  BY <1>2, <1>3, ElsewhereKept
<1>4. CASE x.zid = z
  <2>1. Shown(x)' <=> Has(w.next, x)
    BY <1>2, <1>4, PublishedHas DEF Shown
  <2>2. /\ Active(z) /\ Active(z)'
        /\ Computes(x) => Has(w.next, x)
        /\ Computes(x) => Computes(x)'
        /\ Computes(x) /\ Firm(x) => Firm(x)'
    BY <1>2, <1>4, <2>1 DEF Active, Computes, Firm
  <2>3. Computes(x) /\ Retries(x) => Retries(x)'
    BY <1>2, <1>4, <2>2 DEF Retries
  <2>4. Covered(x)'
    BY <1>2, <1>4, <2>2, <2>3, StandsStill DEF Kept, Covered
  <2>5. Ordered(x)'
    BY <1>2, <1>4 DEF Kept, Ordered
  <2>6. Guarded(x)'
    <3>1. \A t \in Polls : Places(t, z, {"unpark"}) => Places(t, z, {"invalidate", "unpark"})
      BY DEF Places
    <3> QED
      BY <1>2, <1>4, <2>2, <3>1, StandsStill DEF Kept, Guarded
  <2> QED
    BY <2>4, <2>5, <2>6 DEF Kept
<1> QED
  BY <1>3, <1>4

\* It caches what it has published.
LEMMA KeepKeeps ==
  ASSUME PollerInv, NEW z \in Zids, Keep(z), NEW x \in News, Kept(x)
  PROVE  Kept(x)'
<1> DEFINE w == worker[z]
<1>1. /\ w.at = "keep" /\ cache'[z] = w.next
      /\ worker'[z].at = "loop" /\ worker'[z].batch = NoWork
      /\ UNCHANGED <<math, queue, parked, thr>>
      /\ \A y \in Zids : y # z => Untouched(y)
  BY DEF Keep, Resting, PollerInv, Types, PollerTypeOK, Untouched, tables, polls
<1>2. CASE x.zid # z
  BY <1>1, <1>2, ElsewhereKept
<1>3. CASE x.zid = z
  <2>1. /\ Active(z) /\ ~Active(z)'
        /\ Computes(x) => Shown(x)' /\ Firm(x)'
    BY <1>1, <1>3 DEF Active, Computes, Shown, Firm
  <2>2. Covered(x)'
    BY <1>1, <1>3, <2>1, StandsStill DEF Kept, Covered
  <2>3. Ordered(x)'
    BY <1>1, <1>3, NoWorkBringsNothing DEF Kept, Ordered
  <2>4. Guarded(x)'
    <3>1. \A t \in Polls : Places(t, z, {"unpark"}) => Places(t, z, {"invalidate", "unpark"})
      BY DEF Places
    <3> QED
      BY <1>1, <1>3, <2>1, <3>1, StandsStill DEF Kept, Guarded
  <2> QED
    BY <2>2, <2>3, <2>4 DEF Kept
<1> QED
  BY <1>2, <1>3

\* A failed worker puts back what it carried or parks the conversation; a write
\* that fails may have been committed.
LEMMA FailKeeps ==
  ASSUME PollerInv, WorkersRest, NEW z \in Zids, Fail(z), NEW x \in News, Kept(x)
  PROVE  Kept(x)'
<1> DEFINE w == worker[z]
<1>1. /\ w.at \in {"load", "write"}
      /\ math'[z] = math[z] \/ (w.at = "write" /\ math'[z] = published(z)[z])
      /\ worker'[z].at = "loop" /\ worker'[z].batch = NoWork
      /\ UNCHANGED <<cache, thr>>
      /\ \A y \in Zids : y # z => Untouched(y)
      /\ \/ queue'[z] = merged(queue[z], w.batch) /\ UNCHANGED parked
         \/ queue'[z] = NoWork /\ z \in parked'
  <2>1. /\ w.at \in {"load", "write"} /\ UNCHANGED <<cache, thr>>
        /\ math' = math \/ (w.at = "write" /\ math' = published(z))
        /\ worker' = [worker EXCEPT ![z] = [Resting EXCEPT !.at = "loop"]]
        /\ \/ queue' = [queue EXCEPT ![z] = merged(queue[z], w.batch)] /\ UNCHANGED parked
           \/ queue' = [queue EXCEPT ![z] = NoWork] /\ parked' = parked \cup {z}
    BY DEF Fail, on_engine_error, requeue
  <2>2. /\ \A y \in Zids : y # z => math'[y] = math[y]
        /\ math'[z] = math[z] \/ (w.at = "write" /\ math'[z] = published(z)[z])
    BY <2>1 DEF published, PollerInv, Types, PollerTypeOK
  <2>3. /\ \A y \in Zids : y # z => worker'[y] = worker[y]
        /\ worker'[z].at = "loop" /\ worker'[z].batch = NoWork
    BY <2>1 DEF Resting, PollerInv, Types, PollerTypeOK
  <2>4. /\ \A y \in Zids : y # z => queue'[y] = queue[y] /\ (y \in parked' <=> y \in parked)
        /\ \/ queue'[z] = merged(queue[z], w.batch) /\ UNCHANGED parked
           \/ queue'[z] = NoWork /\ z \in parked'
    BY <2>1 DEF PollerInv, Types, PollerTypeOK
  <2> QED
    BY <2>1, <2>2, <2>3, <2>4 DEF Untouched
<1>2. CASE x.zid # z
  BY <1>1, <1>2, ElsewhereKept
<1>3. CASE x.zid = z
  <2>1. Active(z) /\ ~Active(z)' /\ z \notin parked
    BY <1>1 DEF Active, WorkersRest
  <2>2. Computes(x) /\ Firm(x) => Firm(x)'
    BY <1>1, <1>3, PublishedHas DEF Computes, Shown, Firm
  <2>3. queue[z] \in Batch /\ w.batch \in Batch
    BY DEF PollerInv, Types, PollerTypeOK, Worker
  <2>4. w.batch # NoWork
    BY <1>1 DEF PollerInv, CarriedWork
  <2> HIDE DEF w
  <2>5. ASSUME queue'[z] = merged(queue[z], w.batch) PROVE Covered(x)' /\ Ordered(x)'
    <3>1. queue'[z] # NoWork
      BY <2>3, <2>4, <2>5, MergedBrings
    <3>2. /\ Brings(queue[z], x) \/ Brings(w.batch, x) => Brings(queue'[z], x)
          /\ queue[z].rebuild \/ w.batch.rebuild => queue'[z].rebuild
      BY <2>3, <2>5, MergedBrings
    <3>3. Computes(x) /\ Firm(x) => \/ cache'[z] = None
                                    \/ Firm(x)' /\ Shown(x)'
      BY <1>3, <2>2 DEF Firm
    <3>4. Retries(x) => Brings(w.batch, x) \/ w.batch.rebuild \/ Firm(x)
      BY <1>3 DEF Retries, w
    <3>5. Announced(z)'
      BY <3>1 DEF Announced
    <3>6. Healing("reconcile", z)' <=> Healing("reconcile", z)
      BY <1>1, StandsStill
    <3>7. Covered(x)'
      BY <1>3, <2>1, <3>2, <3>3, <3>4, <3>5, <3>6 DEF Kept, Covered
    <3>8. Suits(queue'[z], x)
      BY <1>3, <2>3, <2>5, <3>2, MergedBrings DEF Kept, Ordered, Suits, w
    <3>9. Ordered(x)'
      BY <1>1, <1>3, <3>8, NoWorkBringsNothing DEF Ordered
    <3> QED
      BY <3>7, <3>9
  <2>6. ASSUME queue'[z] = NoWork, z \in parked' PROVE Covered(x)' /\ Ordered(x)'
    BY <1>1, <1>3, <2>6, NoWorkBringsNothing DEF Covered, Ordered
  <2>7. Guarded(x)'
    <3>1. \A t \in Polls : Places(t, z, {"unpark"}) => Places(t, z, {"invalidate", "unpark"})
      BY DEF Places
    <3> QED
      BY <1>1, <1>3, <2>1, <2>2, <3>1, StandsStill DEF Kept, Guarded
  <2> QED
    BY <1>1, <2>5, <2>6, <2>7 DEF Kept, w
<1> QED
  BY <1>2, <1>3

LEMMA EvictKeeps ==
  ASSUME PollerInv, NEW z \in Zids, Evict(z), NEW x \in News, Kept(x)
  PROVE  Kept(x)'
<1>1. /\ cache'[z] = None /\ UNCHANGED <<math, queue, worker, parked, thr>>
      /\ \A y \in Zids : y # z => Untouched(y)
  BY DEF Evict, PollerInv, Types, PollerTypeOK, Untouched, tables, polls, pool
<1>2. CASE x.zid # z
  BY <1>1, <1>2, ElsewhereKept
<1>3. CASE x.zid = z
  <2>1. /\ Active(z)' <=> Active(z)
        /\ Shown(x)' <=> Shown(x)
        /\ Computes(x)' <=> Computes(x)
        /\ Firm(x)' /\ Retries(x)'
    BY <1>1, <1>3 DEF Active, Shown, Computes, Firm, Retries
  <2>2. Covered(x)'
    BY <1>1, <1>3, <2>1, StandsStill DEF Kept, Covered
  <2>3. Ordered(x)' /\ Guarded(x)'
    BY <1>1, <1>3, <2>1, StandsStill DEF Kept, Ordered, Guarded
  <2> QED
    BY <2>2, <2>3 DEF Kept
<1> QED
  BY <1>2, <1>3

-----------------------------------------------------------------------------
(* The threads.                                                            *)

\* A thread moves at one conversation.
LEMMA AsideKept ==
  ASSUME NEW t \in Threads, NEW z, \A u \in Threads : u # t => thr'[u] = thr[u],
         NEW x \in News, Kept(x), Untouched(x.zid),
         thr[t].zid # x.zid, thr'[t].zid # x.zid
  PROVE  Kept(x)'
BY SameKeeps DEF SamePlaces

\* What is parked is not run, so nothing has to be computed for the poll that
\* is going to heal it.
LEMMA CheckKeeps ==
  ASSUME PollerInv, WorkersRest, ThreadsWait, NEW t \in Threads, NEW z \in Zids, Check(t, z),
         NEW x \in News, Kept(x)
  PROVE  Kept(x)'
<1>1. /\ thr[t].zid = None /\ thr[t].at = "check"
      /\ thr'[t].zid = z
      /\ thr'[t].at = IF z \in parked THEN "invalidate" ELSE "submit"
      /\ \A u \in Threads : u # t => thr'[u] = thr[u]
      /\ UNCHANGED <<math, cache, queue, worker, parked>>
  BY DEF Check, PollerInv, Types, PollerTypeOK, ThreadsWait, tables, pool, memory
<1>2. CASE x.zid # z
  BY <1>1, <1>2, AsideKept, NewsTyped, PollerAssumption DEF Untouched
<1>3. CASE x.zid = z
  <2>1. /\ Active(z)' <=> Active(z)
        /\ Shown(x)' <=> Shown(x)
        /\ Firm(x)' <=> Firm(x)
        /\ Computes(x)' <=> Computes(x)
        /\ Retries(x)' <=> Retries(x)
    BY <1>1, <1>3 DEF Active, Shown, Firm, Computes, Retries
  <2>2. /\ \A u \in Threads : \A S : Places(u, z, S) => Places(u, z, S)'
        /\ Healing("reconcile", z) => Healing("reconcile", z)'
    BY <1>1, PollerAssumption, PollsAreThreads DEF Places, Healing
  <2>3. Announced(z) => Announced(z)'
    BY <1>1, <2>2, PollsAreThreads DEF Announced
  <2>4. Covered(x)'
    BY <1>1, <1>3, <2>1, <2>2, <2>3 DEF Kept, Covered
  <2>5. Ordered(x)'
    BY <1>1, <1>3 DEF Kept, Ordered
  <2>6. Guarded(x)'
    <3>1. SUFFICES ASSUME NEW u \in Polls
                   PROVE  /\ Places(u, z, {"invalidate", "unpark"})' /\ Active(z)' => Computes(x)'
                          /\ Places(u, z, {"unpark"})' => Firm(x)'
      BY <1>3 DEF Guarded
    <3>2. CASE u # t
      <4>1. \A S : Places(u, z, S)' <=> Places(u, z, S)
        BY <1>1, <3>2, PollsAreThreads DEF Places
      <4> QED
        BY <1>3, <2>1, <4>1 DEF Kept, Guarded
    <3>3. CASE u = t
      <4>1. Places(u, z, {"invalidate", "unpark"})' => ~Active(z)'
        BY <1>1, <2>1, <3>3 DEF Places, WorkersRest
      <4>2. ~Places(u, z, {"unpark"})'
        BY <1>1, <3>3 DEF Places
      <4> QED
        BY <4>1, <4>2
    <3> QED
      BY <3>2, <3>3
  <2> QED
    BY <2>4, <2>5, <2>6 DEF Kept
<1> QED
  BY <1>2, <1>3

LEMMA InvalidateKeeps ==
  ASSUME PollerInv, NEW t \in Threads, Invalidate(t), NEW z \in Zids, thr[t].zid = z,
         NEW x \in News, Kept(x)
  PROVE  Kept(x)'
<1>1. /\ thr[t].zid = z /\ thr[t].at = "invalidate"
      /\ thr'[t].zid = z /\ thr'[t].at = "unpark"
      /\ \A u \in Threads : u # t => thr'[u] = thr[u]
      /\ cache'[z] = None /\ \A y \in Zids : y # z => cache'[y] = cache[y]
      /\ UNCHANGED <<math, queue, worker, parked>>
  BY DEF Invalidate, Busy, PollerInv, Types, Reads, PollerTypeOK, tables, pool
<1>2. CASE x.zid # z
  BY <1>1, <1>2, AsideKept, NewsTyped DEF Untouched
<1>3. CASE x.zid = z
  <2>1. /\ Active(z)' <=> Active(z)
        /\ Shown(x)' <=> Shown(x)
        /\ Computes(x)' <=> Computes(x)
        /\ Firm(x)' /\ Retries(x)'
    BY <1>1, <1>3 DEF Active, Shown, Computes, Firm, Retries
  <2>2. /\ \A u \in Threads : Places(u, z, {"submit"}) => Places(u, z, {"submit"})'
        /\ \A u \in Threads : Places(u, z, {"invalidate", "unpark"})'
                                <=> Places(u, z, {"invalidate", "unpark"})
        /\ Healing("reconcile", z) => Healing("reconcile", z)'
    BY <1>1, PollsAreThreads DEF Places, Healing
  <2>3. Announced(z) => Announced(z)'
    BY <1>1, <2>2, PollsAreThreads DEF Announced
  <2>4. Covered(x)'
    BY <1>1, <1>3, <2>1, <2>2, <2>3 DEF Kept, Covered
  <2>5. Ordered(x)' /\ Guarded(x)'
    BY <1>1, <1>3, <2>1, <2>2, PollsAreThreads DEF Kept, Ordered, Guarded
  <2> QED
    BY <2>4, <2>5 DEF Kept
<1> QED
  BY <1>2, <1>3

\* A conversation that a poll un-parks is not cached, or what is cached shows x;
\* and so does what is computed for it.
LEMMA UnparkKeeps ==
  ASSUME PollerInv, NEW t \in Threads, Unpark(t), NEW z \in Zids, thr[t].zid = z,
         NEW x \in News, Kept(x)
  PROVE  Kept(x)'
<1>1. /\ thr[t].zid = z /\ thr[t].at = "unpark"
      /\ thr'[t].zid = z /\ thr'[t].at = "submit"
      /\ \A u \in Threads : u # t => thr'[u] = thr[u]
      /\ parked' = parked \ {z}
      /\ UNCHANGED <<math, cache, queue, worker>>
  BY DEF Unpark, Busy, PollerInv, Types, Reads, PollerTypeOK, tables, pool, memory
<1>2. CASE x.zid # z
  BY <1>1, <1>2, AsideKept, NewsTyped DEF Untouched
<1>3. CASE x.zid = z
  <2>1. /\ Active(z)' <=> Active(z)
        /\ Shown(x)' <=> Shown(x)
        /\ Firm(x)' <=> Firm(x)
        /\ Computes(x)' <=> Computes(x)
        /\ Retries(x)' <=> Retries(x)
    BY <1>1, <1>3 DEF Active, Shown, Firm, Computes, Retries
  <2>2. /\ \A u \in Threads : Places(u, z, {"submit"}) => Places(u, z, {"submit"})'
        /\ \A u \in Threads : Places(u, z, {"invalidate", "unpark"})'
                                => Places(u, z, {"invalidate", "unpark"})
        /\ \A u \in Threads : Places(u, z, {"unpark"})' => Places(u, z, {"unpark"})
        /\ Healing("reconcile", z) => Healing("reconcile", z)'
    BY <1>1, PollsAreThreads DEF Places, Healing
  <2>3. Announced(z) => Announced(z)'
    BY <1>1, <2>2, PollsAreThreads DEF Announced
  <2>4. Covered(x)'
    <3>1. CASE t \in Polls
      <4>1. Firm(x) /\ (Active(z) => Computes(x))
        BY <1>1, <1>3, <3>1 DEF Kept, Guarded, Places
      <4>2. Announced(z)'
        BY <1>1, <3>1 DEF Announced, Places
      <4>3. CASE Active(z)
        BY <1>3, <2>1, <4>1, <4>3 DEF Covered, Retries
      <4>4. CASE ~Active(z)
        BY <1>1, <1>3, <2>1, <4>1, <4>2, <4>4 DEF Covered, Firm
      <4> QED
        BY <4>3, <4>4
    <3>2. CASE t \notin Polls
      <4>1. t = "reconcile"
        BY <3>2 DEF Threads
      <4>2. Healing("reconcile", z)'
        BY <1>1, <4>1 DEF Healing
      <4> QED
        BY <1>3, <4>2 DEF Covered
    <3> QED
      BY <3>1, <3>2
  <2>5. Ordered(x)' /\ Guarded(x)'
    BY <1>1, <1>3, <2>1, <2>2, PollsAreThreads DEF Kept, Ordered, Guarded
  <2> QED
    BY <2>4, <2>5 DEF Kept
<1> QED
  BY <1>2, <1>3

-----------------------------------------------------------------------------
(* What is submitted.                                                      *)

\* What submitting leaves of one conversation.
Submitted(z, batch) ==
  /\ queue'[z] = IF batch # NoWork /\ z \notin parked THEN merged(queue[z], batch)
                                                      ELSE queue[z]
  /\ worker'[z].batch = worker[z].batch
  /\ worker'[z].conv = worker[z].conv /\ worker'[z].next = worker[z].next
  /\ Active(z) \/ Active(z)' => worker'[z].at = worker[z].at
  /\ math'[z] = math[z] /\ cache'[z] = cache[z]
  /\ z \in parked' <=> z \in parked

LEMMA SubmitLeaves ==
  ASSUME Types, NEW work, submit_all(work), UNCHANGED <<math, cache, parked>>, NEW z \in Zids
  PROVE  Submitted(z, work[z])
<1>1. worker[z] \in Worker
  BY DEF Types, PollerTypeOK
<1>2. /\ queue'[z] = IF work[z] # NoWork /\ z \notin parked THEN merged(queue[z], work[z])
                                                            ELSE queue[z]
      /\ worker'[z] = IF work[z] # NoWork /\ z \notin parked /\ worker[z].at = "idle"
                        THEN [worker[z] EXCEPT !.at = "loop"] ELSE worker[z]
  BY DEF submit_all
<1>3. \/ worker'[z] = worker[z]
      \/ /\ worker[z].at = "idle" /\ worker'[z].at = "loop"
         /\ worker'[z].batch = worker[z].batch
         /\ worker'[z].conv = worker[z].conv /\ worker'[z].next = worker[z].next
  BY <1>1, <1>2 DEF Worker
<1> QED
  BY <1>2, <1>3 DEF Submitted, Active

\* The news are kept when the work suits them and makes up for the thread that
\* has brought it.
LEMMA SubmittedKeeps ==
  ASSUME PollerInv, NEW x \in News, NEW z \in Zids, z = x.zid, NEW batch \in Batch,
         Submitted(z, batch), Suits(batch, x),
         \A t \in Polls : \A S : "submit" \notin S => (Places(t, z, S)' => Places(t, z, S)),
         \A t \in Polls : Places(t, z, {"submit"}) =>
                            Places(t, z, {"submit"})' \/ batch # NoWork,
         Healing("reconcile", z) => Healing("reconcile", z)' \/ batch.rebuild,
         Kept(x)
  PROVE  Kept(x)'
<1>1. queue[z] \in Batch /\ worker[z].batch \in Batch
  BY DEF PollerInv, Types, PollerTypeOK, Worker
<1>2. /\ Active(z)' <=> Active(z)
      /\ Shown(x)' <=> Shown(x)
      /\ Firm(x)' <=> Firm(x)
  BY DEF Submitted, Active, Shown, Firm
<1>3. Active(z) => (Computes(x)' <=> Computes(x))
  BY <1>2 DEF Submitted, Computes, Active
<1>4. Retries(x)' <=> Retries(x)
  BY <1>2 DEF Submitted, Retries
<1>5. /\ Brings(queue[z], x) => Brings(queue'[z], x)
      /\ queue[z].rebuild => queue'[z].rebuild
      /\ queue[z] # NoWork => queue'[z] # NoWork
      /\ Suits(queue[z], x) => Suits(queue'[z], x)
      /\ batch.rebuild => z \in parked \/ queue'[z].rebuild
      /\ batch # NoWork => z \in parked \/ queue'[z] # NoWork
  BY <1>1, MergedBrings, NoWorkBringsNothing DEF Submitted
<1>6. Announced(z) => Announced(z)' \/ z \in parked
  BY <1>5 DEF Announced
<1>7. Covered(x)'
  BY <1>2, <1>3, <1>4, <1>5, <1>6 DEF Submitted, Kept, Covered
<1>8. Ordered(x)'
  BY <1>5 DEF Submitted, Kept, Ordered
<1>9. Guarded(x)'
  BY <1>2, <1>3 DEF Kept, Guarded
<1> QED
  BY <1>7, <1>8, <1>9 DEF Kept

\* What a poll has in hand it brings.
LEMMA HandedBrings ==
  ASSUME PollerInv, NEW t \in Threads, Submit(t), NEW z \in Zids, thr[t].zid = z,
         NEW x \in News, Due(x)', ~Due(x)
  PROVE  t \in Polls /\ x.zid = z /\ Brings(work_of(t, z), x)
<1>1. /\ thr[t].at = "submit" /\ thr'[t].todo = thr[t].todo
      /\ \A u \in Threads : u # t => thr'[u] = thr[u]
      /\ UNCHANGED <<votes, comments, missed, win, rows>>
  BY DEF Submit, PollerInv, Types, PollerTypeOK, Thread, tables, polls
<1>2. \A u \in Polls : \A y : InHand(u, y) /\ ~InHand(u, y)' => u = t /\ y = z
  BY <1>1, PollsAreThreads DEF InHand
<1>3. /\ fresh("vote")' = fresh("vote")
      /\ \A u, r : Seen(u, r)' <=> Seen(u, r)
      /\ poll_moderation(x.zid)' = poll_moderation(x.zid)
  BY <1>1 DEF fresh, split, split_votes, superseded, Seen, poll_moderation
<1>4. CASE x.by = "vote"
  <2>1. AtLeast(x, {w \in fresh("vote") : InHand("vote", w.zid)})
    BY <1>1, <1>3, <1>4 DEF Due
  <2>2. PICK r \in fresh("vote") : /\ InHand("vote", r.zid) /\ r.zid = x.zid
                                   /\ r.item = x.item /\ r.stamp >= x.stamp
    BY <2>1 DEF AtLeast
  <2>3. ~InHand("vote", r.zid)'
    <3>1. SUFFICES ASSUME InHand("vote", r.zid)' PROVE FALSE
      OBVIOUS
    <3>2. AtLeast(x, {w \in fresh("vote")' : InHand("vote", w.zid)'})
      BY <1>3, <2>2, <3>1 DEF AtLeast
    <3>3. AtLeast(x, {w \in fresh("vote") : InHand("vote", w.zid)})'
      BY <3>2 DEF AtLeast
    <3> QED
      BY <1>4, <3>3 DEF Due
  <2>4. t = "vote" /\ x.zid = z
    BY <1>2, <2>2, <2>3 DEF Polls
  <2>5. r \in work_of(t, z).votes
    BY <2>2, <2>4 DEF work_of
  <2> QED
    BY <1>4, <2>2, <2>4, <2>5 DEF Brings, AtLeast, Polls
<1>5. CASE x.by # "vote"
  <2>1. InHand("mod", x.zid) /\ ~InHand("mod", x.zid)'
    BY <1>1, <1>3, <1>5 DEF Due
  <2>2. t = "mod" /\ x.zid = z
    BY <1>2, <2>1 DEF Polls
  <2> QED
    BY <1>5, <2>2 DEF Brings, work_of, Polls
<1> QED
  BY <1>4, <1>5

\* Nobody else heals the conversation then, or nothing runs and nothing is
\* cached.
LEMMA BroughtKept ==
  ASSUME PollerInv, WorkersRest, Twice, HealsUndisturbed,
         NEW t \in Polls, thr[t].at = "submit", NEW x \in News, NEW z \in Zids, z = x.zid,
         thr[t].zid = z, thr'[t].at = "check", \A u \in Threads : u # t => thr'[u] = thr[u],
         NEW batch \in Batch, Submitted(z, batch), Brings(batch, x)
  PROVE  Kept(x)'
<1>1. queue[z] \in Batch /\ batch # NoWork
  BY NoWorkBringsNothing DEF PollerInv, Types, PollerTypeOK
<1>2. z \in parked \/ Brings(queue'[z], x)
  BY <1>1, MergedBrings DEF Submitted
<1>3. z \in parked => ~Active(z) /\ queue'[z] = NoWork /\ worker'[z].batch = NoWork
  BY DEF Submitted, WorkersRest
<1>4. Covered(x)'
  BY <1>2 DEF Submitted, Covered
<1>5. Ordered(x)'
  BY <1>2, <1>3, NoWorkBringsNothing DEF Ordered, Suits
<1>6. ASSUME NEW u \in Polls, Places(u, z, {"invalidate", "unpark"})'
      PROVE  ~Active(z)' /\ (Places(u, z, {"unpark"})' => Firm(x)')
  <2>1. u # t /\ thr'[u] = thr[u]
    BY <1>6, PollsAreThreads DEF Places
  <2>2. Places(u, z, {"invalidate", "unpark"})
    BY <1>6, <2>1 DEF Places
  <2>3. z \in parked
    BY <2>1, <2>2 DEF HealsUndisturbed
  <2>4. ~Active(z)'
    BY <1>3, <2>3 DEF Submitted, Active
  <2>5. Places(u, z, {"unpark"})' => cache[z] = None
    BY <2>1 DEF Twice, Places
  <2> QED
    BY <2>4, <2>5 DEF Submitted, Firm
<1>7. Guarded(x)'
  <2>1. \A u \in Polls : Places(u, z, {"unpark"})' => Places(u, z, {"invalidate", "unpark"})'
    BY DEF Places
  <2> QED
    BY <1>6, <2>1 DEF Guarded
<1> QED
  BY <1>4, <1>5, <1>7 DEF Kept

LEMMA SubmitKeeps ==
  ASSUME PollerInv, WorkersRest, ThreadsWait, InWindow, Twice, HealsUndisturbed,
         NEW t \in Threads, Submit(t), NEW z \in Zids, thr[t].zid = z,
         NEW x \in News, Due(x)', Due(x) => Kept(x)
  PROVE  Kept(x)'
<1> DEFINE batch == work_of(t, z)
<1>1. /\ thr[t].at = "submit" /\ thr'[t].at = "check" /\ thr'[t].zid = None
      /\ \A u \in Threads : u # t => thr'[u] = thr[u]
      /\ submit(z, batch)
      /\ UNCHANGED <<math, cache, parked>>
  BY DEF Submit, PollerInv, Types, PollerTypeOK, Thread, tables, memory
<1>2. batch \in Batch
  BY WorkTyped DEF PollerInv
<1>3. batch # NoWork
  <2>1. CASE t = "vote"
    <3>1. Awaits(z)
      BY <1>1, <2>1 DEF PollerInv, CarriedVotes, Busy
    <3>2. batch.votes # {}
      BY <2>1, <3>1 DEF work_of, Awaits
    <3> QED
      BY <3>2 DEF NoWork
  <2>2. CASE t # "vote"
    <3>1. batch.mod \/ batch.rebuild
      BY <2>2 DEF work_of, Threads, Polls
    <3> QED
      BY <3>1 DEF NoWork
  <2> QED
    BY <2>1, <2>2
<1>4. \A y \in Zids : Submitted(y, IF y = z THEN batch ELSE NoWork)
  <2> DEFINE work == [y \in Zids |-> IF y = z THEN batch ELSE NoWork]
  <2>1. submit_all(work)
    BY <1>1 DEF submit
  <2>2. \A y \in Zids : work[y] = IF y = z THEN batch ELSE NoWork
    OBVIOUS
  <2> HIDE DEF work
  <2>3. ASSUME NEW y \in Zids PROVE Submitted(y, work[y])
    BY <1>1, <2>1, SubmitLeaves DEF PollerInv
  <2> QED
    BY <2>2, <2>3
<1> HIDE DEF batch
<1>5. CASE Due(x)
  <2>1. /\ \A y \in Zids : \A u \in Polls : \A S : Places(u, y, S)' => Places(u, y, S)
        /\ \A y \in Zids : \A u \in Threads : Places(u, y, {"submit"}) =>
             Places(u, y, {"submit"})' \/ (u = t /\ y = z)
        /\ \A y \in Zids : Healing("reconcile", y) =>
             Healing("reconcile", y)' \/ (t = "reconcile" /\ y = z)
    BY <1>1, PollsAreThreads, PollerAssumption DEF Places, Healing
  <2>2. CASE x.zid = z
    <3>1. Suits(batch, x)
      BY <1>5, <2>2, WorkSuits DEF PollerInv, batch
    <3>2. Submitted(z, batch)
      BY <1>4
    <3>3. t = "reconcile" => batch.rebuild
      BY DEF batch, work_of
    <3>4. \A u \in Polls : Places(u, z, {"submit"}) => Places(u, z, {"submit"})' \/ batch # NoWork
      BY <1>3
    <3>5. Healing("reconcile", z) => Healing("reconcile", z)' \/ batch.rebuild
      BY <2>1, <3>3
    <3> QED
      BY <1>2, <1>5, <2>1, <2>2, <3>1, <3>2, <3>4, <3>5, SubmittedKeeps
  <2>3. CASE x.zid # z
    <3>1. Submitted(x.zid, NoWork) /\ x.zid \in Zids
      BY <1>4, <2>3, NewsTyped
    <3>2. \A u \in Polls : Places(u, x.zid, {"submit"}) => Places(u, x.zid, {"submit"})'
      BY <2>1, <2>3, <3>1, PollsAreThreads
    <3>3. Healing("reconcile", x.zid) => Healing("reconcile", x.zid)'
      BY <2>1, <2>3, <3>1
    <3> QED
      BY <1>5, <2>1, <3>1, <3>2, <3>3, NoWorkBringsNothing, SubmittedKeeps
  <2> QED
    BY <2>2, <2>3
<1>6. CASE ~Due(x)
  <2>1. t \in Polls /\ x.zid = z /\ Brings(batch, x)
    BY <1>6, HandedBrings DEF batch
  <2>2. Submitted(z, batch)
    BY <1>4
  <2> QED
    BY <1>1, <1>2, <2>1, <2>2, BroughtKept
<1> QED
  BY <1>5, <1>6

LEMMA RepairKeeps ==
  ASSUME PollerInv, Repair, NEW x \in News, Kept(x)
  PROVE  Kept(x)'
<1> DEFINE work == [z \in Zids |-> IF math[z] # None /\ ~math[z].whole
                                     THEN [NoWork EXCEPT !.rebuild = TRUE] ELSE NoWork]
<1>1. submit_all(work) /\ UNCHANGED <<math, cache, parked, thr>>
  BY DEF Repair, tables
<1>2. /\ x.zid \in Zids /\ work[x.zid] \in Batch /\ work[x.zid].votes = {}
  BY NewsTyped DEF NoWork, Batch
<1> HIDE DEF work
<1>3. Submitted(x.zid, work[x.zid])
  BY <1>1, <1>2, SubmitLeaves DEF PollerInv
<1>4. Suits(work[x.zid], x)
  BY <1>2 DEF Suits, Meets
<1> QED
  BY <1>1, <1>2, <1>3, <1>4, SubmittedKeeps, StandsStill

\* The reconciler comes and goes; a poll begins and ends with nothing in hand.
LEMMA BetweenKeeps ==
  ASSUME ThreadsWait, UNCHANGED <<math, cache, queue, worker, parked>>,
         \A t \in Threads : \/ thr'[t] = thr[t]
                            \/ thr[t].at \in {"idle", "check"} /\ thr'[t].zid = None,
         NEW x \in News
  PROVE  Kept(x) <=> Kept(x)'
<1>1. x.zid # None
  BY NewsTyped, PollerAssumption
<1>2. SamePlaces(x.zid)
  BY <1>1 DEF SamePlaces, ThreadsWait
<1> QED
  BY <1>2, SameKeeps DEF Untouched

-----------------------------------------------------------------------------
(* Nothing is forgotten.                                                   *)

\* Whatever is due after a step is kept by it.
LEMMA KeptStep ==
  ASSUME PollerInv, HealInv, HealsUndisturbed, [PollerNext]_pvars,
         NEW x \in News, Due(x)'
  PROVE  Kept(x)'
<1> USE DEF HealInv, tables, polls, pool, memory, bounds, pvars
<1>1. ASSUME NEW v \in Vote, CommitVote(v) PROVE Kept(x)'
  <2>1. Kept(x)
    BY <1>1, DueCommitVote
  <2>2. UNCHANGED <<math, cache, queue, worker, parked, thr>>
    BY <1>1 DEF CommitVote
  <2> QED
    BY <2>1, <2>2, BetweenKeeps
<1>2. ASSUME NEW c \in comments, NEW s \in Stamps, Moderate(c, s) PROVE Kept(x)'
  <2>1. Kept(x)
    BY <1>2, DueModerate
  <2>2. UNCHANGED <<math, cache, queue, worker, parked, thr>>
    BY <1>2 DEF Moderate
  <2> QED
    BY <2>1, <2>2, BetweenKeeps
<1>3. ASSUME NEW t \in Polls, Poll(t) PROVE Kept(x)'
  <2>1. \/ Kept(x)
        \/ /\ x \in VoteNews
           /\ \E y \in VoteNews : /\ y.zid = x.zid /\ y.item = x.item /\ y.stamp >= x.stamp
                                  /\ Kept(y)
    BY <1>3, DuePoll DEF News
  <2>2. Kept(x)
    BY <2>1, NewerKept DEF PollerInv
  <2>3. /\ UNCHANGED <<math, cache, queue, worker, parked>>
        /\ \A u \in Threads : \/ thr'[u] = thr[u]
                              \/ thr[u].at \in {"idle", "check"} /\ thr'[u].zid = None
    BY <1>3 DEF Poll, PollerInv, Types, PollerTypeOK
  <2> QED
    BY <2>2, <2>3, BetweenKeeps
<1>4. ASSUME NEW t \in Polls, Advance(t) PROVE Kept(x)'
  <2>1. Kept(x)
    BY <1>4, DueAdvance
  <2>2. /\ UNCHANGED <<math, cache, queue, worker, parked>>
        /\ \A u \in Threads : \/ thr'[u] = thr[u]
                              \/ thr[u].at \in {"idle", "check"} /\ thr'[u].zid = None
    BY <1>4 DEF Advance, Waiting, PollerInv, Types, PollerTypeOK
  <2> QED
    BY <2>1, <2>2, BetweenKeeps
<1>5. CASE Reconcile \/ Reconciled
  <2>1. /\ UNCHANGED <<votes, comments, missed, win, rows, math, cache, queue, worker, parked>>
        /\ \A u \in Polls : thr'[u] = thr[u]
        /\ \A u \in Threads : \/ thr'[u] = thr[u]
                              \/ thr[u].at \in {"idle", "check"} /\ thr'[u].zid = None
    BY <1>5, PollsAreThreads DEF Reconcile, Reconciled, Waiting, PollerInv, Types, PollerTypeOK
  <2>2. Due(x)
    BY <2>1, SameDue DEF InHand
  <2> QED
    BY <2>1, <2>2, BetweenKeeps
<1>6. ASSUME NEW t \in Threads, NEW z \in Zids, Check(t, z) PROVE Kept(x)'
  <2>1. /\ UNCHANGED <<votes, comments, missed, win, rows>>
        /\ thr[t].zid = None /\ thr'[t].zid = z /\ thr'[t].todo = thr[t].todo \ {z}
        /\ \A u \in Threads : u # t => thr'[u] = thr[u]
    BY <1>6 DEF Check, ThreadsWait, PollerInv, Types, PollerTypeOK
  <2>2. \A u \in Polls : InHand(u, x.zid) => InHand(u, x.zid)'
    BY <2>1, NewsTyped, PollsAreThreads, PollerAssumption DEF InHand
  <2>3. Due(x)
    BY <2>1, <2>2, SameDue
  <2> QED
    BY <1>6, <2>3, CheckKeeps
<1>7. ASSUME NEW t \in Threads, Invalidate(t) \/ Unpark(t) PROVE Kept(x)'
  <2>1. PICK z \in Zids : thr[t].zid = z
    BY <1>7 DEF Invalidate, Unpark, Busy, PollerInv, Types, Reads
  <2>2. /\ UNCHANGED <<votes, comments, missed, win, rows>>
        /\ \A u \in Threads : thr'[u].zid = thr[u].zid /\ thr'[u].todo = thr[u].todo
    BY <1>7 DEF Invalidate, Unpark, PollerInv, Types, PollerTypeOK, Thread
  <2>3. Due(x)
    BY <2>2, SameDue, PollsAreThreads DEF InHand
  <2> QED
    BY <1>7, <2>1, <2>3, InvalidateKeeps, UnparkKeeps
<1>8. ASSUME NEW t \in Threads, Submit(t) PROVE Kept(x)'
  <2>1. PICK z \in Zids : thr[t].zid = z
    BY <1>8 DEF Submit, Busy, PollerInv, Types, Reads
  <2> QED
    BY <1>8, <2>1, SubmitKeeps
<1>9. CASE \/ Repair
           \/ \E z \in Zids : WorkerStep(z) \/ Fail(z) \/ Evict(z)
  <2>1. UNCHANGED <<votes, comments, missed, win, rows, thr>>
    BY <1>9 DEF Repair, WorkerStep, Rest, Drain, Compute, Write, Keep, Fail, Evict,
                on_engine_error
  <2>2. Due(x)
    BY <2>1, SameDue DEF InHand
  <2>3. Kept(x)
    BY <2>2
  <2> QED
    BY <1>9, <2>2, <2>3, RepairKeeps, RestKeeps, DrainKeeps, ComputeKeeps, WriteKeeps, KeepKeeps,
       FailKeeps, EvictKeeps DEF WorkerStep
<1>10. CASE Restart
  BY <1>10, DueRestart
<1>11. CASE UNCHANGED pvars
  <2>1. Due(x)
    BY <1>11, SameDue DEF InHand
  <2> QED
    BY <1>11, <2>1, BetweenKeeps
<1>12. \A t \in running : t \in Threads
  BY PollerAssumption DEF PollerInv, Types, PollerTypeOK
<1> QED
  BY <1>1, <1>2, <1>3, <1>4, <1>5, <1>6, <1>7, <1>8, <1>9, <1>10, <1>11, <1>12
     DEF PollerNext, ThreadStep

LEMMA HealStep ==
  ASSUME PollerInv, HealInv, HealsUndisturbed, HealsUndisturbed', [PollerNext]_pvars
  PROVE  HealInv'
<1>1. \A x \in News : Due(x)' => Kept(x)'
  BY KeptStep
<1> QED
  BY <1>1, WorkersRestStep, ThreadsWaitStep, InWindowStep, DatedStep, TwiceStep DEF HealInv

LEMMA HealInit == PollerInit => HealInv
<1> SUFFICES ASSUME PollerInit PROVE HealInv
  OBVIOUS
<1> USE DEF PollerInit
<1>1. WorkersRest /\ ThreadsWait
  BY DEF WorkersRest, ThreadsWait, Active, Resting, Waiting
<1>2. InWindow
  BY DEF InWindow, start, Polls
<1>3. Dated
  BY DEF Dated, start, Polls
<1>4. Twice
  BY DEF Twice
<1>5. ASSUME NEW x \in News PROVE ~Due(x)
  BY DEF Due, poll_moderation
<1> QED
  BY <1>1, <1>2, <1>3, <1>4, <1>5 DEF HealInv

\* What is due is shown or on its way.
LEMMA HealInvForgetsNothing ==
  ASSUME PollerInv, HealInv
  PROVE  NothingForgotten
<1>1. SUFFICES ASSUME NEW v \in votes \ missed, ~Unread(v)
               PROVE  OnItsWay(v) \/ Holds(math[v.zid], v)
  BY DEF NothingForgotten
<1>2. v \in Vote
  BY DEF PollerInv, Types, PollerTypeOK
<1>3. PICK x \in VoteNews : VoteOf(x) = v /\ x.zid = v.zid /\ x.item = v.item /\ x.stamp = v.stamp
  BY <1>2, NewsOf
<1>4. x \in News /\ x.by = "vote" /\ v.zid \in Zids
  BY <1>2, <1>3 DEF News, VoteNews, Vote
<1>5. Seen("vote", v)
  <2>1. v.stamp \in Int /\ win["vote"].lower \in Int
    BY <1>2, PollerAssumption DEF Vote, Stamps, PollerInv, Types, PollerTypeOK, Window, Polls
  <2> QED
    BY <1>1, <2>1 DEF Unread, Seen
<1>6. \A batch : Brings(batch, x) <=> AtLeast(v, batch.votes)
  BY <1>3, <1>4 DEF Brings, AtLeast
<1>7. \A conv : Has(conv, x) <=> Holds(conv, v)
  BY <1>3, <1>4 DEF Has, Holds
<1>8. CASE ~Due(x)
  <2>1. AtLeast(x, {w \in fresh("vote") : InHand("vote", w.zid)})
    BY <1>1, <1>3, <1>4, <1>5, <1>8 DEF Due
  <2> QED
    BY <1>3, <2>1 DEF OnItsWay, AtLeast, InHand
<1>9. CASE Due(x)
  <2>1. Covered(x)
    BY <1>4, <1>9 DEF HealInv, Kept
  <2>2. Announced(v.zid) => queue[v.zid] # NoWork \/ Rebuilding(v.zid)
    BY PollsAreThreads DEF Announced, Places, Rebuilding, Healing
  <2>3. Computes(x) /\ Active(v.zid) => OnItsWay(v) \/ Holds(math[v.zid], v)
    <3>1. SUFFICES ASSUME Computes(x), Active(v.zid), ~Holds(math[v.zid], v) PROVE OnItsWay(v)
      OBVIOUS
    <3>2. CASE worker[v.zid].at = "load"
      <4>1. worker[v.zid].conv = None \/ AtLeast(v, worker[v.zid].batch.votes)
        BY <1>3, <1>6, <1>7, <3>1, <3>2 DEF Computes, Shown
      <4> QED
        BY <3>2, <4>1 DEF OnItsWay, Loading, AtLeast
    <3>3. CASE worker[v.zid].at \in {"write", "keep"}
      BY <1>3, <1>7, <3>1, <3>3 DEF Computes, OnItsWay
    <3> QED
      BY <3>1, <3>2, <3>3 DEF Active
  <2>4. CASE Brings(queue[v.zid], x)
    BY <1>6, <2>4 DEF OnItsWay, AtLeast
  <2>5. CASE queue[v.zid].rebuild \/ v.zid \in parked \/ Healing("reconcile", v.zid)
    BY <2>5, PollsAreThreads DEF OnItsWay, Rebuilding
  <2>6. CASE cache[v.zid] = None /\ Announced(v.zid)
    BY <2>2, <2>6 DEF OnItsWay, Loading
  <2>7. CASE Shown(x)
    BY <1>3, <1>7, <2>7 DEF Shown
  <2> QED
    BY <1>3, <2>1, <2>3, <2>4, <2>5, <2>6, <2>7 DEF Covered
<1> QED
  BY <1>8, <1>9

LEMMA HealInvSettles ==
  ASSUME PollerInv, HealInv
  PROVE  ModerationSettles
<1>1. SUFFICES ASSUME NEW z \in Zids, ~ModerationPending(z), poll_moderation(z) # {}
               PROVE  math[z].out = poll_moderation(z)
  BY DEF ModerationSettles
<1> DEFINE x == [by |-> "mod", zid |-> z, out |-> poll_moderation(z)]
<1>2. x \in News
  BY DEF News, ModNews, poll_moderation, PollerInv, Types, PollerTypeOK, Comment
<1>3. /\ worker[z].at = "idle" /\ z \notin parked /\ ~queue[z].rebuild
      /\ \A t \in Threads : ~Healing(t, z)
      /\ z \notin thr["mod"].todo
      /\ \A c \in comments : c.zid = z =>
           c \notin missed /\ ~(c.stamp > win["mod"].lower
                                /\ c \notin win["mod"].handled \cup rows["mod"])
  BY <1>1 DEF ModerationPending, Rebuilding
<1>4. ~InHand("mod", z)
  <2>1. thr["mod"] \in Thread /\ "mod" \in Threads
    BY DEF PollerInv, Types, PollerTypeOK, Threads, Polls
  <2>2. thr["mod"].zid # z
    BY <1>3, <2>1, PollerAssumption DEF Thread, ThreadsWait, HealInv, Healing
  <2> QED
    BY <1>3, <2>2 DEF InHand
<1>5. \A c \in comments : c.zid = z => Seen("mod", c)
  <2>1. \A c \in comments : c.stamp \in Int
    BY PollerAssumption DEF PollerInv, Types, PollerTypeOK, Comment
  <2>2. win["mod"].lower \in Int
    BY DEF PollerInv, Types, PollerTypeOK, Window, Polls
  <2> QED
    BY <1>3, <2>1, <2>2 DEF Seen
<1>6. Due(x)
  BY <1>1, <1>4, <1>5 DEF Due
<1>7. Covered(x)
  BY <1>2, <1>6 DEF HealInv, Kept
<1>8. queue[z] = NoWork /\ ~Active(z) /\ ~Announced(z)
  BY <1>3, PollsAreThreads DEF HealInv, WorkersRest, Active, Announced, Places, Healing
<1>9. Shown(x)
  BY <1>3, <1>7, <1>8, NoWorkBringsNothing, PollsAreThreads DEF Covered
<1> QED
  BY <1>9 DEF Shown, Has

\* _unpark takes its three steps without the pool's lock over them.  Where no
\* other thread un-parks the conversation between them, or only rebuilds follow,
\* no vote is forgotten and no change of moderation is lost, whatever threads
\* run and whatever fails.
THEOREM ForgetsOnlyWhenDisturbed ==
  PollerSpec /\ []HealsUndisturbed => []NothingForgotten /\ []ModerationSettles
<1>1. PollerInv /\ HealInv => NothingForgotten /\ ModerationSettles
  BY HealInvForgetsNothing, HealInvSettles
<1> QED
  BY <1>1, PollerInvariant, HealInit, HealStep, PTL DEF PollerSpec

-----------------------------------------------------------------------------
(* A poll on its own.                                                      *)

\* A poll that does not run does nothing; for the one that heals, everything is
\* parked or only rebuilt.
OnlyHealer ==
  \A t \in Polls : /\ t \notin running => thr[t] = Waiting
                   /\ \A z \in Zids : Places(t, z, {"invalidate", "unpark"})
                                        => z \in parked \/ OnlyRebuilds(z)

Alone == WorkersRest /\ ThreadsWait /\ OnlyHealer

\* What a submission that only rebuilds leaves.
LEMMA RebuildsOnly ==
  ASSUME Types, NEW work, submit_all(work), UNCHANGED <<math, cache, parked>>,
         NEW z \in Zids, work[z] \in Batch, work[z].votes = {}, ~work[z].mod, OnlyRebuilds(z)
  PROVE  OnlyRebuilds(z)'
<1>1. Submitted(z, work[z]) /\ queue[z] \in Batch
  BY SubmitLeaves DEF Types, PollerTypeOK
<1>2. queue'[z].votes = {} /\ ~queue'[z].mod
  BY <1>1, MergedBrings DEF Submitted, OnlyRebuilds
<1> QED
  BY <1>1, <1>2 DEF Submitted, OnlyRebuilds

LEMMA OnlyHealerStep ==
  ASSUME PollerInv, Alone, ~(Polls \subseteq running), [PollerNext]_pvars
  PROVE  OnlyHealer'
<1> USE PollerAssumption DEF Alone, tables, polls, pool, memory, bounds, pvars
<1>1. running \subseteq Threads /\ thr \in [Threads -> Thread] /\ worker \in [Zids -> Worker]
      /\ queue \in [Zids -> Batch]
  BY DEF PollerInv, Types, PollerTypeOK
<1>2. \A z \in Zids : z \in parked => OnlyRebuilds(z)
  BY DEF WorkersRest, OnlyRebuilds, NoWork
<1>3. \A t, u \in Polls : t \in running /\ u \in running => t = u
  BY DEF Polls
<1>4. UNCHANGED running
  BY DEF PollerNext, ThreadStep, WorkerStep, CommitVote, Moderate, Poll, Advance, Check, Invalidate,
         Unpark, Submit, Reconcile, Reconciled, Rest, Drain, Compute, Write, Keep, Fail,
         on_engine_error, Evict, Repair, Restart
<1>5. CASE UNCHANGED <<thr, queue, worker, parked>>
  BY <1>4, <1>5 DEF OnlyHealer, Places, OnlyRebuilds
<1>6. ASSUME NEW t \in running \cap Polls, Poll(t) \/ Advance(t) PROVE OnlyHealer'
  <2>1. /\ UNCHANGED <<queue, worker, parked>>
        /\ \A u \in Threads : u # t => thr'[u] = thr[u]
        /\ thr'[t].at \in {"idle", "check"}
    BY <1>1, <1>6 DEF Poll, Advance, Waiting
  <2> QED
    BY <1>4, <2>1, PollsAreThreads DEF OnlyHealer, Places, OnlyRebuilds
<1>7. ASSUME NEW t \in running, NEW z \in Zids, Check(t, z) PROVE OnlyHealer'
  <2>1. /\ UNCHANGED <<queue, worker, parked>>
        /\ \A u \in Threads : u # t => thr'[u] = thr[u]
        /\ thr'[t].zid = z /\ thr'[t].at = "invalidate" => z \in parked
        /\ thr'[t].zid = z /\ thr'[t].at # "unpark"
    BY <1>1, <1>7 DEF Check
  <2> QED
    BY <1>4, <2>1, PollsAreThreads DEF OnlyHealer, Places, OnlyRebuilds
<1>8. ASSUME NEW t \in running, Invalidate(t) PROVE OnlyHealer'
  <2>1. /\ UNCHANGED <<queue, worker, parked>> /\ thr[t].at = "invalidate"
        /\ \A u \in Threads : u # t => thr'[u] = thr[u]
        /\ thr'[t].zid = thr[t].zid
    BY <1>1, <1>8 DEF Invalidate, Thread
  <2> QED
    BY <1>4, <2>1, PollsAreThreads DEF OnlyHealer, Places, OnlyRebuilds
<1>9. ASSUME NEW t \in running, Unpark(t) PROVE OnlyHealer'
  <2>1. /\ UNCHANGED <<queue, worker>> /\ parked' \subseteq parked
        /\ \A y \in parked : y # thr[t].zid => y \in parked'
        /\ \A u \in Threads : u # t => thr'[u] = thr[u]
        /\ thr'[t].at = "submit"
    BY <1>1, <1>9 DEF Unpark, Thread
  <2> QED
    BY <1>2, <1>4, <2>1, PollsAreThreads DEF OnlyHealer, Places, OnlyRebuilds
<1>10. ASSUME NEW t \in running, Submit(t) PROVE OnlyHealer'
  <2>1. /\ submit(thr[t].zid, work_of(t, thr[t].zid)) /\ UNCHANGED <<math, cache, parked>>
        /\ \A u \in Threads : u # t => thr'[u] = thr[u]
        /\ thr[t].at = "submit" /\ thr'[t].at = "check"
    BY <1>1, <1>10 DEF Submit, Thread
  <2>2. ASSUME NEW u \in Polls, NEW z \in Zids, Places(u, z, {"invalidate", "unpark"})'
        PROVE z \in parked' \/ OnlyRebuilds(z)'
    <3>1. u # t /\ thr'[u] = thr[u] /\ Places(u, z, {"invalidate", "unpark"})
      BY <2>1, <2>2, PollsAreThreads DEF Places
    <3>2. u \in running
      BY <3>1 DEF OnlyHealer, Places, Waiting
    <3>3. t \notin Polls
      BY <1>3, <3>1, <3>2
    <3> DEFINE work == [y \in Zids |-> IF y = thr[t].zid THEN work_of(t, thr[t].zid) ELSE NoWork]
    <3>4. submit_all(work) /\ work[z].votes = {} /\ ~work[z].mod /\ work[z] \in Batch
      <4>1. work[z] = IF z = thr[t].zid THEN work_of(t, z) ELSE NoWork
        OBVIOUS
      <4>2. /\ work_of(t, z).votes = {} /\ ~work_of(t, z).mod /\ work_of(t, z) \in Batch
        BY <1>1, <3>3, WorkTyped DEF work_of, Polls, PollerInv
      <4> QED
        BY <2>1, <4>1, <4>2, NoWorkBringsNothing DEF submit, NoWork
    <3>5. z \in parked \/ OnlyRebuilds(z)
      BY <3>1 DEF OnlyHealer
    <3> HIDE DEF work
    <3> QED
      BY <2>1, <3>4, <3>5, RebuildsOnly DEF PollerInv
  <2>3. \A u \in Polls : u \notin running => thr'[u] = Waiting
    BY <2>1, PollsAreThreads DEF OnlyHealer
  <2> QED
    BY <1>4, <2>2, <2>3 DEF OnlyHealer
<1>11. CASE Reconcile \/ Reconciled
  <2>1. UNCHANGED <<queue, worker, parked>> /\ \A u \in Polls : thr'[u] = thr[u]
    BY <1>1, <1>11, PollsAreThreads DEF Reconcile, Reconciled
  <2> QED
    BY <1>4, <2>1 DEF OnlyHealer, Places, OnlyRebuilds
<1>12. CASE Repair
  <2> DEFINE work == [z \in Zids |-> IF math[z] # None /\ ~math[z].whole
                                       THEN [NoWork EXCEPT !.rebuild = TRUE] ELSE NoWork]
  <2>1. submit_all(work) /\ UNCHANGED <<math, cache, parked, thr>>
    BY <1>12 DEF Repair
  <2>2. \A z \in Zids : work[z].votes = {} /\ ~work[z].mod /\ work[z] \in Batch
    BY DEF NoWork, Batch
  <2> HIDE DEF work
  <2>3. \A z \in Zids : OnlyRebuilds(z) => OnlyRebuilds(z)'
    BY <2>1, <2>2, RebuildsOnly DEF PollerInv
  <2> QED
    BY <1>4, <2>1, <2>3 DEF OnlyHealer, Places
<1>13. ASSUME NEW z \in Zids, WorkerStep(z) \/ Fail(z) PROVE OnlyHealer'
  <2>1. UNCHANGED thr /\ parked \subseteq parked'
    BY <1>13 DEF WorkerStep, Rest, Drain, Compute, Write, Keep, Fail, on_engine_error
  <2>2. \A y \in Zids : y # z => queue'[y] = queue[y] /\ worker'[y] = worker[y]
    BY <1>1, <1>13 DEF WorkerStep, Rest, Drain, Compute, Write, Keep, Fail, on_engine_error
  <2>3. OnlyRebuilds(z) => OnlyRebuilds(z)'
    <3>1. CASE Rest(z) \/ Drain(z) \/ Keep(z)
      BY <1>1, <3>1 DEF Rest, Drain, Keep, Resting, NoWork, OnlyRebuilds
    <3>2. CASE Compute(z) \/ Write(z)
      <4>1. UNCHANGED queue /\ worker'[z].batch = worker[z].batch
        <5>1. UNCHANGED queue
          BY <3>2 DEF Compute, Write
        <5>2. CASE Compute(z)
          BY <1>1, <5>2 DEF Compute, Worker
        <5>3. CASE Write(z)
          BY <1>1, <5>3 DEF Write, Worker
        <5> QED
          BY <3>2, <5>1, <5>2, <5>3
      <4> QED
        BY <4>1 DEF OnlyRebuilds
    <3>3. CASE Fail(z)
      <4>1. /\ queue'[z] \in {NoWork, requeue(z)} /\ worker'[z].batch = NoWork
        BY <1>1, <3>3 DEF Fail, on_engine_error, Resting
      <4>2. queue[z] \in Batch /\ worker[z].batch \in Batch
        BY <1>1 DEF Worker
      <4> QED
        BY <4>1, <4>2, MergedBrings, NoWorkBringsNothing DEF OnlyRebuilds, requeue, NoWork
    <3> QED
      BY <1>13, <3>1, <3>2, <3>3 DEF WorkerStep
  <2>4. \A y \in Zids : OnlyRebuilds(y) => OnlyRebuilds(y)'
    BY <2>2, <2>3 DEF OnlyRebuilds
  <2> QED
    BY <1>4, <2>1, <2>4 DEF OnlyHealer, Places
<1>14. CASE Restart
  BY <1>14, PollsAreThreads DEF Restart, Waiting, OnlyHealer, Places
<1> QED
  BY <1>5, <1>6, <1>7, <1>8, <1>9, <1>10, <1>11, <1>12, <1>13, <1>14
     DEF PollerNext, ThreadStep, CommitVote, Moderate, Evict

\* With one poll running, nothing comes between the steps of _unpark but what
\* the reconciler and the workers do, and that disturbs nothing.
LEMMA OnePollUndisturbed ==
  ASSUME \A ts \in ThreadSets : ~(Polls \subseteq ts)
  PROVE  PollerSpec => []HealsUndisturbed
<1>0. PollerInv => ~(Polls \subseteq running)
  BY DEF PollerInv, Types, PollerTypeOK
<1>1. PollerInit => Alone
  BY HealInit DEF PollerInit, HealInv, Alone, OnlyHealer, Places, Waiting, Polls, Threads
<1>2. PollerInv /\ Alone /\ ~(Polls \subseteq running) /\ [PollerNext]_pvars => Alone'
  BY WorkersRestStep, ThreadsWaitStep, OnlyHealerStep DEF Alone
<1>3. Alone /\ ~(Polls \subseteq running) => HealsUndisturbed
  <2>1. SUFFICES ASSUME Alone, ~(Polls \subseteq running), NEW t \in Polls, NEW z \in Zids,
                        Places(t, z, {"invalidate", "unpark"}), z \notin parked
                 PROVE  OnlyRebuilds(z) /\ \A u \in Polls : thr[u].zid = z => u = t
    BY DEF HealsUndisturbed
  <2>2. OnlyRebuilds(z)
    BY <2>1 DEF Alone, OnlyHealer
  <2>3. t \in running
    BY <2>1 DEF Alone, OnlyHealer, Places, Waiting
  <2>4. \A u \in Polls : u # t => thr[u] = Waiting
    BY <2>1, <2>3 DEF Alone, OnlyHealer, Polls
  <2> QED
    BY <2>2, <2>4, PollerAssumption DEF Waiting
<1> QED
  BY <1>0, <1>1, <1>2, <1>3, PollerInvariant, PTL DEF PollerSpec

\* So no committed vote that the windows did not miss is forgotten, whatever
\* fails, is retried, parked, healed, evicted or delivered late.
THEOREM OnePollForgetsNothing ==
  ASSUME \A ts \in ThreadSets : ~(Polls \subseteq ts)
  PROVE  PollerSpec => []NothingForgotten
BY OnePollUndisturbed, ForgetsOnlyWhenDisturbed, PTL

\* And with every change of moderation delivered, the statements moderated out
\* are the published ones, when there are any.
THEOREM OnePollSettles ==
  ASSUME \A ts \in ThreadSets : ~(Polls \subseteq ts)
  PROVE  PollerSpec => []ModerationSettles
BY OnePollUndisturbed, ForgetsOnlyWhenDisturbed, PTL
=============================================================================
