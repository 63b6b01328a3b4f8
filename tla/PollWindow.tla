----------------------------- MODULE PollWindow -----------------------------
(***************************************************************************)
(* polismath.poller.service.PollWindow: what a watermark poll has already  *)
(* handled, so that it can read below its watermark without delivering a   *)
(* row twice.                                                              *)
(*                                                                         *)
(* A row is stamped when its transaction starts and is seen when it        *)
(* commits, so a row can appear below a watermark that was made from a     *)
(* later-stamped one.  Each poll therefore reads the rows stamped above    *)
(* "lower", which trails the watermark by the overlap, and the window      *)
(* takes away what earlier polls handled.                                  *)
(*                                                                         *)
(* A vote row is known by conversation, cell (participant and statement)   *)
(* and stamp; a moderation row is the current version of one statement.    *)
(* Identical rows are one row here: the engine cannot tell a vote from its *)
(* copy, so the count of copies in PollWindow.handled is not modelled.     *)
(*                                                                         *)
(* A definition whose comment starts with "Slip:" is wrong on purpose: it  *)
(* is put in the place of the one after it to see a property fail.         *)
(***************************************************************************)
EXTENDS Integers

CONSTANT Overlap   \* how far below the watermark a poll reads (…_OVERLAP_MS)

ASSUME OverlapAssumption == Overlap \in Nat

\* PollWindow.start: nothing handled, rows above the watermark are read.
start(watermark) ==
  [watermark |-> watermark, lower |-> watermark, handled |-> {}]

\* What the poll's query returns: the rows stamped above "lower".
poll_since(rows, window) == {r \in rows : r.stamp > window.lower}

\* A vote older than one handled for the same cell: the newer one stands.
superseded(window, r) ==
  \E h \in window.handled : h.zid = r.zid /\ h.item = r.item /\ h.stamp > r.stamp

\* Slip: a late vote is delivered over the newer one of its cell.
split_all(window, rows) == rows \ window.handled

\* VoteWindow.split: the rows this poll delivers.
split_votes(window, rows) ==
  {r \in rows \ window.handled : ~superseded(window, r)}

\* ModerationWindow.split: nothing is superseded.
split_moderation(window, rows) == rows \ window.handled

\* advance_watermark, as the set that holds its one result.
advance_watermark(current, rows) ==
  {m \in {current} \cup {r.stamp : r \in rows} :
     m >= current /\ \A r \in rows : r.stamp <= m}

\* Slip: the cursor is the watermark.
lower_at_watermark(window, watermark) == watermark

\* Slip: the bound follows the watermark even below where it started.
lower_falls(window, watermark) == watermark - Overlap

\* The lower bound after the watermark has moved; it never falls.
lower_after(window, watermark) ==
  IF watermark - Overlap > window.lower THEN watermark - Overlap
                                        ELSE window.lower

\* PollWindow.advanced: only rows above the next lower bound are kept.
advanced(window, rows, watermark) ==
  [watermark |-> watermark,
   lower     |-> lower_after(window, watermark),
   handled   |-> {r \in rows : r.stamp > lower_after(window, watermark)}]
=============================================================================
