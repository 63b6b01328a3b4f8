----------------------------- MODULE MathMirror -----------------------------
(***************************************************************************)
(* What the math poller promises the readers of math_main, with no polls,  *)
(* windows, queues, workers or failures in sight.                          *)
(*                                                                         *)
(* Votes arrive, stamped in any order.  What is shown of a conversation    *)
(* is, for every cell (participant and statement), some committed vote of  *)
(* that cell or none.  A vote that was stamped too long before it was      *)
(* committed may be missed; of the others the newest is shown in the end.  *)
(***************************************************************************)
EXTENDS Integers

CONSTANTS Zids, Cells, MaxStamp

VARIABLES
  votes,    \* committed votes
  missed,   \* those the mirror need not show
  shown     \* the stamp of the vote each cell shows, 0 for none

vars == <<votes, missed, shown>>

Vote == [zid : Zids, item : Cells, stamp : 1..MaxStamp]

Init ==
  /\ votes = {}
  /\ missed = {}
  /\ shown = [z \in Zids |-> [c \in Cells |-> 0]]

Commit(v) ==
  /\ v \notin votes
  /\ votes' = votes \cup {v}
  /\ missed' \in {missed, missed \cup {v}}
  /\ UNCHANGED shown

\* A poller that falls behind misses votes; one that starts again does not.
Miss ==
  /\ missed' \in SUBSET votes
  /\ UNCHANGED <<votes, shown>>

IsVote(z, c, s) == \E v \in votes : v.zid = z /\ v.item = c /\ v.stamp = s

Publish(z) ==
  /\ \E f \in [Cells -> 0..MaxStamp] :
       /\ \A c \in Cells : f[c] # 0 => IsVote(z, c, f[c])
       /\ shown' = [shown EXCEPT ![z] = f]
  /\ UNCHANGED <<votes, missed>>

Current(z) ==
  \A v \in votes \ missed : v.zid = z => shown[z][v.item] >= v.stamp

Next ==
  \/ \E v \in Vote : Commit(v)
  \/ Miss
  \/ \E z \in Zids : Publish(z)

\* What is shown was voted ...
Safety == Init /\ [][Next]_vars

\* ... and never stays behind for good.
Spec == Safety /\ \A z \in Zids : []<>Current(z)
=============================================================================
