----------------------------- MODULE ScopeLock ------------------------------
(***************************************************************************)
(* What a scope guard promises.  A scope has at most one holder, and the   *)
(* holder keeps it for as long as the job is busy: something of it is      *)
(* still to be done, may still be running, or is still unsettled at a      *)
(* provider.  A job that has gone quiet stays quiet.                       *)
(***************************************************************************)
CONSTANTS Jobs, Products, None

VARIABLES
  activity,  \* of each job: "absent", "busy" or "quiet"
  holder     \* of each scope: the job that holds it, or None

lockVars == <<activity, holder>>

Init ==
  /\ activity = [j \in Jobs |-> "absent"]
  /\ holder = [p \in Products |-> None]

\* A free scope admits a new job.
Admit(p, j) ==
  /\ holder[p] = None
  /\ activity[j] = "absent"
  /\ holder' = [holder EXCEPT ![p] = j]
  /\ activity' = [activity EXCEPT ![j] = "busy"]

\* A holder goes quiet.
Quiesce(p) ==
  /\ holder[p] \in Jobs
  /\ activity[holder[p]] = "busy"
  /\ activity' = [activity EXCEPT ![holder[p]] = "quiet"]
  /\ UNCHANGED holder

\* A quiet holder gives its scope up.
Release(p) ==
  /\ holder[p] \in Jobs
  /\ activity[holder[p]] = "quiet"
  /\ holder' = [holder EXCEPT ![p] = None]
  /\ UNCHANGED activity

Next ==
  \E p \in Products : (\E j \in Jobs : Admit(p, j)) \/ Quiesce(p) \/ Release(p)

Spec == Init /\ [][Next]_lockVars
=============================================================================
