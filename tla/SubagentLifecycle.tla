------------------------- MODULE SubagentLifecycle -------------------------
(***************************************************************************)
(* What the sub-agent runtime promises, whatever its callers do: a row     *)
(* goes forward only (accepted, queued, running, one final status), it     *)
(* leaves 'accepted' or 'queued' for 'running' only with a place in the    *)
(* lane, there are Width places, and an ended row is never touched again.  *)
(***************************************************************************)
EXTENDS Integers, FiniteSets

CONSTANTS
  Runs,   \* run ids
  Width   \* the number of runs that execute at the same time

VARIABLES
  status,  \* the row of each run
  lane     \* the runs that execute

vars == <<status, lane>>

Waiting == {"accepted", "queued"}
Final   == {"completed", "failed", "cancelled", "timed_out"}

SetTo(r, s) == status' = [status EXCEPT ![r] = s]

Init == status = [r \in Runs |-> "none"] /\ lane = {}

\* A row appears.
Accept(r) == status[r] = "none" /\ SetTo(r, "accepted") /\ UNCHANGED lane

\* Its executor asks for a place.
Queue(r) == status[r] = "accepted" /\ r \notin lane /\ SetTo(r, "queued") /\ UNCHANGED lane

\* It gets one.
Enter(r) ==
  /\ status[r] \in Waiting /\ r \notin lane
  /\ Cardinality(lane) < Width
  /\ lane' = lane \cup {r}
  /\ UNCHANGED status

Begin(r) == r \in lane /\ status[r] \in Waiting /\ SetTo(r, "running") /\ UNCHANGED lane

\* The row ends while the run still has its place.
End(r) ==
  /\ r \in lane /\ status[r] \in Waiting \cup {"running"}
  /\ \E s \in Final : SetTo(r, s)
  /\ UNCHANGED lane

\* The place is given back.
Leave(r) == r \in lane /\ lane' = lane \ {r} /\ UNCHANGED status

\* The process dies: nothing executes, the rows stay.
Lose == lane' = {} /\ UNCHANGED status

Next ==
  \/ \E r \in Runs : Accept(r) \/ Queue(r) \/ Enter(r) \/ Begin(r) \/ End(r) \/ Leave(r)
  \/ Lose

Spec == Init /\ [][Next]_vars
=============================================================================
