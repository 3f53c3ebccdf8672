------------------------- MODULE RunControlProofs -------------------------
(***************************************************************************)
(* Proofs about RunControl, for any set of turns, any number of concurrent *)
(* stops and any bounds: type correctness, that no turn escapes the map    *)
(* unseen, that none is stopped twice, and that the source of a stopped    *)
(* turn is hidden.                                                         *)
(***************************************************************************)
EXTENDS RunControl, TLAPS

\* Turns past their registration, or at their end.
Reached == {r \in Runs : pc[r] \in InSelect \cup {"leave", "done"}}

\* The bookkeeping of abort_runs: a call works on runs that were in the map, flags
\* a run before it notifies it, and hides nothing before all are notified; only
\* runs that have left their select have ended, and a dropped one is at its end.
Phases ==
  /\ flagged \subseteq Reached
  /\ \A s \in Stops : taken[s] \subseteq Reached /\ flagging[s] \subseteq flagged
  /\ \A s \in Stops : spc[s] = "hide" => todo[s] = {} /\ flagging[s] = {}
  /\ \A r \in Runs : result[r] = "stopped" => pc[r] \in {"leave", "done"}
  /\ \A r \in Runs : result[r] = "dropped" => pc[r] = "done"

\* A run that was flagged, notified or stopped belongs to a call that has yet to
\* hide its source or was dropped before it could, or the source is hidden.
MarkedIsHidden ==
  \A r \in Runs :
    (r \in flagged \cup woken \/ result[r] = "stopped") /\ source[r] # 0 =>
      source[r] \in hidden \/ r \in lost \/ \E s \in Stops : r \in taken[s]

IInv == TypeOK /\ Phases /\ EveryRunStoppable /\ TakenOnce /\ MarkedIsHidden

-----------------------------------------------------------------------------
(* The initial state *)

LEMMA InitIInv == Init => IInv
  BY BoundsAssumption
     DEF Init, IInv, TypeOK, Phases, EveryRunStoppable, TakenOnce, MarkedIsHidden,
         Reached, InSelect, Listening, Messages

-----------------------------------------------------------------------------
(* Types and phases *)

LEMMA TypeStep == TypeOK /\ Phases /\ [Next]_vars => TypeOK' /\ Phases'
<1> SUFFICES ASSUME TypeOK, Phases, [Next]_vars PROVE TypeOK' /\ Phases'
  OBVIOUS
<1> USE BoundsAssumption
    DEF TypeOK, Phases, Reached, InSelect, Listening, Messages, Goto, Leave, turn, stop
<1>1. ASSUME NEW r \in Runs, Arrive(r) PROVE TypeOK' /\ Phases'
  BY <1>1 DEF Arrive
<1>2. ASSUME NEW r \in Runs, Schedule(r) PROVE TypeOK' /\ Phases'
  BY <1>2 DEF Schedule
<1>3. ASSUME NEW r \in Runs, ReadSource(r) PROVE TypeOK' /\ Phases'
  BY <1>3 DEF ReadSource
<1>4. ASSUME NEW r \in Runs, Register(r) PROVE TypeOK' /\ Phases'
  BY <1>4 DEF Register
<1>5. ASSUME NEW r \in Runs, CheckFlag(r) PROVE TypeOK' /\ Phases'
  BY <1>5 DEF CheckFlag
<1>6. ASSUME NEW r \in Runs, Listen(r) PROVE TypeOK' /\ Phases'
  BY <1>6 DEF Listen
<1>7. ASSUME NEW r \in Runs, Engine(r) PROVE TypeOK' /\ Phases'
  BY <1>7 DEF Engine
<1>8. ASSUME NEW r \in Runs, Woken(r) PROVE TypeOK' /\ Phases'
  BY <1>8 DEF Woken
<1>9. ASSUME NEW r \in Runs, Unregister(r) PROVE TypeOK' /\ Phases'
  BY <1>9 DEF Unregister
<1>10. ASSUME NEW r \in Runs, Drop(r) PROVE TypeOK' /\ Phases'
  BY <1>10 DEF Drop
<1>11. ASSUME NEW s \in Stops, Take(s) PROVE TypeOK' /\ Phases'
  BY <1>11 DEF Take
<1>12. ASSUME NEW s \in Stops, SetFlag(s) PROVE TypeOK' /\ Phases'
  BY <1>12 DEF SetFlag
<1>13. ASSUME NEW s \in Stops, Notify(s) PROVE TypeOK' /\ Phases'
  BY <1>13 DEF Notify
<1>14. ASSUME NEW s \in Stops, Hide(s) PROVE TypeOK' /\ Phases'
  <2>1. spc[s] = "hide" /\ todo[s] = {} /\ flagging[s] = {}
    BY <1>14 DEF Hide
  <2>2. spc' = [spc EXCEPT ![s] = "idle"] /\ taken' = [taken EXCEPT ![s] = {}]
    BY <1>14 DEF Hide
  <2>3. hidden' \subseteq Messages
    <3>1. hidden' = hidden \cup ({source[r] : r \in taken[s]} \ {0})
      BY <1>14 DEF Hide
    <3>2. \A r \in taken[s] : source[r] \in 0..MaxMessages
      OBVIOUS
    <3>3. ASSUME NEW m \in hidden' PROVE m \in Messages
      <4>1. CASE m \in hidden BY <4>1
      <4>2. CASE m \notin hidden
        <5>1. PICK q \in taken[s] : m = source[q] /\ m # 0 BY <3>1, <3>3, <4>2
        <5> QED BY <5>1, <3>2
      <4> QED BY <4>1, <4>2
    <3> QED BY <3>3
  <2>4. UNCHANGED <<turn, active, flagged, woken, todo, flagging, missed, lost, stops>>
    BY <1>14 DEF Hide
  <2> QED BY <2>1, <2>2, <2>3, <2>4
<1>15. ASSUME NEW s \in Stops, DropStop(s) PROVE TypeOK' /\ Phases'
  BY <1>15 DEF DropStop
<1>16. CASE UNCHANGED vars
  BY <1>16 DEF vars
<1> QED
  BY <1>1, <1>2, <1>3, <1>4, <1>5, <1>6, <1>7, <1>8, <1>9, <1>10, <1>11, <1>12, <1>13, <1>14,
     <1>15, <1>16
     DEF Next, Turn, Abort

-----------------------------------------------------------------------------
(* No turn escapes *)

\* Every step leaves a turn in its select within reach of a stop.
LEMMA StoppableStep ==
  TypeOK /\ Phases /\ EveryRunStoppable /\ [Next]_vars => EveryRunStoppable'
<1> SUFFICES ASSUME TypeOK, Phases, EveryRunStoppable, [Next]_vars PROVE EveryRunStoppable'
  OBVIOUS
<1> USE DEF TypeOK, Phases, EveryRunStoppable, InSelect, Listening, Goto, Leave, turn, stop
<1>1. ASSUME NEW r \in Runs, Arrive(r) PROVE EveryRunStoppable'
  BY <1>1 DEF Arrive
<1>2. ASSUME NEW r \in Runs, Schedule(r) PROVE EveryRunStoppable'
  BY <1>2 DEF Schedule
<1>3. ASSUME NEW r \in Runs, ReadSource(r) PROVE EveryRunStoppable'
  BY <1>3 DEF ReadSource
<1>4. ASSUME NEW r \in Runs, Register(r) PROVE EveryRunStoppable'
  BY <1>4 DEF Register
<1>5. ASSUME NEW r \in Runs, CheckFlag(r) PROVE EveryRunStoppable'
  BY <1>5 DEF CheckFlag
<1>6. ASSUME NEW r \in Runs, Listen(r) PROVE EveryRunStoppable'
  BY <1>6 DEF Listen
<1>7. ASSUME NEW r \in Runs, Engine(r) PROVE EveryRunStoppable'
  BY <1>7 DEF Engine
<1>8. ASSUME NEW r \in Runs, Woken(r) PROVE EveryRunStoppable'
  BY <1>8 DEF Woken
<1>9. ASSUME NEW r \in Runs, Unregister(r) PROVE EveryRunStoppable'
  BY <1>9 DEF Unregister
<1>10. ASSUME NEW r \in Runs, Drop(r) PROVE EveryRunStoppable'
  BY <1>10 DEF Drop
<1>11. ASSUME NEW s \in Stops, Take(s) PROVE EveryRunStoppable'
  BY <1>11 DEF Take
<1>12. ASSUME NEW s \in Stops, SetFlag(s) PROVE EveryRunStoppable'
  BY <1>12 DEF SetFlag
<1>13. ASSUME NEW s \in Stops, Notify(s) PROVE EveryRunStoppable'
  BY <1>13 DEF Notify
<1>14. ASSUME NEW s \in Stops, Hide(s) PROVE EveryRunStoppable'
  BY <1>14 DEF Hide
<1>15. ASSUME NEW s \in Stops, DropStop(s) PROVE EveryRunStoppable'
  BY <1>15 DEF DropStop
<1>16. CASE UNCHANGED vars
  BY <1>16 DEF vars
<1> QED
  BY <1>1, <1>2, <1>3, <1>4, <1>5, <1>6, <1>7, <1>8, <1>9, <1>10, <1>11, <1>12, <1>13, <1>14,
     <1>15, <1>16
     DEF Next, Turn, Abort

-----------------------------------------------------------------------------
(* No turn is stopped twice *)

\* A run enters the map before any stop takes it, and leaves the map when one does.
LEMMA TakenOnceStep ==
  TypeOK /\ Phases /\ TakenOnce /\ [Next]_vars => TakenOnce'
<1> SUFFICES ASSUME TypeOK, Phases, TakenOnce, [Next]_vars PROVE TakenOnce'
  OBVIOUS
<1>1. ASSUME NEW r \in Runs, Register(r) PROVE TakenOnce'
  BY <1>1 DEF Register, TakenOnce, Phases, Reached, InSelect, Listening, stop
<1>2. ASSUME NEW r \in Runs, Unregister(r) PROVE TakenOnce'
  BY <1>2 DEF Unregister, TakenOnce, stop
<1>3. ASSUME NEW s \in Stops, Take(s) PROVE TakenOnce'
  BY <1>3 DEF Take, TakenOnce, TypeOK
<1>4. ASSUME NEW s \in Stops, Hide(s) PROVE TakenOnce'
  BY <1>4 DEF Hide, TakenOnce, TypeOK
<1>5. ASSUME NEW s \in Stops, DropStop(s) PROVE TakenOnce'
  BY <1>5 DEF DropStop, TakenOnce, TypeOK
<1>6. CASE UNCHANGED <<active, taken>>
  BY <1>6 DEF TakenOnce
<1>7. ASSUME NEW r \in Runs,
             Arrive(r) \/ Schedule(r) \/ ReadSource(r) \/ CheckFlag(r) \/ Listen(r)
             \/ Engine(r) \/ Woken(r) \/ Drop(r)
      PROVE  UNCHANGED <<active, taken>>
  BY <1>7 DEF Arrive, Schedule, ReadSource, CheckFlag, Listen, Engine, Woken, Drop, stop
<1>8. ASSUME NEW s \in Stops, SetFlag(s) \/ Notify(s) PROVE UNCHANGED <<active, taken>>
  BY <1>8 DEF SetFlag, Notify
<1>9. UNCHANGED vars => UNCHANGED <<active, taken>>
  BY DEF vars, stop
<1> QED
  BY <1>1, <1>2, <1>3, <1>4, <1>5, <1>6, <1>7, <1>8, <1>9 DEF Next, Turn, Abort

-----------------------------------------------------------------------------
(* The source of a stopped turn is hidden *)

\* The source of a run that was flagged or stopped stays hidden or claimed.
LEMMA HiddenStep ==
  TypeOK /\ Phases /\ MarkedIsHidden /\ [Next]_vars => MarkedIsHidden'
<1> SUFFICES ASSUME TypeOK, Phases, MarkedIsHidden, [Next]_vars PROVE MarkedIsHidden'
  OBVIOUS
<1> USE DEF TypeOK, Phases, Reached, MarkedIsHidden, InSelect, Listening, Goto, Leave, turn, stop
<1>1. ASSUME NEW r \in Runs, Arrive(r) PROVE MarkedIsHidden'
  BY <1>1 DEF Arrive
<1>2. ASSUME NEW r \in Runs, Schedule(r) PROVE MarkedIsHidden'
  BY <1>2 DEF Schedule
<1>3. ASSUME NEW r \in Runs, ReadSource(r) PROVE MarkedIsHidden'
  BY <1>3 DEF ReadSource
<1>4. ASSUME NEW r \in Runs, Register(r) PROVE MarkedIsHidden'
  BY <1>4 DEF Register
<1>5. ASSUME NEW r \in Runs, CheckFlag(r) PROVE MarkedIsHidden'
  BY <1>5 DEF CheckFlag
<1>6. ASSUME NEW r \in Runs, Listen(r) PROVE MarkedIsHidden'
  BY <1>6 DEF Listen
<1>7. ASSUME NEW r \in Runs, Engine(r) PROVE MarkedIsHidden'
  BY <1>7 DEF Engine
<1>8. ASSUME NEW r \in Runs, Woken(r) PROVE MarkedIsHidden'
  BY <1>8 DEF Woken
<1>9. ASSUME NEW r \in Runs, Unregister(r) PROVE MarkedIsHidden'
  BY <1>9 DEF Unregister
<1>10. ASSUME NEW r \in Runs, Drop(r) PROVE MarkedIsHidden'
  BY <1>10 DEF Drop
<1>11. ASSUME NEW s \in Stops, Take(s) PROVE MarkedIsHidden'
  BY <1>11 DEF Take
<1>12. ASSUME NEW s \in Stops, SetFlag(s) PROVE MarkedIsHidden'
  BY <1>12 DEF SetFlag
<1>13. ASSUME NEW s \in Stops, Notify(s) PROVE MarkedIsHidden'
  BY <1>13 DEF Notify
<1>14. ASSUME NEW s \in Stops, Hide(s) PROVE MarkedIsHidden'
  BY <1>14 DEF Hide
<1>15. ASSUME NEW s \in Stops, DropStop(s) PROVE MarkedIsHidden'
  BY <1>15 DEF DropStop
<1>16. CASE UNCHANGED vars
  BY <1>16 DEF vars
<1> QED
  BY <1>1, <1>2, <1>3, <1>4, <1>5, <1>6, <1>7, <1>8, <1>9, <1>10, <1>11, <1>12, <1>13, <1>14,
     <1>15, <1>16
     DEF Next, Turn, Abort

-----------------------------------------------------------------------------
(* The theorems *)

\* The inductive invariant, from its parts.
LEMMA IInvHolds == Spec => []IInv
<1>1. IInv /\ [Next]_vars => IInv'
  BY TypeStep, StoppableStep, TakenOnceStep, HiddenStep DEF IInv
<1> QED BY InitIInv, <1>1, PTL DEF Spec

\* Every reachable state of the registry has its types; in particular the map holds
\* only turns that are in their select, about to leave the map, or dropped before that.
THEOREM TypeCorrect == Spec => []TypeOK
<1>1. IInv => TypeOK
  BY DEF IInv
<1> QED BY IInvHolds, <1>1, PTL

\* However many stops run at once, a turn in its select is in the map, or about to
\* be notified, or has the flag or the notification to see, or is one that missed it.
THEOREM EveryRunStoppableCorrect == Spec => []EveryRunStoppable
<1>1. IInv => EveryRunStoppable
  BY DEF IInv
<1> QED BY IInvHolds, <1>1, PTL

\* abort_runs counts a turn once: no two calls hold the same run, and none holds a
\* run that is still in the map.
THEOREM TakenOnceCorrect == Spec => []TakenOnce
<1>1. IInv => TakenOnce
  BY DEF IInv
<1> QED BY IInvHolds, <1>1, PTL

\* The source of a turn that a stop ended is hidden from later turns, or a call of
\* abort_runs still holds the run and will hide it, or was dropped before it could.
THEOREM StoppedIsHiddenCorrect == Spec => []StoppedIsHidden
<1>1. IInv => StoppedIsHidden
  BY DEF IInv, MarkedIsHidden, StoppedIsHidden
<1> QED BY IInvHolds, <1>1, PTL

=============================================================================
