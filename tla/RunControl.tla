---------------------------- MODULE RunControl ----------------------------
(***************************************************************************)
(* The cancellation of agent turns, for one chat of one channel:           *)
(* run_control.rs and the select! of process_with_agent_with_events.       *)
(*                                                                         *)
(* A turn reads the id of the message it takes for its source, registers   *)
(* itself, and then drives the engine and a waiter, both polled by the     *)
(* same task. The waiter reads the cancel flag and starts to listen to the *)
(* notification; the engine's first await comes back only after the waiter *)
(* was polled. abort_runs runs on another thread: each of its steps may    *)
(* fall between any two steps of a turn. Both are futures of their caller: *)
(* a panic, or a web client that goes away, drops one at any await, and    *)
(* nothing cleans up after it.                                             *)
(***************************************************************************)
EXTENDS Integers, FiniteSets

CONSTANTS
  Runs,         \* calls of process_with_agent_with_events
  Stops,        \* concurrent calls of abort_runs
  MaxMessages,  \* bound: number of user messages
  MaxStops      \* bound: number of calls of abort_runs

ASSUME BoundsAssumption == MaxMessages \in Nat /\ MaxStops \in Nat

\* Messages are numbered in the order in which they are stored; 0 is no message.
Messages == 1..MaxMessages

VARIABLES
  stored,   \* the number of user messages in the database
  source,   \* ActiveRun.source_message_id
  pc,       \* where the turn is
  result,   \* how it ended
  active,   \* ACTIVE_RUNS of the chat
  flagged,  \* the runs whose cancelled flag is set
  woken,    \* the runs whose waiter was notified while it listened
  hidden,   \* ABORTED_SOURCE_MESSAGE_IDS of the chat
  spc,      \* where the call of abort_runs is
  taken,    \* the runs it took out of the map
  todo,     \* those it still has to flag
  flagging, \* the runs it has flagged and not yet notified
  missed,   \* history: notified after the flag was read and before the waiter listened
  lost,     \* history: taken by a call of abort_runs that was dropped before it hid them
  stops

turn  == <<stored, source, pc, result>>
stop  == <<hidden, spc, taken, todo, flagging>>
vars  == <<turn, active, flagged, woken, stop, missed, lost, stops>>

Listening == {"engine", "loaded"}
InSelect  == {"poll", "checked"} \cup Listening

TypeOK ==
  /\ stored \in 0..MaxMessages
  /\ source \in [Runs -> 0..MaxMessages]
  /\ pc \in [Runs -> {"idle", "source", "register", "leave", "done"} \cup InSelect]
  /\ result \in [Runs -> {"none", "answered", "stopped", "dropped"}]
  /\ active \subseteq {r \in Runs : pc[r] \in InSelect \cup {"leave"} \/ result[r] = "dropped"}
  /\ flagged \subseteq Runs /\ missed \subseteq Runs /\ lost \subseteq Runs
  /\ woken \subseteq Runs /\ \A r \in woken : pc[r] \in Listening \cup {"leave", "done"}
  /\ hidden \subseteq Messages
  /\ spc \in [Stops -> {"idle", "signal", "hide"}]
  /\ taken \in [Stops -> SUBSET Runs]
  /\ todo \in [Stops -> SUBSET Runs] /\ flagging \in [Stops -> SUBSET Runs]
  /\ \A s \in Stops : todo[s] \subseteq taken[s] /\ flagging[s] \subseteq taken[s] \ todo[s]
  /\ \A s \in Stops : spc[s] = "idle" <=> taken[s] = {}
  /\ stops \in Nat

Init ==
  /\ stored = 0
  /\ source = [r \in Runs |-> 0]
  /\ pc = [r \in Runs |-> "idle"]
  /\ result = [r \in Runs |-> "none"]
  /\ active = {} /\ flagged = {} /\ woken = {} /\ hidden = {}
  /\ spc = [s \in Stops |-> "idle"]
  /\ taken = [s \in Stops |-> {}] /\ todo = [s \in Stops |-> {}] /\ flagging = [s \in Stops |-> {}]
  /\ missed = {} /\ lost = {} /\ stops = 0

-----------------------------------------------------------------------------
(* process_with_agent_with_events *)

Goto(r, p) == pc' = [pc EXCEPT ![r] = p]

\* A channel stores a message and starts its turn.
Arrive(r) ==
  /\ pc[r] = "idle" /\ stored < MaxMessages
  /\ stored' = stored + 1
  /\ Goto(r, "source")
  /\ UNCHANGED <<source, result, active, flagged, woken, stop, missed, lost, stops>>

\* The scheduler starts a turn without a message.
Schedule(r) ==
  /\ pc[r] = "idle" /\ Goto(r, "source")
  /\ UNCHANGED <<stored, source, result, active, flagged, woken, stop, missed, lost, stops>>

\* The source is the latest user message of the chat, or none if the read fails.
ReadSource(r) ==
  /\ pc[r] = "source"
  /\ \E m \in {0, stored} : source' = [source EXCEPT ![r] = m]
  /\ Goto(r, "register")
  /\ UNCHANGED <<stored, result, active, flagged, woken, stop, missed, lost, stops>>

\* register_run.
Register(r) ==
  /\ pc[r] = "register" /\ Goto(r, "poll")
  /\ active' = active \cup {r}
  /\ UNCHANGED <<stored, source, result, flagged, woken, stop, missed, lost, stops>>

Leave(r, how) == Goto(r, "leave") /\ result' = [result EXCEPT ![r] = how]

\* The first poll of the waiter: is_cancelled.
CheckFlag(r) ==
  /\ pc[r] = "poll"
  /\ IF r \in flagged THEN Leave(r, "stopped") ELSE Goto(r, "checked") /\ UNCHANGED result
  /\ UNCHANGED <<stored, source, active, flagged, woken, stop, missed, lost, stops>>

\* notify.notified() is created and polled: from here on a notification counts.
Listen(r) ==
  /\ pc[r] = "checked" /\ Goto(r, "engine")
  /\ UNCHANGED <<stored, source, result, active, flagged, woken, stop, missed, lost, stops>>

\* The engine goes on, or is done; a notified waiter may lose to it in the select.
Engine(r) ==
  /\ \/ pc[r] = "engine" /\ Goto(r, "loaded") /\ UNCHANGED result
     \/ pc[r] = "loaded" /\ Leave(r, "answered")
  /\ UNCHANGED <<stored, source, active, flagged, woken, stop, missed, lost, stops>>

\* The notified waiter ends the select, which drops the engine.
Woken(r) ==
  /\ pc[r] \in Listening /\ r \in woken
  /\ Leave(r, "stopped")
  /\ UNCHANGED <<stored, source, active, flagged, woken, stop, missed, lost, stops>>

\* Mutants of Unregister: the run is not found, or the chat's entry is removed.
UnregisterNothing(r) ==
  /\ pc[r] = "leave" /\ Goto(r, "done")
  /\ UNCHANGED <<stored, source, result, active, flagged, woken, stop, missed, lost, stops>>

UnregisterChat(r) ==
  /\ pc[r] = "leave" /\ Goto(r, "done")
  /\ active' = {}
  /\ UNCHANGED <<stored, source, result, flagged, woken, stop, missed, lost, stops>>

\* unregister_run.
Unregister(r) ==
  /\ pc[r] = "leave" /\ Goto(r, "done")
  /\ active' = active \ {r}
  /\ UNCHANGED <<stored, source, result, flagged, woken, stop, missed, lost, stops>>

\* The turn is dropped by its caller, or panics: what it has registered stays.
Drop(r) ==
  /\ pc[r] \notin {"idle", "done"} /\ Goto(r, "done")
  /\ result' = [result EXCEPT ![r] = "dropped"]
  /\ UNCHANGED <<stored, source, active, flagged, woken, stop, missed, lost, stops>>

-----------------------------------------------------------------------------
(* abort_runs *)

\* A mutant of Take: the runs stay in the map.
TakeAndKeep(s) ==
  /\ spc[s] = "idle" /\ stops < MaxStops /\ stops' = stops + 1
  /\ taken' = [taken EXCEPT ![s] = active]
  /\ todo' = [todo EXCEPT ![s] = active]
  /\ spc' = [spc EXCEPT ![s] = IF active = {} THEN "idle" ELSE "signal"]
  /\ UNCHANGED <<turn, active, flagged, woken, hidden, flagging, missed, lost>>

\* The chat's runs are taken out of the map under its lock.
Take(s) ==
  /\ spc[s] = "idle" /\ stops < MaxStops /\ stops' = stops + 1
  /\ taken' = [taken EXCEPT ![s] = active]
  /\ todo' = [todo EXCEPT ![s] = active]
  /\ spc' = [spc EXCEPT ![s] = IF active = {} THEN "idle" ELSE "signal"]
  /\ active' = {}
  /\ UNCHANGED <<turn, flagged, woken, hidden, flagging, missed, lost>>

\* A mutant of SetFlag: the run is only going to be notified.
SetNoFlag(s) ==
  /\ spc[s] = "signal" /\ flagging[s] = {}
  /\ \E r \in todo[s] :
       /\ todo' = [todo EXCEPT ![s] = @ \ {r}]
       /\ flagging' = [flagging EXCEPT ![s] = {r}]
  /\ UNCHANGED <<turn, active, flagged, woken, hidden, spc, taken, missed, lost, stops>>

\* The next run: cancelled.store(true), ...
SetFlag(s) ==
  /\ spc[s] = "signal" /\ flagging[s] = {}
  /\ \E r \in todo[s] :
       /\ flagged' = flagged \cup {r}
       /\ todo' = [todo EXCEPT ![s] = @ \ {r}]
       /\ flagging' = [flagging EXCEPT ![s] = {r}]
  /\ UNCHANGED <<turn, active, woken, hidden, spc, taken, missed, lost, stops>>

\* ... then notify_waiters, which reaches a waiter that listens and no other.
Notify(s) ==
  /\ spc[s] = "signal" /\ flagging[s] # {}
  /\ woken' = woken \cup {r \in flagging[s] : pc[r] \in Listening}
  /\ missed' = missed \cup {r \in flagging[s] : pc[r] = "checked"}
  /\ flagging' = [flagging EXCEPT ![s] = {}]
  /\ spc' = [spc EXCEPT ![s] = IF todo[s] = {} THEN "hide" ELSE "signal"]
  /\ UNCHANGED <<turn, active, flagged, hidden, taken, todo, lost, stops>>

\* A mutant of Hide: the ids are taken from the runs that are still there.
HideOfLive(s) ==
  /\ spc[s] = "hide"
  /\ hidden' = hidden \cup ({source[r] : r \in {q \in taken[s] : pc[q] # "done"}} \ {0})
  /\ taken' = [taken EXCEPT ![s] = {}]
  /\ spc' = [spc EXCEPT ![s] = "idle"]
  /\ UNCHANGED <<turn, active, flagged, woken, todo, flagging, missed, lost, stops>>

\* The source ids are hidden from the turns to come, and the call returns.
Hide(s) ==
  /\ spc[s] = "hide"
  /\ hidden' = hidden \cup ({source[r] : r \in taken[s]} \ {0})
  /\ taken' = [taken EXCEPT ![s] = {}]
  /\ spc' = [spc EXCEPT ![s] = "idle"]
  /\ UNCHANGED <<turn, active, flagged, woken, todo, flagging, missed, lost, stops>>

\* The call is dropped while it waits to write the ids.
DropStop(s) ==
  /\ spc[s] = "hide"
  /\ lost' = lost \cup taken[s]
  /\ taken' = [taken EXCEPT ![s] = {}]
  /\ spc' = [spc EXCEPT ![s] = "idle"]
  /\ UNCHANGED <<turn, active, flagged, woken, hidden, todo, flagging, missed, stops>>

-----------------------------------------------------------------------------
Turn(r) ==
  \/ Arrive(r) \/ Schedule(r) \/ ReadSource(r) \/ Register(r) \/ CheckFlag(r)
  \/ Listen(r) \/ Engine(r) \/ Woken(r) \/ Unregister(r) \/ Drop(r)
Abort(s) == Take(s) \/ SetFlag(s) \/ Notify(s) \/ Hide(s) \/ DropStop(s)

Next == (\E r \in Runs : Turn(r)) \/ (\E s \in Stops : Abort(s))

Spec == Init /\ [][Next]_vars

(* The task of a turn is polled and a call of abort_runs goes on; the       *)
(* engine may wait for the model for ever.                                  *)
FairSpec ==
  /\ Spec
  /\ \A r \in Runs : WF_vars(CheckFlag(r)) /\ WF_vars(Listen(r)) /\ WF_vars(Woken(r))
                       /\ WF_vars(Unregister(r))
  /\ \A s \in Stops : WF_vars(SetFlag(s)) /\ WF_vars(Notify(s)) /\ WF_vars(Hide(s))

-----------------------------------------------------------------------------
(* Properties *)

\* No turn escapes: one that is in its select can still be stopped, or is being
\* stopped: it is in the map, or a call of abort_runs has yet to notify it, or its
\* waiter will see the flag or the notification. The exception is a waiter that
\* missed its notification.
EveryRunStoppable ==
  \A r \in Runs : pc[r] \in InSelect =>
    \/ r \in active
    \/ \E s \in Stops : r \in todo[s] \cup flagging[s]
    \/ pc[r] = "poll" /\ r \in flagged
    \/ r \in woken
    \/ r \in missed

\* A turn that a stop has taken out of the map ends, even if its model call never
\* does, unless its waiter missed the notification.
StopTakesEffect ==
  \A r \in Runs : (\E s \in Stops : r \in taken[s]) ~> (pc[r] = "done" \/ r \in missed)

\* A turn is stopped by one call only: the map gives each run to one of them, and
\* a second stop does not count it again.
TakenOnce ==
  \A s, t \in Stops : s # t => taken[s] \cap (taken[t] \cup active) = {}

\* The source of a turn that ended by a stop is hidden from the turns to come, or the
\* call that stopped it is about to hide it, or was dropped before it could. (Whether
\* the source is the message that started the turn is another matter: it is the latest
\* message of the chat.)
StoppedIsHidden ==
  \A r \in Runs : result[r] = "stopped" /\ source[r] # 0 =>
    source[r] \in hidden \/ r \in lost \/ \E s \in Stops : r \in taken[s]

=============================================================================
