---------------------------- MODULE AgentSession ----------------------------
(***************************************************************************)
(* The conversation of one chat: its rows in messages, its row in sessions *)
(* and the agent turns that read and write them. A turn loads the saved    *)
(* conversation and the user messages that are newer than the save, talks  *)
(* to the model for as long as it takes, and writes the whole conversation *)
(* back; the time of that write is the mark for the next turn.             *)
(*                                                                         *)
(* How far turns of a chat exclude each other depends on the channel:      *)
(*   "first"  slack, matrix and web lock the chat and then store the       *)
(*            message and run the turn;                                    *)
(*   "later"  feishu stores the message and then locks the chat;           *)
(*   "never"  irc, whatsapp and discord handle every message in a task of  *)
(*            its own.                                                     *)
(* A scheduled turn takes no lock on any channel. A turn that is dropped   *)
(* (by a stop, a panic, or a web client that goes away) gives its lock     *)
(* back, but what it has handed to the blocking pool is still written. A   *)
(* conversation is the set of the messages and answers in it; what         *)
(* compaction summarises is still in it.                                   *)
(***************************************************************************)
EXTENDS Integers, FiniteSets

CONSTANTS
  Asks,        \* user messages that start a turn, and their turns
  Chatter,     \* messages of a group that are stored and not addressed to the bot
  Jobs,        \* turns started by the scheduler
  NoTurn,      \* none of them
  Lock,        \* when the channel locks the chat
  Web,         \* the channel is web: its chat commands wait for that lock, and a
               \* handler is dropped when its client goes away
  Group,       \* the chat is a group
  Commands,    \* what else is done to the chat
  MaxCommands, \* bound: number of those
  MaxFaults    \* bound: number of failing database calls

Turns    == Asks \cup Jobs
Messages == Asks \cup Chatter

ASSUME IdsAssumption ==
  /\ Asks \cap Jobs = {} /\ Asks \cap Chatter = {} /\ Jobs \cap Chatter = {}
  /\ NoTurn \notin Turns \cup Chatter
ASSUME ChannelAssumption ==
  /\ Lock \in {"first", "later", "never"}
  /\ Web \in BOOLEAN /\ Group \in BOOLEAN
  /\ Web => Lock = "first" /\ ~Group
ASSUME BoundsAssumption ==
  /\ Commands \subseteq {"clear", "reset", "stop", "settings"}
  /\ MaxCommands \in Nat /\ MaxFaults \in Nat

VARIABLES
  clock,    \* the last timestamp given
  stamp,    \* messages.timestamp of each message; 0 before it is received
  stored,   \* the user messages in the table
  answers,  \* the turns whose answer is in the table
  replied,  \* messages.timestamp of each answer
  session,  \* sessions: messages_json as asks, chatter and answers; updated_at
  pc,       \* where each message and turn is
  lock,     \* the turn that holds the chat's lock
  source,   \* the message under which the turn is registered with run_control
  said,     \* the messages (and prompts) in the conversation a turn works on
  told,     \* the answers in it
  since,    \* the updated_at it has loaded
  saving,   \* turns whose save is on its way to the database
  hidden,   \* ABORTED_SOURCE_MESSAGE_IDS of the chat
  asked,    \* a /stop was sent and is not yet handled
  missed,   \* turns that a stop took from ACTIVE_RUNS and that missed its notification
  adrift,   \* turns that were dropped while a write of theirs was on its way
  ghosts,   \* dropped turns that are still in ACTIVE_RUNS
  clearing, \* a /clear whose handler was dropped is on its way
  wiped,    \* history: messages and prompts of the conversations cleared so far
  late,     \* history: messages that the late write of a dropped turn or handler came across
  commands, faults   \* how much of each bound is used

table   == <<stored, answers, replied>>
receipt == <<clock, stamp>>
context == <<source, said, told, since>>
stop    == <<hidden, asked, missed>>
dropped == <<adrift, ghosts, clearing>>
history == <<wiped, late>>
bounds  == <<commands, faults>>
vars    == <<receipt, table, session, pc, lock, context, saving, stop, dropped, history, bounds>>

Registered == {"load", "new", "run", "save"}
Empty      == [said |-> {}, told |-> {}, at |-> 0]

Conversation == [said : SUBSET (Messages \cup Jobs), told : SUBSET Turns, at : Nat]

TypeOK ==
  /\ clock \in Nat
  /\ stamp \in [Messages -> Nat] /\ replied \in [Turns -> Nat]
  /\ stored \subseteq Messages /\ answers \subseteq Turns
  /\ session \in Conversation
  /\ pc \in [Turns \cup Chatter -> {"lock", "stamp", "store", "source", "reply", "done"} \cup Registered]
  /\ lock \in Asks \cup {NoTurn}
  /\ lock # NoTurn => pc[lock] \notin {"lock", "done"}
  /\ source \in [Turns -> Messages \cup {NoTurn}]
  /\ said \in [Turns -> SUBSET (Messages \cup Jobs)]
  /\ told \in [Turns -> SUBSET Turns]
  /\ since \in [Turns -> Nat]
  /\ saving \subseteq Turns
  /\ hidden \subseteq Messages
  /\ asked \in BOOLEAN /\ clearing \in BOOLEAN
  /\ missed \subseteq Turns /\ adrift \subseteq Turns /\ ghosts \subseteq Turns
  /\ wiped \subseteq Messages \cup Jobs /\ late \subseteq Messages \cup Jobs
  /\ commands \in Nat /\ faults \in Nat

Init ==
  /\ clock = 0
  /\ stamp = [m \in Messages |-> 0]
  /\ stored = {} /\ answers = {}
  /\ replied = [t \in Turns |-> 0]
  /\ session = Empty
  /\ pc = [t \in Turns \cup Chatter |->
             IF t \in Jobs THEN "source" ELSE IF t \in Asks /\ Lock = "first" THEN "lock" ELSE "stamp"]
  /\ lock = NoTurn
  /\ source = [t \in Turns |-> NoTurn]
  /\ said = [t \in Turns |-> {}] /\ told = [t \in Turns |-> {}] /\ since = [t \in Turns |-> 0]
  /\ saving = {} /\ hidden = {} /\ asked = FALSE /\ missed = {}
  /\ adrift = {} /\ ghosts = {} /\ clearing = FALSE /\ wiped = {} /\ late = {}
  /\ commands = 0 /\ faults = 0

Goto(t, p) == pc' = [pc EXCEPT ![t] = p]
Fault == faults < MaxFaults /\ faults' = faults + 1
Now == clock' = clock + 1

-----------------------------------------------------------------------------
(* The channel *)

\* A mutant of TakeLock: the handler gets a fresh lock of its own.
TakeFreshLock(t) ==
  /\ pc[t] = "lock"
  /\ Goto(t, IF Lock = "first" THEN "stamp" ELSE "source")
  /\ UNCHANGED <<receipt, table, session, lock, context, saving, stop, dropped, history, bounds>>

\* The chat's lock is taken: before the message is stored, or after it.
TakeLock(t) ==
  /\ pc[t] = "lock" /\ lock = NoTurn
  /\ lock' = t
  /\ Goto(t, IF Lock = "first" THEN "stamp" ELSE "source")
  /\ UNCHANGED <<receipt, table, session, context, saving, stop, dropped, history, bounds>>

\* A mutant of Leave: the guard is kept.
LeaveLocked(t) == Goto(t, "done") /\ UNCHANGED lock

\* The turn's handler returns, and its guard is dropped.
Leave(t) ==
  /\ Goto(t, "done")
  /\ lock' = IF lock = t THEN NoTurn ELSE lock

\* The handler makes the row; its timestamp is the present time.
Stamp(m) ==
  /\ pc[m] = "stamp"
  /\ Now /\ stamp' = [stamp EXCEPT ![m] = clock + 1]
  /\ Goto(m, "store")
  /\ UNCHANGED <<table, session, lock, context, saving, stop, dropped, history, bounds>>

AfterStore(m) ==
  IF m \in Chatter \cup adrift THEN "done" ELSE IF Lock = "later" THEN "lock" ELSE "source"

\* store_message or store_message_if_new; when the insert fails the handler gives
\* up, but for irc, which goes on without the row.
Store(m) ==
  /\ pc[m] = "store"
  /\ late' = late \cup ({m} \cap adrift)
  /\ \/ stored' = stored \cup {m} /\ Goto(m, AfterStore(m)) /\ UNCHANGED <<lock, faults>>
     \/ Fault /\ Leave(m) /\ UNCHANGED stored
     \/ Lock = "never" /\ Fault /\ Goto(m, AfterStore(m)) /\ UNCHANGED <<stored, lock>>
  /\ UNCHANGED <<receipt, answers, replied, session, context, saving, stop, dropped, wiped, commands>>

-----------------------------------------------------------------------------
(* process_with_agent_with_events *)

\* The newest user message of the chat.
Latest == {m \in stored : \A n \in stored : stamp[n] <= stamp[m]}

\* The source is read, and the turn is registered.
Begin(t) ==
  /\ pc[t] = "source"
  /\ \E m \in (IF Latest = {} THEN {NoTurn} ELSE Latest) : source' = [source EXCEPT ![t] = m]
  /\ Goto(t, "load")
  /\ UNCHANGED <<receipt, table, session, lock, said, told, since, saving, stop, dropped, history, bounds>>

\* A message that asks to remember something is answered without the model.
FastPath(t) ==
  /\ pc[t] = "load" /\ t \in Asks
  /\ Goto(t, "reply")
  /\ UNCHANGED <<receipt, table, session, lock, context, saving, stop, dropped, history, bounds>>

\* load_session.
Load(t) ==
  /\ pc[t] = "load"
  /\ said' = [said EXCEPT ![t] = session.said]
  /\ told' = [told EXCEPT ![t] = session.told]
  /\ since' = [since EXCEPT ![t] = session.at]
  /\ Goto(t, "new")
  /\ UNCHANGED <<receipt, table, session, lock, source, saving, stop, dropped, history, bounds>>

\* A mutant of NewSince: the message that the turn answers is taken, and no other.
NewSinceOwn(t) == {m \in stored \ hidden : stamp[m] > since[t] /\ m = source[t]}

\* get_new_user_messages_since, without the messages whose turn was stopped.
NewSince(t) == {m \in stored \ hidden : stamp[m] > since[t]}

\* get_recent_messages, or in a group the rows from the last answer on.
LastAnswer == {t \in answers : \A u \in answers : replied[u] <= replied[t]}
HistorySaid == {m \in stored \ hidden : Group => \A t \in LastAnswer : stamp[m] >= replied[t]}
HistoryTold == IF Group THEN LastAnswer ELSE answers

\* The scheduler's prompt is a message of the turn's own.
Prompt(t) == {t} \cap Jobs

\* A saved conversation goes on with the new messages; without one (or with an
\* empty one) the turn begins with the history.
Append(t) ==
  /\ pc[t] = "new" /\ said[t] \cup told[t] # {}
  /\ said' = [said EXCEPT ![t] = @ \cup NewSince(t) \cup Prompt(t)]
  /\ Goto(t, "run")
  /\ UNCHANGED <<receipt, table, session, lock, source, told, since, saving, stop, dropped, history, bounds>>

FromHistory(t) ==
  /\ pc[t] = "new" /\ said[t] \cup told[t] = {}
  /\ said' = [said EXCEPT ![t] = HistorySaid \cup Prompt(t)]
  /\ told' = [told EXCEPT ![t] = HistoryTold]
  /\ Goto(t, IF HistorySaid \cup HistoryTold \cup Prompt(t) = {} THEN "reply" ELSE "run")
  /\ UNCHANGED <<receipt, table, session, lock, source, since, saving, stop, dropped, history, bounds>>

\* The model and the tools have done their work: the conversation, with the
\* answer, goes to the database.
Answer(t) ==
  /\ pc[t] = "run"
  /\ told' = [told EXCEPT ![t] = @ \cup {t}]
  /\ saving' = saving \cup {t}
  /\ Goto(t, "save")
  /\ UNCHANGED <<receipt, table, session, lock, source, said, since, stop, dropped, history, bounds>>

\* The model, or a read of the database, fails: nothing is saved. If the turn panics,
\* it is not unregistered.
Fail(t) ==
  /\ pc[t] \in {"load", "new", "run"}
  /\ Leave(t)
  /\ ghosts' \in {ghosts, ghosts \cup {t}}
  /\ UNCHANGED <<receipt, table, session, context, saving, stop, adrift, clearing, history, bounds>>

\* The client of the handler has gone: it is dropped at its await. What it has handed
\* to the blocking pool goes on without it.
Abandon(t) ==
  /\ Web /\ t \notin adrift /\ pc[t] # "done"
  /\ \/ pc[t] \in {"store", "save", "reply"} /\ adrift' = adrift \cup {t} /\ UNCHANGED pc
     \/ pc[t] \notin {"store", "save"} /\ Goto(t, "done") /\ UNCHANGED adrift
  /\ lock' = IF lock = t THEN NoTurn ELSE lock
  /\ ghosts' = IF pc[t] \in Registered THEN ghosts \cup {t} ELSE ghosts
  /\ UNCHANGED <<receipt, table, session, context, saving, stop, clearing, history, bounds>>

\* What the save of a dropped turn comes across: messages received meanwhile, which
\* it moves the mark past, and those of its own that were cleared meanwhile.
Overtaken(t) ==
  IF t \in adrift THEN {m \in Messages : stamp[m] > 0 /\ m \notin said[t]} \cup (said[t] \cap wiped)
  ELSE {}

AfterSave(t) ==
  pc' = [pc EXCEPT ![t] =
           IF @ # "save" THEN @ ELSE IF t \in adrift THEN "done" ELSE "reply"]

\* Mutants of Save: the mark is the one that was loaded, or the new conversation
\* is the turn's own part.
SaveOldMark(t) ==
  /\ t \in saving /\ saving' = saving \ {t}
  /\ Now /\ session' = [said |-> said[t], told |-> told[t], at |-> since[t]]
  /\ late' = late \cup Overtaken(t)
  /\ AfterSave(t)
  /\ UNCHANGED <<stamp, table, lock, context, stop, dropped, wiped, bounds>>

SaveOwnPart(t) ==
  /\ t \in saving /\ saving' = saving \ {t}
  /\ Now /\ session' = [said |-> said[t], told |-> {t}, at |-> clock + 1]
  /\ late' = late \cup Overtaken(t)
  /\ AfterSave(t)
  /\ UNCHANGED <<stamp, table, lock, context, stop, dropped, wiped, bounds>>

\* save_session_with_meta, on a thread of the blocking pool: it is carried out
\* even if the turn was dropped meanwhile. An error is only logged.
Save(t) ==
  /\ t \in saving /\ saving' = saving \ {t}
  /\ \/ /\ Now /\ session' = [said |-> said[t], told |-> told[t], at |-> clock + 1]
        /\ late' = late \cup Overtaken(t) /\ UNCHANGED faults
     \/ Fault /\ UNCHANGED <<clock, session, late>>
  /\ AfterSave(t)
  /\ UNCHANGED <<stamp, table, lock, context, stop, dropped, wiped, commands>>

\* The channel sends the answer and stores it, unless a tool has sent it already
\* or the delivery fails.
Reply(t) ==
  /\ pc[t] = "reply"
  /\ \/ Now /\ answers' = answers \cup {t} /\ replied' = [replied EXCEPT ![t] = clock + 1]
     \/ UNCHANGED <<clock, answers, replied>>
  /\ Leave(t)
  /\ UNCHANGED <<stamp, stored, session, context, saving, stop, dropped, history, bounds>>

-----------------------------------------------------------------------------
(* Chat commands and the web API *)

Command(c) == c \in Commands /\ commands < MaxCommands /\ commands' = commands + 1

MayCommand == Web => lock = NoTurn

Wipe ==
  /\ stored' = {} /\ answers' = {}
  /\ session' = Empty
  /\ wiped' = wiped \cup session.said \cup stored

\* A mutant of Clear: the session is kept.
ClearMessages ==
  /\ MayCommand /\ Command("clear")
  /\ stored' = {} /\ answers' = {}
  /\ wiped' = wiped \cup session.said \cup stored
  /\ UNCHANGED <<receipt, replied, session, pc, lock, context, saving, stop, dropped, late, faults>>

\* /clear and /reset: the session and the messages are deleted.
Clear ==
  /\ MayCommand /\ Command("clear")
  /\ Wipe
  /\ UNCHANGED <<receipt, replied, pc, lock, context, saving, stop, dropped, late, faults>>

\* The client of a /clear has gone when the lock was its handler's: the rows are deleted
\* some time later.
AbandonClear ==
  /\ Web /\ MayCommand /\ Command("clear")
  /\ clearing' = TRUE
  /\ UNCHANGED <<receipt, table, session, pc, lock, context, saving, stop, adrift, ghosts, history, faults>>

LateClear ==
  /\ clearing /\ clearing' = FALSE
  /\ Wipe
  /\ late' = late \cup session.said \cup stored
  /\ UNCHANGED <<receipt, replied, pc, lock, context, saving, stop, adrift, ghosts, bounds>>

\* The reset and delete requests of the web API do not wait for the lock. The reset
\* of a chat of another channel deletes the session only.
ApiReset ==
  /\ Command("reset")
  /\ \/ Wipe
     \/ ~Web /\ session' = Empty /\ wiped' = wiped \cup session.said /\ UNCHANGED <<stored, answers>>
  /\ UNCHANGED <<receipt, replied, pc, lock, context, saving, stop, dropped, late, faults>>

\* sessions.set*: save_session_settings writes the label or level, and the time.
SaveSettings ==
  /\ Command("settings")
  /\ Now /\ session' = [session EXCEPT !.at = clock + 1]
  /\ UNCHANGED <<stamp, table, pc, lock, context, saving, stop, dropped, history, faults>>

\* The user sends /stop.
AskStop ==
  /\ ~asked /\ Command("stop")
  /\ asked' = TRUE
  /\ UNCHANGED <<receipt, table, session, pc, lock, context, saving, hidden, missed, dropped, history, faults>>

\* The client of the /stop goes away before its handler has the lock.
AbandonStop ==
  /\ Web /\ asked /\ asked' = FALSE
  /\ UNCHANGED <<receipt, table, session, pc, lock, context, saving, hidden, missed, dropped, history, bounds>>

\* The turns in ACTIVE_RUNS that are still there to be dropped.
Stoppable == {t \in Turns : pc[t] \in Registered} \ (adrift \cup missed)

\* A mutant of Stop: the runs are not dropped.
StopHides ==
  /\ asked /\ MayCommand /\ asked' = FALSE
  /\ hidden' = hidden \cup ({source[t] : t \in Stoppable \cup ghosts} \ {NoTurn})
  /\ ghosts' = {}
  /\ UNCHANGED <<receipt, table, session, pc, lock, context, saving, missed, adrift, clearing, history, bounds>>

\* abort_runs: the registered turns are dropped, and their sources are hidden from then
\* on. One that has only begun may be between its flag and the notification, and goes
\* on. (The steps of this call are in RunControl.)
Stop ==
  /\ asked /\ MayCommand /\ asked' = FALSE
  /\ hidden' = hidden \cup ({source[t] : t \in Stoppable \cup ghosts} \ {NoTurn})
  /\ ghosts' = {}
  /\ \E deaf \in SUBSET {t \in Stoppable : pc[t] = "load"} :
       /\ missed' = missed \cup deaf
       /\ pc' = [t \in DOMAIN pc |-> IF t \in Stoppable \ deaf THEN "reply" ELSE pc[t]]
  /\ adrift' = adrift \cup {t \in Stoppable : pc[t] = "save"}
  /\ UNCHANGED <<receipt, table, session, lock, context, saving, clearing, history, bounds>>

-----------------------------------------------------------------------------
Turn(t) ==
  \/ Begin(t) \/ FastPath(t) \/ Load(t) \/ Append(t) \/ FromHistory(t)
  \/ Answer(t) \/ Fail(t) \/ Save(t) \/ Reply(t)

Next ==
  \/ \E t \in Asks : TakeLock(t) \/ Abandon(t)
  \/ \E m \in Messages : Stamp(m) \/ Store(m)
  \/ \E t \in Turns : Turn(t)
  \/ Clear \/ AbandonClear \/ LateClear \/ ApiReset \/ SaveSettings
  \/ AskStop \/ AbandonStop \/ Stop

Spec == Init /\ [][Next]_vars

(* What the process itself does goes on; the model may never answer, and    *)
(* the user need not send anything. The lock is fair.                       *)
FairSpec ==
  /\ Spec
  /\ \A m \in Messages : WF_vars(Store(m))
  /\ \A t \in Asks : SF_vars(TakeLock(t))
  /\ \A t \in Turns : WF_vars(Begin(t)) /\ WF_vars(Load(t)) /\ WF_vars(Append(t))
                        /\ WF_vars(FromHistory(t)) /\ WF_vars(Save(t)) /\ WF_vars(Reply(t))
  /\ WF_vars(Stop)

-----------------------------------------------------------------------------
(* Properties *)

Working == {t \in Turns : pc[t] \in {"run", "save"}}

\* No message is appended to the conversation twice: what the session contains is
\* not newer than its mark, whichever turns and settings wrote the two, and a turn
\* that has loaded the session goes on with the mark that belongs to it.
NoMessageTwice ==
  /\ \A m \in session.said \cap Messages : stamp[m] <= session.at
  /\ \A t \in Turns : pc[t] = "new" =>
       \A m \in said[t] \cap Messages : stamp[m] <= since[t]

\* A turn works on a conversation that contains the message that started it,
\* unless the chat was cleared, that message was stopped, or the late save of a
\* dropped turn moved the mark past it. On a channel that locks first, and without
\* scheduled turns and changes of the settings, this is so; README-origin.md:244
\* "Every message goes through a shared agent loop" says it without those conditions.
OwnMessageSeen ==
  \A t \in Working \cap Asks : t \in said[t] \cup wiped \cup hidden \cup late

\* A stored message that is not in the conversation yet is newer than its mark, so
\* that the next turn picks it up (DEVELOP.md:61 "If session exists: append new user
\* messages since last save"), or there is no conversation, and the next turn
\* begins with the history; but for messages that a dropped handler stored late, or
\* that the late save of a dropped turn moved the mark past.
NoMessageForgotten ==
  \A m \in stored \ (hidden \cup late) :
    \/ m \in session.said
    \/ stamp[m] > session.at
    \/ session.said \cup session.told = {}

\* The conversation is not set back: a save keeps every message and answer the
\* saves before it recorded, unless its turn was dropped, or was under way when the
\* save of a dropped turn came late. README-origin.md:264 "full conversation state
\* (including tool interactions) persisted between messages".
SaveKeeps ==
  [][\A t \in Turns : Save(t) /\ t \notin adrift \cup late =>
       session.said \subseteq session'.said /\ session.told \subseteq session'.told]_vars

\* What was cleared does not come back, unless a dropped turn saved it late, or the
\* clear itself was that of a dropped handler. README-origin.md:457 "/clear -- clear
\* current chat context (session + chat history)".
ClearedStaysCleared == session.said \cap wiped \subseteq late

\* A /stop ends the turn in progress, even if the model never answers, unless the
\* turn missed its notification. README-origin.md:456 "/stop -- abort the current
\* active run in this chat".
StopEndsTurn ==
  \A t \in Turns : asked /\ pc[t] \in Registered ~> pc[t] = "done" \/ t \in missed

=============================================================================
