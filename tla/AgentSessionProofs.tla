------------------------ MODULE AgentSessionProofs -------------------------
(***************************************************************************)
(* Proofs about AgentSession, for any messages, turns and bounds: types    *)
(* and marks on every channel, and what a channel that locks the chat      *)
(* first promises.                                                         *)
(***************************************************************************)
EXTENDS AgentSession, TLAPS

-----------------------------------------------------------------------------
(* On every channel *)

\* The message has no timestamp yet.
Unstamped(m) == pc[m] = "stamp" \/ (Lock = "first" /\ pc[m] = "lock")

\* A holder of the lock does not come to wait for it.
LockStage == lock # NoTurn /\ Lock # "first" => pc[lock] \notin {"stamp", "store"}

\* A turn that was dropped while it wrote has given its lock back, or is about to.
Adrift ==
  \A t \in adrift : pc[t] \in {"store", "save", "reply", "done"} /\ (lock = t => pc[t] = "reply")

\* Times are not ahead of the clock, and what was read from the table has its time.
Stamps ==
  /\ \A m \in Messages : stamp[m] <= clock
  /\ \A m \in Messages : Unstamped(m) =>
       m \notin stored \cup session.said /\ \A t \in Turns : m \notin said[t]

GInv == TypeOK /\ LockStage /\ Adrift /\ Stamps /\ NoMessageTwice

LEMMA InitGInv == Init => GInv
<1> SUFFICES ASSUME Init PROVE GInv
  OBVIOUS
<1> USE IdsAssumption, ChannelAssumption DEF Init, Empty
<1>1. TypeOK
  BY DEF TypeOK, Conversation, Registered, Turns, Messages
<1>2. LockStage /\ Adrift /\ Stamps /\ NoMessageTwice
  BY DEF LockStage, Adrift, Stamps, NoMessageTwice, Turns, Messages
<1> QED
  BY <1>1, <1>2 DEF GInv

\* Where messages and turns may be.
Stages == {"lock", "stamp", "store", "source", "reply", "done"} \cup Registered

\* What the types say of pc, lock and adrift, and a part that is inductive.
Places ==
  /\ pc \in [Turns \cup Chatter -> Stages] /\ adrift \subseteq Turns
  /\ lock \in Asks \cup {NoTurn}
  /\ lock # NoTurn => pc[lock] \notin {"lock", "done"}
  /\ LockStage /\ Adrift

LEMMA LeavesPlace ==
  ASSUME Places, NEW t \in Turns \cup Chatter, Leave(t), UNCHANGED adrift
  PROVE  Places'
<1>1. pc' = [pc EXCEPT ![t] = "done"] /\ lock' = IF lock = t THEN NoTurn ELSE lock
  BY DEF Leave, Goto
<1> QED
  BY <1>1, IdsAssumption DEF Places, Stages, LockStage, Adrift, Turns

LEMMA GoesToPlace ==
  ASSUME Places, NEW t \in Turns \cup Chatter, NEW p \in Stages, Goto(t, p), UNCHANGED <<lock, adrift>>,
         p \in {"lock", "done"} => lock # t, p \in {"stamp", "store"} => lock # t \/ Lock = "first",
         t \in adrift => p = "done"
  PROVE  Places'
BY IdsAssumption DEF Goto, Places, Stages, LockStage, Adrift, Turns

LEMMA PlacesStep ==
  ASSUME Places, [Next]_vars
  PROVE  Places'
<1> USE IdsAssumption, ChannelAssumption
<1>1. ASSUME NEW t \in Asks, TakeLock(t) PROVE Places'
  <2>1. /\ pc[t] = "lock" /\ lock = NoTurn /\ lock' = t /\ UNCHANGED adrift
        /\ pc' = [pc EXCEPT ![t] = IF Lock = "first" THEN "stamp" ELSE "source"]
    BY <1>1 DEF TakeLock, Goto, dropped
  <2>2. t \notin adrift
    BY <2>1 DEF Places, Adrift
  <2> QED
    BY <2>1, <2>2 DEF Places, Stages, LockStage, Adrift, Turns
<1>2. ASSUME NEW m \in Messages, Stamp(m) PROVE Places'
  <2>1. m \in Turns \cup Chatter /\ pc[m] = "stamp" /\ m \notin adrift /\ UNCHANGED adrift
    BY <1>2 DEF Stamp, Messages, Turns, Places, Adrift, dropped
  <2>2. lock = m => Lock = "first"
    BY <2>1 DEF Places, LockStage, Turns
  <2> QED
    BY <1>2, <2>1, <2>2, GoesToPlace DEF Stamp, Stages
<1>3. ASSUME NEW m \in Messages, Store(m) PROVE Places'
  <2>1. m \in Turns \cup Chatter /\ pc[m] = "store" /\ UNCHANGED adrift
    BY <1>3 DEF Store, Messages, Turns, dropped
  <2>2. CASE Leave(m)
    BY <2>1, <2>2, LeavesPlace
  <2>3. CASE Goto(m, AfterStore(m)) /\ UNCHANGED lock
    <3>1. AfterStore(m) \in {"done", "lock", "source"} /\ AfterStore(m) \in Stages
      BY DEF AfterStore, Stages
    <3>2. (AfterStore(m) = "done" => lock # m) /\ (m \in adrift => AfterStore(m) = "done")
      BY <2>1 DEF AfterStore, Places, Adrift
    <3>3. AfterStore(m) = "lock" => lock # m
      BY <2>1 DEF AfterStore, Places, LockStage
    <3> QED
      BY <2>1, <2>3, <3>1, <3>2, <3>3, GoesToPlace
  <2> QED
    BY <1>3, <2>2, <2>3 DEF Store
<1>4. ASSUME NEW t \in Turns, Turn(t) PROVE Places'
  <2>1. CASE Begin(t) \/ FastPath(t) \/ Load(t) \/ Append(t) \/ FromHistory(t) \/ Answer(t)
    <3>1. pc[t] \in {"source", "load", "new", "run"} /\ UNCHANGED <<lock, adrift>>
      BY <2>1 DEF Begin, FastPath, Load, Append, FromHistory, Answer, dropped
    <3>2. t \notin adrift
      BY <3>1 DEF Places, Adrift
    <3>3. \E p \in {"load", "new", "run", "save", "reply"} : Goto(t, p)
      BY <2>1 DEF Begin, FastPath, Load, Append, FromHistory, Answer
    <3> QED
      BY <3>1, <3>2, <3>3, GoesToPlace DEF Stages, Registered
  <2>2. CASE Fail(t) \/ Reply(t)
    BY <2>2, LeavesPlace DEF Fail, Reply, dropped
  <2>3. CASE Save(t)
    <3>1. pc' = [pc EXCEPT ![t] = IF pc[t] # "save" THEN pc[t] ELSE IF t \in adrift THEN "done" ELSE "reply"]
          /\ UNCHANGED <<lock, adrift>>
      BY <2>3 DEF Save, AfterSave, dropped
    <3> QED
      BY <3>1 DEF Places, Stages, LockStage, Adrift, Registered
  <2> QED
    BY <1>4, <2>1, <2>2, <2>3 DEF Turn
<1>5. ASSUME NEW t \in Asks, Abandon(t) PROVE Places'
  <2>1. lock' = IF lock = t THEN NoTurn ELSE lock
    BY <1>5 DEF Abandon
  <2>2. CASE pc[t] \in {"store", "save", "reply"} /\ adrift' = adrift \cup {t} /\ UNCHANGED pc
    BY <2>1, <2>2 DEF Places, LockStage, Adrift, Turns
  <2>3. CASE Goto(t, "done") /\ UNCHANGED adrift
    BY <2>1, <2>3, LeavesPlace DEF Leave, Turns
  <2> QED
    BY <1>5, <2>2, <2>3 DEF Abandon
<1>6. CASE Stop
  <2>1. PICK deaf \in SUBSET {t \in Stoppable : pc[t] = "load"} :
          pc' = [t \in DOMAIN pc |-> IF t \in Stoppable \ deaf THEN "reply" ELSE pc[t]]
    BY <1>6 DEF Stop
  <2>2. UNCHANGED lock /\ adrift' = adrift \cup {t \in Stoppable : pc[t] = "save"}
    BY <1>6 DEF Stop
  <2>3. \A t \in Stoppable : t \in Turns /\ pc[t] \in Registered /\ t \notin adrift
    BY DEF Stoppable
  <2>4. pc' \in [Turns \cup Chatter -> Stages] /\ adrift' \subseteq Turns /\ lock' \in Asks \cup {NoTurn}
    BY <2>1, <2>2, <2>3 DEF Places, Stages
  <2>5. (lock' # NoTurn => pc'[lock'] \notin {"lock", "done"}) /\ LockStage'
    BY <2>1, <2>2 DEF Places, LockStage, Turns
  <2>6. \A t \in adrift' : pc'[t] = "reply" \/ (t \in adrift /\ pc'[t] = pc[t])
    BY <2>1, <2>2, <2>3 DEF Places, Stages
  <2>7. Adrift'
    BY <2>2, <2>6 DEF Places, Adrift
  <2> QED
    BY <2>4, <2>5, <2>7 DEF Places
<1>7. CASE Clear \/ AbandonClear \/ LateClear \/ ApiReset \/ SaveSettings \/ AskStop \/ AbandonStop
           \/ UNCHANGED vars
  <2>1. UNCHANGED <<pc, lock, adrift>>
    BY <1>7 DEF Clear, AbandonClear, LateClear, ApiReset, SaveSettings, AskStop, AbandonStop, vars, dropped
  <2> QED
    BY <2>1 DEF Places, LockStage, Adrift
<1> QED
  BY <1>1, <1>2, <1>3, <1>4, <1>5, <1>6, <1>7 DEF Next

\* What the types say of the rest.
Data ==
  /\ clock \in Nat
  /\ stamp \in [Messages -> Nat] /\ replied \in [Turns -> Nat]
  /\ stored \subseteq Messages /\ answers \subseteq Turns
  /\ session \in Conversation
  /\ source \in [Turns -> Messages \cup {NoTurn}]
  /\ said \in [Turns -> SUBSET (Messages \cup Jobs)]
  /\ told \in [Turns -> SUBSET Turns]
  /\ since \in [Turns -> Nat]
  /\ saving \subseteq Turns
  /\ hidden \subseteq Messages
  /\ asked \in BOOLEAN /\ clearing \in BOOLEAN
  /\ missed \subseteq Turns /\ ghosts \subseteq Turns
  /\ wiped \subseteq Messages \cup Jobs /\ late \subseteq Messages \cup Jobs
  /\ commands \in Nat /\ faults \in Nat

LEMMA TypesSplit == TypeOK /\ LockStage /\ Adrift <=> Places /\ Data
BY DEF TypeOK, Places, Data, Stages

LEMMA DataStep ==
  ASSUME Data, [Next]_vars
  PROVE  Data'
<1>1. ASSUME NEW t \in Asks, TakeLock(t) PROVE Data'
  BY <1>1 DEF TakeLock, Data, receipt, table, context, stop, dropped, history, bounds
<1>2. ASSUME NEW m \in Messages, Stamp(m) PROVE Data'
  BY <1>2 DEF Stamp, Now, Data, table, context, stop, dropped, history, bounds
<1>3. ASSUME NEW m \in Messages, Store(m) PROVE Data'
  BY <1>3 DEF Store, Fault, Data, receipt, context, stop, dropped, history
<1>4. ASSUME NEW t \in Turns, Turn(t) PROVE Data'
  <2>1. CASE Begin(t)
    BY <2>1 DEF Begin, Latest, Data, receipt, table, stop, dropped, history, bounds
  <2>2. CASE FastPath(t) \/ Fail(t)
    BY <2>2 DEF FastPath, Fail, Data, receipt, table, context, stop, dropped, history, bounds
  <2>3. CASE Load(t)
    BY <2>3 DEF Load, Conversation, Data, receipt, table, stop, dropped, history, bounds
  <2>4. CASE Append(t)
    <3>1. said[t] \cup NewSince(t) \cup Prompt(t) \in SUBSET (Messages \cup Jobs)
      BY DEF NewSince, Prompt, Data
    <3> QED
      BY <2>4, <3>1 DEF Append, Data, receipt, table, stop, dropped, history, bounds
  <2>5. CASE FromHistory(t)
    <3>1. HistorySaid \cup Prompt(t) \in SUBSET (Messages \cup Jobs) /\ HistoryTold \in SUBSET Turns
      BY DEF HistorySaid, HistoryTold, LastAnswer, Prompt, Data
    <3> QED
      BY <2>5, <3>1 DEF FromHistory, Data, receipt, table, stop, dropped, history, bounds
  <2>6. CASE Answer(t)
    BY <2>6 DEF Answer, Data, receipt, table, stop, dropped, history, bounds
  <2>7. CASE Save(t)
    <3>1. Overtaken(t) \subseteq Messages \cup Jobs
      BY DEF Overtaken, Data
    <3> QED
      BY <2>7, <3>1 DEF Save, Now, Fault, Conversation, Data, table, context, stop, dropped, history
  <2>8. CASE Reply(t)
    BY <2>8 DEF Reply, Now, Data, context, stop, dropped, history, bounds
  <2> QED
    BY <1>4, <2>1, <2>2, <2>3, <2>4, <2>5, <2>6, <2>7, <2>8 DEF Turn
<1>5. CASE Clear \/ AbandonClear \/ LateClear \/ ApiReset
  <2>1. session.said \subseteq Messages \cup Jobs /\ Empty \in Conversation
    BY DEF Data, Conversation, Empty
  <2>2. CASE Clear
    BY <2>1, <2>2 DEF Clear, Wipe, Command, Data, receipt, context, stop, dropped
  <2>3. CASE AbandonClear
    BY <2>3 DEF AbandonClear, Command, Data, receipt, table, context, stop, history
  <2>4. CASE LateClear
    BY <2>1, <2>4 DEF LateClear, Wipe, Data, receipt, context, stop, bounds
  <2>5. CASE ApiReset
    BY <2>1, <2>5 DEF ApiReset, Wipe, Command, Data, receipt, context, stop, dropped
  <2> QED
    BY <1>5, <2>2, <2>3, <2>4, <2>5
<1>6. CASE SaveSettings
  BY <1>6 DEF SaveSettings, Command, Now, Conversation, Data, table, context, stop, dropped, history
<1>7. CASE AskStop \/ AbandonStop
  <2>1. CASE AskStop
    BY <2>1 DEF AskStop, Command, Data, receipt, table, context, dropped, history
  <2>2. CASE AbandonStop
    BY <2>2 DEF AbandonStop, Data, receipt, table, context, dropped, history, bounds
  <2> QED
    BY <1>7, <2>1, <2>2
<1>8. CASE Stop
  <2>1. /\ UNCHANGED <<receipt, table, session, context, saving, clearing, history, bounds>>
        /\ asked' = FALSE /\ ghosts' = {}
        /\ hidden' = hidden \cup ({source[t] : t \in Stoppable \cup ghosts} \ {NoTurn})
        /\ \E deaf \in SUBSET Stoppable : missed' = missed \cup deaf
    BY <1>8 DEF Stop
  <2>2. Stoppable \cup ghosts \subseteq Turns
    BY DEF Stoppable, Data
  <2>3. hidden' \subseteq Messages /\ missed' \subseteq Turns
    BY <2>1, <2>2 DEF Data
  <2> QED
    BY <2>1, <2>3 DEF Data, receipt, table, context, history, bounds
<1>9. ASSUME NEW t \in Asks, Abandon(t) PROVE Data'
  BY <1>9 DEF Abandon, Data, Turns, receipt, table, context, stop, history, bounds
<1>10. CASE UNCHANGED vars
  BY <1>10 DEF Data, vars, receipt, table, context, stop, dropped, history, bounds
<1> QED
  BY <1>1, <1>2, <1>3, <1>4, <1>5, <1>6, <1>7, <1>8, <1>9, <1>10 DEF Next

\* A message that has its time keeps it, and one without is nowhere.
Timed == Stamps /\ NoMessageTwice

\* A step that gives no time and takes messages only from the table keeps Timed.
LEMMA TimedKept ==
  ASSUME Data, Timed, Data', UNCHANGED stamp, clock <= clock',
         stored' \subseteq stored, session' = session \/ session' = Empty,
         \A m \in Messages : pc'[m] \in {"stamp", "lock"} =>
           pc'[m] = pc[m] \/ (Lock = "first" /\ pc[m] = "lock"),
         \A u \in Turns : said'[u] \subseteq said[u] \cup session.said \cup stored \cup Jobs,
         \A u \in Turns : pc'[u] = "new" =>
           \/ pc[u] = "new" /\ said'[u] = said[u] /\ since'[u] = since[u]
           \/ said'[u] = session.said /\ since'[u] = session.at
  PROVE  Timed'
<1>1. /\ session \in Conversation /\ stamp \in [Messages -> Nat] /\ clock \in Nat
      /\ session' \in Conversation /\ clock' \in Nat
  BY DEF Data
<1>2. session'.said \subseteq session.said /\ (session'.said # {} => session'.at >= session.at)
  BY <1>1 DEF Empty, Conversation
<1>3. \A m \in Messages : stamp'[m] <= clock'
  BY <1>1 DEF Timed, Stamps
<1>4. \A m \in Messages : Unstamped(m)' =>
        m \notin stored' \cup session'.said /\ \A u \in Turns : m \notin said'[u]
  <2>1. \A m \in Messages : Unstamped(m)' => Unstamped(m)
    BY DEF Unstamped
  <2> QED
    BY <1>2, <2>1, IdsAssumption DEF Timed, Stamps, Messages
<1>5. \A m \in session'.said \cap Messages : stamp'[m] <= session'.at
  <2>1. session.at \in Nat /\ session'.at \in Nat
    BY <1>1 DEF Conversation
  <2> QED
    BY <1>1, <1>2, <2>1 DEF Timed, NoMessageTwice
<1>6. \A u \in Turns : pc'[u] = "new" => \A m \in said'[u] \cap Messages : stamp'[m] <= since'[u]
  BY DEF Timed, NoMessageTwice
<1> QED
  BY <1>3, <1>4, <1>5, <1>6 DEF Timed, Stamps, NoMessageTwice

LEMMA TimedStep ==
  ASSUME Data, Places, Timed, [Next]_vars, Data', Places'
  PROVE  Timed'
<1> USE IdsAssumption, ChannelAssumption
<1>d. /\ clock \in Nat /\ clock' \in Nat /\ session \in Conversation /\ session' \in Conversation
      /\ said \in [Turns -> SUBSET (Messages \cup Jobs)] /\ since \in [Turns -> Nat]
      /\ pc \in [Turns \cup Chatter -> Stages] /\ pc' \in [Turns \cup Chatter -> Stages]
      /\ stamp \in [Messages -> Nat] /\ stamp' \in [Messages -> Nat]
      /\ Messages \subseteq Turns \cup Chatter
  BY DEF Data, Places, Messages, Turns
<1>c. (clock' = clock => clock <= clock') /\ (clock' = clock + 1 => clock <= clock')
  BY <1>d
<1>1. ASSUME NEW t \in Asks, TakeLock(t) PROVE Timed'
  <2>1. /\ UNCHANGED <<clock, stamp, stored, session, said, since>> /\ t \in Turns
        /\ pc[t] = "lock" /\ pc' = [pc EXCEPT ![t] = IF Lock = "first" THEN "stamp" ELSE "source"]
    BY <1>1 DEF TakeLock, Goto, receipt, table, context, Turns
  <2>2. \A m \in Messages : pc'[m] \in {"stamp", "lock"} =>
         pc'[m] = pc[m] \/ (Lock = "first" /\ pc[m] = "lock")
    BY <1>d, <2>1
  <2>3. \A u \in Turns : pc'[u] = "new" => pc[u] = "new"
    BY <1>d, <2>1
  <2> QED
    BY <1>c, <2>1, <2>2, <2>3, TimedKept
<1>2. ASSUME NEW m \in Messages, Stamp(m) PROVE Timed'
  <2>1. /\ clock' = clock + 1 /\ stamp' = [stamp EXCEPT ![m] = clock + 1]
        /\ UNCHANGED <<stored, session, said, since>>
        /\ pc[m] = "stamp" /\ pc' = [pc EXCEPT ![m] = "store"]
    BY <1>2 DEF Stamp, Now, Goto, table, context
  <2>2. \A n \in Messages : Unstamped(n)' => Unstamped(n) /\ n # m
    BY <1>d, <2>1 DEF Unstamped
  <2>3. m \notin session.said /\ \A u \in Turns : m \notin said[u]
    BY <2>1 DEF Timed, Stamps, Unstamped
  <2>4. \A n \in Messages : stamp'[n] <= clock'
    BY <1>d, <2>1 DEF Timed, Stamps
  <2>5. \A u \in Turns : pc'[u] = "new" => pc[u] = "new"
    BY <1>d, <2>1
  <2> QED
    BY <1>d, <2>1, <2>2, <2>3, <2>4, <2>5 DEF Timed, Stamps, NoMessageTwice
<1>3. ASSUME NEW m \in Messages, Store(m) PROVE Timed'
  <2>1. /\ UNCHANGED <<clock, stamp, session, said, since>> /\ pc[m] = "store"
        /\ stored' \subseteq stored \cup {m}
        /\ pc' = [pc EXCEPT ![m] = AfterStore(m)] \/ pc' = [pc EXCEPT ![m] = "done"]
    BY <1>3 DEF Store, Leave, Goto, receipt, context
  <2>2. \A n \in Messages : Unstamped(n)' => Unstamped(n) /\ n # m
    BY <1>d, <2>1 DEF Unstamped, AfterStore
  <2>3. \A u \in Turns : pc'[u] = "new" => pc[u] = "new"
    BY <1>d, <2>1 DEF AfterStore
  <2> QED
    BY <1>d, <2>1, <2>2, <2>3 DEF Timed, Stamps, NoMessageTwice
<1>4. ASSUME NEW t \in Turns, Turn(t) PROVE Timed'
  <2>1. CASE Begin(t) \/ FastPath(t) \/ Answer(t) \/ Fail(t) \/ Reply(t)
    <3>1. /\ UNCHANGED <<stamp, stored, session, said, since>> /\ clock <= clock'
          /\ \E p \in {"load", "reply", "save", "done"} : pc' = [pc EXCEPT ![t] = p]
      BY <1>d, <2>1 DEF Begin, FastPath, Answer, Fail, Reply, Leave, Goto, Now, receipt, table, context
    <3>2. \A m \in Messages : pc'[m] \in {"stamp", "lock"} =>
           pc'[m] = pc[m] \/ (Lock = "first" /\ pc[m] = "lock")
      BY <1>d, <3>1
    <3>3. \A u \in Turns : pc'[u] = "new" => pc[u] = "new"
      BY <1>d, <3>1
    <3> QED
      BY <1>c, <3>1, <3>2, <3>3, TimedKept
  <2>2. CASE Load(t)
    <3>1. /\ UNCHANGED <<clock, stamp, stored, session>> /\ pc' = [pc EXCEPT ![t] = "new"]
          /\ said' = [said EXCEPT ![t] = session.said] /\ since' = [since EXCEPT ![t] = session.at]
      BY <2>2 DEF Load, Goto, receipt, table
    <3>2. \A m \in Messages : pc'[m] \in {"stamp", "lock"} =>
           pc'[m] = pc[m] \/ (Lock = "first" /\ pc[m] = "lock")
      BY <1>d, <3>1
    <3>3. \A u \in Turns : pc'[u] = "new" =>
           \/ pc[u] = "new" /\ said'[u] = said[u] /\ since'[u] = since[u]
           \/ said'[u] = session.said /\ since'[u] = session.at
      BY <1>d, <3>1
    <3>4. \A u \in Turns : said'[u] \subseteq said[u] \cup session.said
      BY <1>d, <3>1
    <3> QED
      BY <1>c, <3>1, <3>2, <3>3, <3>4, TimedKept
  <2>3. CASE Append(t) \/ FromHistory(t)
    <3>1. /\ UNCHANGED <<clock, stamp, stored, session, since>>
          /\ pc' = [pc EXCEPT ![t] = "run"] \/ pc' = [pc EXCEPT ![t] = "reply"]
          /\ \/ said' = [said EXCEPT ![t] = said[t] \cup NewSince(t) \cup Prompt(t)]
             \/ said' = [said EXCEPT ![t] = HistorySaid \cup Prompt(t)]
      BY <2>3 DEF Append, FromHistory, Goto, receipt, table
    <3>2. \A m \in Messages : pc'[m] \in {"stamp", "lock"} =>
           pc'[m] = pc[m] \/ (Lock = "first" /\ pc[m] = "lock")
      BY <1>d, <3>1
    <3>3. \A u \in Turns : pc'[u] = "new" => pc[u] = "new" /\ said'[u] = said[u]
      BY <1>d, <3>1
    <3>4. NewSince(t) \subseteq stored /\ HistorySaid \subseteq stored /\ Prompt(t) \subseteq Jobs
      BY DEF NewSince, HistorySaid, Prompt
    <3>5. \A u \in Turns : said'[u] \subseteq said[u] \cup session.said \cup stored \cup Jobs
      BY <1>d, <3>1, <3>4
    <3> QED
      BY <1>c, <3>1, <3>2, <3>3, <3>5, TimedKept
  <2>4. CASE Save(t)
    <3>1. /\ UNCHANGED <<stamp, stored, said, since>>
          /\ \/ clock' = clock + 1 /\ session' = [said |-> said[t], told |-> told[t], at |-> clock + 1]
             \/ UNCHANGED <<clock, session>>
          /\ pc' = [pc EXCEPT ![t] = IF pc[t] # "save" THEN pc[t] ELSE IF t \in adrift THEN "done" ELSE "reply"]
      BY <2>4 DEF Save, AfterSave, Now, table, context
    <3>2. \A m \in Messages : pc'[m] \in {"stamp", "lock"} =>
           pc'[m] = pc[m] \/ (Lock = "first" /\ pc[m] = "lock")
      BY <1>d, <3>1
    <3>3. \A u \in Turns : pc'[u] = "new" => pc[u] = "new"
      BY <1>d, <3>1
    <3>4. \A m \in Messages : stamp[m] <= clock'
      BY <1>d, <3>1 DEF Timed, Stamps
    <3>5. \/ session'.said = said[t] /\ session'.at = clock'
          \/ session' = session
      BY <3>1
    <3>6. \A m \in Messages : Unstamped(m)' => Unstamped(m)
      BY <3>2 DEF Unstamped
    <3>7. Stamps'
      BY <3>1, <3>4, <3>5, <3>6 DEF Timed, Stamps
    <3>8. NoMessageTwice'
      BY <3>1, <3>3, <3>4, <3>5 DEF Timed, NoMessageTwice
    <3> QED
      BY <3>7, <3>8 DEF Timed
  <2> QED
    BY <1>4, <2>1, <2>2, <2>3, <2>4 DEF Turn
<1>5. CASE Clear \/ LateClear \/ ApiReset
  <2>1. UNCHANGED <<clock, stamp, said, since, pc>> /\ stored' \subseteq stored /\ session' = Empty
    BY <1>5 DEF Clear, LateClear, ApiReset, Wipe, receipt, context
  <2> QED
    BY <1>c, <2>1, TimedKept
<1>6. CASE SaveSettings
  <2>1. /\ UNCHANGED <<stamp, stored, said, since, pc>> /\ clock' = clock + 1
        /\ session' = [session EXCEPT !.at = clock + 1]
    BY <1>6 DEF SaveSettings, Now, table, context
  <2>2. session'.said = session.said /\ session'.at = clock + 1
    BY <1>d, <2>1 DEF Conversation
  <2>3. \A m \in Messages : stamp[m] <= clock + 1
    BY <1>d DEF Timed, Stamps
  <2> QED
    BY <1>d, <2>1, <2>2, <2>3 DEF Timed, Stamps, NoMessageTwice, Unstamped
<1>7. CASE AbandonClear \/ AskStop \/ AbandonStop \/ Stop \/ UNCHANGED vars
  <2>1. /\ UNCHANGED <<clock, stamp, stored, session, said, since>>
        /\ \A u \in DOMAIN pc : pc'[u] = "reply" \/ pc'[u] = pc[u]
    BY <1>7, <1>d DEF AbandonClear, AskStop, AbandonStop, Stop, vars, receipt, table, context
  <2>2. \A m \in Messages : pc'[m] \in {"stamp", "lock"} =>
         pc'[m] = pc[m] \/ (Lock = "first" /\ pc[m] = "lock")
    BY <1>d, <2>1
  <2>3. \A u \in Turns : pc'[u] = "new" => pc[u] = "new"
    BY <1>d, <2>1
  <2> QED
    BY <1>c, <2>1, <2>2, <2>3, TimedKept
<1>8. ASSUME NEW t \in Asks, Abandon(t) PROVE Timed'
  <2>1. /\ UNCHANGED <<clock, stamp, stored, session, said, since>>
        /\ pc' = pc \/ pc' = [pc EXCEPT ![t] = "done"]
    BY <1>8 DEF Abandon, Goto, receipt, table, context
  <2>2. \A m \in Messages : pc'[m] \in {"stamp", "lock"} => pc'[m] = pc[m]
    BY <1>d, <2>1
  <2>3. \A u \in Turns : pc'[u] = "new" => pc[u] = "new"
    BY <1>d, <2>1
  <2> QED
    BY <1>c, <2>1, <2>2, <2>3, TimedKept
<1> QED
  BY <1>1, <1>2, <1>3, <1>4, <1>5, <1>6, <1>7, <1>8 DEF Next

LEMMA GInvStep == GInv /\ [Next]_vars => GInv'
<1> SUFFICES ASSUME GInv, [Next]_vars PROVE GInv'
  OBVIOUS
<1>1. Places /\ Data /\ Timed
  BY TypesSplit DEF GInv, Timed
<1>2. Places' /\ Data'
  BY <1>1, PlacesStep, DataStep
<1>3. Timed'
  BY <1>1, <1>2, TimedStep
<1>4. (TypeOK /\ LockStage /\ Adrift)'
  BY <1>2, TypesSplit, PTL
<1> QED
  BY <1>3, <1>4 DEF GInv, Timed

-----------------------------------------------------------------------------
(* On a channel that locks first *)

\* Every turn is that of a message on a channel that locks first, a chat is cleared only
\* where commands wait for the lock, and nothing else writes the session.
Serial ==
  /\ Lock = "first"
  /\ Jobs = {} /\ Chatter = {}
  /\ Commands \subseteq IF Web THEN {"clear", "stop"} ELSE {"stop"}

\* The turns under way whose handler is still there.
Live == {t \in Asks : pc[t] \notin {"lock", "done"} /\ t \notin adrift}

\* They exclude each other. Off the web a turn that was dropped keeps the lock, too.
Alone ==
  /\ \A t \in Live : lock = t
  /\ ~Web => \A t \in Asks : pc[t] \notin {"lock", "done"} => lock = t
  /\ \A t \in Asks : (pc[t] = "save" => t \in saving) /\ (t \in saving => pc[t] = "save" \/ t \in adrift)

\* A message is stored once, so what was wiped comes back only with a late write.
Past ==
  /\ \A m \in Asks : pc[m] \in {"lock", "stamp", "store"} =>
       m \notin stored \cup wiped \cup session.said /\ \A t \in Asks : m \notin said[t]
  /\ stored \cap wiped = {} /\ session.said \cap wiped \subseteq late
  /\ \A t \in Live : pc[t] \in {"new", "run", "save"} => said[t] \cap wiped \subseteq late
  /\ \A m \in Asks : m \in stored \/ pc[m] \notin {"lock", "stamp", "done"} => stamp[m] > 0

\* A turn finds its message in the table, no dropped turn has it in what it will write
\* (which a late write therefore overtakes), and the turn works on it.
Own ==
  /\ \A t \in Live : pc[t] \in {"source", "load", "new", "run", "save"} => t \in stored \cup late
  /\ \A t \in Live : pc[t] # "stamp" => \A u \in saving \ {t} : t \notin said[u]
  /\ \A t \in Asks : pc[t] \in {"run", "save"} => t \in said[t] \cup hidden \cup late

\* The message is newer than all that its turn will find, and the turn goes on with the
\* conversation that is saved, unless a late write came in between.
Newest ==
  /\ session.at <= clock /\ \A u \in answers : replied[u] <= clock
  /\ \A t \in Live \ late : pc[t] \in {"store", "source", "load", "new"} => stamp[t] > session.at
  /\ Group => \A t \in Live : pc[t] \in {"store", "source", "load", "new"} =>
       \A u \in answers : replied[u] < stamp[t]
  /\ \A t \in Live \ late : pc[t] = "new" =>
       since[t] = session.at /\ said[t] = session.said /\ told[t] = session.told
  /\ \A t \in Live \ late : pc[t] \in {"run", "save"} =>
       session.said \subseteq said[t] /\ session.told \subseteq told[t]

\* The stored messages that a turn picks up.
Picked == stored \ (hidden \cup late)

\* In a private chat a turn works on all of them.
Whole ==
  ~Group => \A t \in Live :
    /\ pc[t] = "new" /\ said[t] \cup told[t] # {} => \A m \in Picked : m \in said[t] \/ stamp[m] > since[t]
    /\ pc[t] \in {"run", "save"} => Picked \subseteq said[t]

\* What NoMessageForgotten says, of a private chat.
NoneForgotten == ~Group => NoMessageForgotten

Rest == Alone /\ Past /\ Own /\ Newest /\ Whole /\ NoneForgotten
SInv == Serial /\ GInv /\ Rest

LEMMA InitSInv == Init /\ Serial => SInv
<1> SUFFICES ASSUME Init, Serial PROVE SInv
  OBVIOUS
<1>1. GInv
  BY InitGInv
<1>2. Live = {}
  BY DEF Init, Serial, Live, Turns
<1>3. Alone /\ Past /\ Own
  BY <1>2 DEF Init, Empty, Serial, Alone, Past, Own, Turns, Messages
<1>4. Newest /\ Whole /\ NoneForgotten
  BY <1>2 DEF Init, Empty, Serial, Newest, Whole, NoneForgotten, NoMessageForgotten
<1> QED
  BY <1>1, <1>3, <1>4 DEF SInv, Rest

\* The types, with one name for messages and turns, which here are the same.
LEMMA SerialTypes ==
  ASSUME SInv
  PROVE  /\ Turns = Asks /\ Messages = Asks /\ Chatter = {} /\ Jobs = {} /\ NoTurn \notin Asks
         /\ Lock = "first" /\ (Group => ~Web)
         /\ clock \in Nat /\ stamp \in [Asks -> Nat] /\ replied \in [Asks -> Nat]
         /\ stored \subseteq Asks /\ answers \subseteq Asks
         /\ session \in Conversation /\ session.at \in Nat /\ session.said \subseteq Asks
         /\ pc \in [Asks -> Stages] /\ lock \in Asks \cup {NoTurn}
         /\ lock # NoTurn => pc[lock] \notin {"lock", "done"}
         /\ said \in [Asks -> SUBSET Asks] /\ told \in [Asks -> SUBSET Asks]
         /\ since \in [Asks -> Nat] /\ saving \subseteq Asks /\ adrift \subseteq Asks
         /\ \A m \in Asks : stamp[m] <= clock
         /\ \A t \in adrift : pc[t] \in {"store", "save", "reply", "done"} /\ (lock = t => pc[t] = "reply")
<1> USE IdsAssumption, ChannelAssumption DEF SInv, Serial, GInv, TypeOK
<1>1. Turns = Asks /\ Messages = Asks /\ Chatter = {} /\ Jobs = {} /\ NoTurn \notin Asks
  BY DEF Turns, Messages
<1>2. Lock = "first" /\ (Group => ~Web)
  OBVIOUS
<1>3. session \in Conversation /\ session.at \in Nat /\ session.said \subseteq Asks
  BY <1>1 DEF Conversation
<1> QED
  BY <1>1, <1>2, <1>3 DEF Stamps, Adrift, Stages

\* The turn that holds the lock is the only live one.
LEMMA Excluded ==
  ASSUME SInv, NEW t \in Asks, pc[t] \notin {"lock", "done"}, t \notin adrift
  PROVE  lock = t /\ Live = {t}
BY DEF SInv, Rest, Alone, Live

LEMMA NobodyIn ==
  ASSUME SInv, lock \notin Live
  PROVE  Live = {}
BY DEF SInv, Rest, Alone

\* A step that changes only where turns are, and brings no turn to life.
LEMMA RestKept ==
  ASSUME SInv, Alone', Live' \subseteq Live, hidden \subseteq hidden',
         UNCHANGED <<clock, stamp, stored, answers, replied, session, said, told, since, saving, wiped, late>>,
         \A u \in Asks : \/ pc'[u] \in {"done", pc[u]} \/ (pc[u] = "source" /\ pc'[u] = "load")
                         \/ pc'[u] = "reply" /\ pc[u] \notin {"lock", "stamp", "done"}
  PROVE  Rest'
<1>s. Alone /\ Past /\ Own /\ Newest /\ Whole /\ NoneForgotten
  BY DEF SInv, Rest
<1>l. \A u \in Live' : u \in Asks /\ u \in Live /\ (pc'[u] \in {"reply", pc[u]} \/ (pc[u] = "source" /\ pc'[u] = "load"))
  BY DEF Live
<1>1. Past' /\ Own'
  BY <1>s, <1>l DEF Past, Own
<1>2. Newest'
  BY <1>s, <1>l DEF Newest
<1>3. Whole' /\ NoneForgotten'
  BY <1>s, <1>l DEF Whole, Picked, NoneForgotten, NoMessageForgotten
<1> QED
  BY <1>1, <1>2, <1>3 DEF Rest

LEMMA ReceiveStep ==
  ASSUME SInv, NEW t \in Asks, TakeLock(t) \/ Stamp(t) \/ Store(t)
  PROVE  Rest'
<1>s. Alone /\ Past /\ Own /\ Newest /\ Whole /\ NoneForgotten
  BY DEF SInv, Rest
<1>t. UNCHANGED <<session, answers, replied, said, told, since, saving, adrift, hidden, wiped>>
  BY DEF TakeLock, Stamp, Store, table, context, stop, dropped, history
<1>1. CASE TakeLock(t)
  <2>1. /\ pc[t] = "lock" /\ lock = NoTurn /\ lock' = t /\ pc' = [pc EXCEPT ![t] = "stamp"]
        /\ UNCHANGED <<clock, stamp, stored, late>>
    BY <1>1, SerialTypes DEF TakeLock, Goto, receipt, table, history
  <2>2. Live = {}
    BY <2>1, SerialTypes, NobodyIn DEF Live
  <2>3. Live' \subseteq {t} /\ pc'[t] = "stamp"
    BY <1>t, <2>1, <2>2, SerialTypes DEF Live
  <2>4. Alone' /\ Past' /\ Own'
    BY <1>s, <1>t, <2>1, <2>3, SerialTypes DEF Alone, Past, Own
  <2>5. Newest' /\ Whole' /\ NoneForgotten'
    BY <1>s, <1>t, <2>1, <2>3, SerialTypes DEF Newest, Whole, NoneForgotten, NoMessageForgotten
  <2> QED
    BY <2>4, <2>5 DEF Rest
<1>2. CASE Stamp(t)
  <2>1. /\ pc[t] = "stamp" /\ pc' = [pc EXCEPT ![t] = "store"]
        /\ clock' = clock + 1 /\ stamp' = [stamp EXCEPT ![t] = clock + 1]
        /\ UNCHANGED <<lock, stored, late>>
    BY <1>2 DEF Stamp, Goto, Now, table, history
  <2>2. lock = t /\ Live = {t} /\ t \notin adrift
    BY <2>1, SerialTypes, Excluded
  <2>3. Live' = {t} /\ pc'[t] = "store"
    BY <1>t, <2>1, <2>2, SerialTypes DEF Live
  <2>4. Alone'
    BY <1>s, <1>t, <2>1, <2>2, <2>3, SerialTypes DEF Alone
  <2>5. Past' /\ Own'
    BY <1>s, <1>t, <2>1, <2>3, SerialTypes DEF Past, Own
  <2>6. Newest' /\ Whole'
    BY <1>s, <1>t, <2>1, <2>3, SerialTypes DEF Newest, Whole
  <2>7. NoneForgotten'
    BY <1>s, <1>t, <2>1, SerialTypes DEF Past, NoneForgotten, NoMessageForgotten
  <2> QED
    BY <2>4, <2>5, <2>6, <2>7 DEF Rest
<1>3. CASE Store(t)
  <2>1. /\ pc[t] = "store" /\ UNCHANGED <<clock, stamp>> /\ late' = late \cup ({t} \cap adrift)
        /\ stored' = stored \cup {t} \/ stored' = stored
    BY <1>3 DEF Store, receipt
  <2>2. CASE t \in adrift
    <3>1. pc' = [pc EXCEPT ![t] = "done"] /\ lock' = lock
      BY <1>3, <2>2, SerialTypes DEF Store, AfterStore, Leave, Goto
    <3>2. Live' = Live /\ t \notin Live /\ \A u \in Asks \ {t} : pc'[u] = pc[u]
      BY <1>t, <2>2, <3>1, SerialTypes DEF Live
    <3>3. Alone' /\ Past' /\ Own'
      BY <1>s, <1>t, <2>1, <2>2, <3>1, <3>2, SerialTypes DEF Alone, Past, Own
    <3>4. Newest'
      BY <1>s, <1>t, <2>1, <2>2, <3>1, <3>2, SerialTypes DEF Newest
    <3>5. Picked' \subseteq Picked
      BY <1>t, <2>1, <2>2 DEF Picked
    <3>6. Whole' /\ NoneForgotten'
      BY <1>s, <1>t, <2>1, <2>2, <3>2, <3>5, SerialTypes
      DEF Whole, Picked, NoneForgotten, NoMessageForgotten, Live
    <3> QED
      BY <3>3, <3>4, <3>6 DEF Rest
  <2>3. CASE t \notin adrift
    <3>1. lock = t /\ Live = {t}
      BY <2>1, <2>3, Excluded
    <3>2. \/ stored' = stored \cup {t} /\ pc' = [pc EXCEPT ![t] = "source"] /\ lock' = lock
          \/ stored' = stored /\ pc' = [pc EXCEPT ![t] = "done"] /\ lock' = NoTurn
      BY <1>3, <2>3, <3>1, SerialTypes DEF Store, AfterStore, Leave, Goto
    <3>3. /\ Live' \subseteq {t} /\ pc'[t] \in {"source", "done"}
          /\ Live' # {} => pc'[t] = "source" /\ t \in stored'
      BY <1>t, <3>1, <3>2, SerialTypes DEF Live
    <3>4. Alone' /\ Past' /\ Own'
      BY <1>s, <1>t, <2>1, <2>3, <3>1, <3>2, <3>3, SerialTypes DEF Alone, Past, Own
    <3>5. Newest' /\ Whole'
      BY <1>s, <1>t, <2>1, <2>3, <3>1, <3>3, SerialTypes DEF Newest, Whole
    <3>6. NoneForgotten'
      BY <1>s, <1>t, <2>1, <2>3, <3>1, SerialTypes DEF Newest, NoneForgotten, NoMessageForgotten
    <3> QED
      BY <3>4, <3>5, <3>6 DEF Rest
  <2> QED
    BY <2>2, <2>3
<1> QED
  BY <1>1, <1>2, <1>3

\* A turn that reads, or goes on or ends without writing.
LEMMA ReadStep ==
  ASSUME SInv, NEW t \in Asks,
         Begin(t) \/ FastPath(t) \/ Load(t) \/ Append(t) \/ FromHistory(t) \/ Fail(t)
  PROVE  Rest'
<1>s. Alone /\ Past /\ Own /\ Newest /\ Whole /\ NoneForgotten
  BY DEF SInv, Rest
<1>0. UNCHANGED <<clock, stamp, stored, answers, replied, session, saving, adrift, hidden, wiped, late>>
  BY DEF Begin, FastPath, Load, Append, FromHistory, Fail, receipt, table, stop, dropped, history
<1>n. NoneForgotten'
  BY <1>s, <1>0, SerialTypes DEF NoneForgotten, NoMessageForgotten
<1>x. pc[t] \in {"source", "load", "new", "run"} /\ t \notin adrift /\ lock = t /\ Live = {t}
  <2>1. pc[t] \in {"source", "load", "new", "run"}
    BY DEF Begin, FastPath, Load, Append, FromHistory, Fail
  <2>2. t \notin adrift
    BY <2>1, SerialTypes
  <2> QED
    BY <2>1, <2>2, Excluded
<1>1. CASE Begin(t) \/ FastPath(t) \/ Fail(t)
  <2>1. /\ UNCHANGED <<said, told, since>>
        /\ \/ pc[t] = "source" /\ pc' = [pc EXCEPT ![t] = "load"] /\ lock' = lock
           \/ pc' = [pc EXCEPT ![t] = "reply"] /\ lock' = lock
           \/ pc' = [pc EXCEPT ![t] = "done"] /\ lock' = NoTurn
    BY <1>1, <1>x DEF Begin, FastPath, Fail, Leave, Goto, context
  <2>2. Live' \subseteq Live /\ Alone'
    BY <1>s, <1>0, <1>x, <2>1, SerialTypes DEF Alone, Live
  <2> QED
    BY <1>0, <1>x, <2>1, <2>2, SerialTypes, RestKept
<1>2. CASE Load(t)
  <2>1. /\ pc[t] = "load" /\ pc' = [pc EXCEPT ![t] = "new"] /\ lock' = lock
        /\ said' = [said EXCEPT ![t] = session.said] /\ told' = [told EXCEPT ![t] = session.told]
        /\ since' = [since EXCEPT ![t] = session.at]
    BY <1>2 DEF Load, Goto
  <2>2. Live' = {t}
    BY <1>0, <1>x, <2>1, SerialTypes DEF Live
  <2>3. Alone' /\ Past' /\ Own'
    BY <1>s, <1>0, <1>x, <2>1, <2>2, SerialTypes DEF Alone, Past, Own
  <2>4. Newest'
    BY <1>s, <1>0, <1>x, <2>1, <2>2, SerialTypes DEF Newest
  <2>5. Whole'
    BY <1>s, <1>0, <1>x, <2>1, <2>2, SerialTypes DEF Whole, Picked, NoneForgotten, NoMessageForgotten
  <2> QED
    BY <1>n, <2>3, <2>4, <2>5 DEF Rest
<1>3. CASE Append(t)
  <2>1. /\ pc[t] = "new" /\ pc' = [pc EXCEPT ![t] = "run"] /\ lock' = lock
        /\ said' = [said EXCEPT ![t] = said[t] \cup NewSince(t)]
        /\ said[t] \cup told[t] # {} /\ UNCHANGED <<told, since>>
    BY <1>3, SerialTypes DEF Append, Goto, Prompt
  <2>2. Live' = {t}
    BY <1>0, <1>x, <2>1, SerialTypes DEF Live
  <2>3. NewSince(t) = {m \in stored \ hidden : stamp[m] > since[t]}
    BY DEF NewSince
  <2>4. t \in late \/ t \in hidden \/ t \in NewSince(t)
    BY <1>s, <1>x, <2>1, <2>3 DEF Own, Newest
  <2>5. Alone' /\ Past' /\ Own'
    BY <1>s, <1>0, <1>x, <2>1, <2>2, <2>3, <2>4, SerialTypes DEF Alone, Past, Own
  <2>6. Newest'
    BY <1>s, <1>0, <1>x, <2>1, <2>2, SerialTypes DEF Newest
  <2>7. Whole'
    BY <1>s, <1>0, <1>x, <2>1, <2>2, <2>3, SerialTypes DEF Whole, Picked
  <2> QED
    BY <1>n, <2>5, <2>6, <2>7 DEF Rest
<1>4. CASE FromHistory(t)
  <2>1. /\ pc[t] = "new" /\ lock' = lock /\ said[t] \cup told[t] = {} /\ UNCHANGED since
        /\ pc' = [pc EXCEPT ![t] = "run"] \/ pc' = [pc EXCEPT ![t] = "reply"]
        /\ said' = [said EXCEPT ![t] = HistorySaid] /\ told' = [told EXCEPT ![t] = HistoryTold]
    BY <1>4, SerialTypes DEF FromHistory, Goto, Prompt
  <2>2. Live' = {t}
    BY <1>0, <1>x, <2>1, SerialTypes DEF Live
  <2>3. HistorySaid \subseteq stored /\ (~Group => HistorySaid = stored \ hidden)
    BY DEF HistorySaid
  <2>4. t \in late \/ t \in hidden \/ t \in HistorySaid
    BY <1>s, <1>x, <2>1, SerialTypes DEF HistorySaid, LastAnswer, Own, Newest
  <2>5. t \in late \/ (session.said = {} /\ session.told = {})
    BY <1>s, <1>x, <2>1 DEF Newest
  <2>6. HistorySaid \in SUBSET Asks /\ HistoryTold \in SUBSET Asks
    BY <2>3, SerialTypes DEF HistoryTold, LastAnswer
  <2>7. Alone' /\ Past' /\ Own'
    BY <1>s, <1>0, <1>x, <2>1, <2>2, <2>3, <2>4, <2>6, SerialTypes DEF Alone, Past, Own
  <2>8. Newest'
    BY <1>s, <1>0, <1>x, <2>1, <2>2, <2>5, SerialTypes DEF Newest
  <2>9. Whole'
    BY <1>0, <1>x, <2>1, <2>2, <2>3, SerialTypes DEF Whole, Picked
  <2> QED
    BY <1>n, <2>7, <2>8, <2>9 DEF Rest
<1> QED
  BY <1>1, <1>2, <1>3, <1>4

\* The save of a turn that was dropped: every live turn whose message has its time, and
\* every stored message, is in what is saved, or is overtaken by it.
LEMMA LateSaveStep ==
  ASSUME SInv, NEW t \in Asks, Save(t), t \in adrift
  PROVE  Rest'
<1>s. Alone /\ Past /\ Own /\ Newest /\ Whole /\ NoneForgotten
  BY DEF SInv, Rest
<1>1. /\ t \in saving /\ saving' = saving \ {t}
      /\ UNCHANGED <<stamp, stored, answers, replied, lock, said, told, since, adrift, hidden, wiped>>
      /\ \/ /\ clock' = clock + 1 /\ session' = [said |-> said[t], told |-> told[t], at |-> clock + 1]
            /\ late' = late \cup Overtaken(t)
         \/ UNCHANGED <<clock, session, late>>
      /\ pc' = [pc EXCEPT ![t] = IF pc[t] # "save" THEN pc[t] ELSE "done"]
  BY DEF Save, AfterSave, Now, table, context, stop, dropped
<1>2. Live' = Live /\ t \notin Live /\ \A u \in Asks \ {t} : pc'[u] = pc[u]
  BY <1>1, SerialTypes DEF Live
<1>3. Overtaken(t) = {m \in Asks : stamp[m] > 0 /\ m \notin said[t]} \cup (said[t] \cap wiped)
  BY SerialTypes DEF Overtaken
<1>4. \A u \in Live : pc[u] # "stamp" => u \in Overtaken(t)
  BY <1>s, <1>1, <1>2, <1>3 DEF Past, Own, Live
<1>5. \A m \in stored : m \in said[t] \/ m \in Overtaken(t)
  BY <1>s, <1>3, SerialTypes DEF Past
<1>6. Alone'
  BY <1>s, <1>1, <1>2, SerialTypes DEF Alone
<1>7. Past' /\ Own'
  BY <1>s, <1>1, <1>2, <1>3, SerialTypes DEF Past, Own
<1>8. Newest'
  <2>1. CASE UNCHANGED <<clock, session, late>>
    BY <1>s, <1>1, <1>2, <2>1 DEF Newest
  <2>2. CASE clock' = clock + 1 /\ session'.at = clock + 1 /\ late' = late \cup Overtaken(t)
    <3>1. \A u \in Live' \ late' : pc'[u] = "stamp"
      BY <1>2, <1>4, <2>2 DEF Live
    <3> QED
      BY <1>s, <1>1, <1>2, <2>2, <3>1, SerialTypes DEF Newest
  <2> QED
    BY <1>1, <2>1, <2>2
<1>9. Whole'
  BY <1>s, <1>1, <1>2 DEF Whole, Picked
<1>10. NoneForgotten'
  <2>1. CASE UNCHANGED session
    BY <1>s, <1>1, <2>1 DEF NoneForgotten, NoMessageForgotten
  <2>2. CASE session'.said = said[t] /\ late' = late \cup Overtaken(t)
    BY <1>1, <1>5, <2>2 DEF NoneForgotten, NoMessageForgotten
  <2> QED
    BY <1>1, <2>1, <2>2
<1> QED
  BY <1>6, <1>7, <1>8, <1>9, <1>10 DEF Rest

\* A turn that has its answer, saves the conversation and replies.
LEMMA WriteStep ==
  ASSUME SInv, NEW t \in Asks, Answer(t) \/ Save(t) \/ Reply(t)
  PROVE  Rest'
<1>s. Alone /\ Past /\ Own /\ Newest /\ Whole /\ NoneForgotten
  BY DEF SInv, Rest
<1>0. UNCHANGED <<stamp, stored, said, since, adrift, hidden, wiped>>
  BY DEF Answer, Save, Reply, receipt, table, context, stop, dropped, history
<1>1. CASE Answer(t)
  <2>1. /\ pc[t] = "run" /\ pc' = [pc EXCEPT ![t] = "save"]
        /\ told' = [told EXCEPT ![t] = told[t] \cup {t}] /\ saving' = saving \cup {t}
        /\ UNCHANGED <<clock, answers, replied, session, lock, late>>
    BY <1>1 DEF Answer, Goto, receipt, table, history
  <2>2. Live = {t} /\ lock = t /\ t \notin adrift
    BY <2>1, SerialTypes, Excluded
  <2>3. Live' = {t}
    BY <1>0, <2>1, <2>2, SerialTypes DEF Live
  <2>4. Alone' /\ Past' /\ Own'
    BY <1>s, <1>0, <2>1, <2>2, <2>3, SerialTypes DEF Alone, Past, Own
  <2>5. Newest' /\ Whole'
    BY <1>s, <1>0, <2>1, <2>2, <2>3, SerialTypes DEF Newest, Whole, Picked
  <2>6. NoneForgotten'
    BY <1>s, <1>0, <2>1, SerialTypes DEF NoneForgotten, NoMessageForgotten
  <2> QED
    BY <2>4, <2>5, <2>6 DEF Rest
<1>2. CASE Save(t) /\ t \notin adrift
  <2>1. /\ pc[t] = "save" /\ pc' = [pc EXCEPT ![t] = "reply"] /\ saving' = saving \ {t}
        /\ UNCHANGED <<answers, replied, lock, told, late>>
        /\ \/ clock' = clock + 1 /\ session' = [said |-> said[t], told |-> told[t], at |-> clock + 1]
           \/ UNCHANGED <<clock, session>>
    BY <1>s, <1>2 DEF Save, AfterSave, Overtaken, Now, Alone, table, context
  <2>2. Live = {t} /\ lock = t
    BY <1>2, <2>1, Excluded
  <2>3. Live' = {t} /\ pc'[t] = "reply"
    BY <1>0, <1>2, <2>1, <2>2, SerialTypes DEF Live
  <2>4. Alone' /\ Past' /\ Own'
    BY <1>s, <1>0, <1>2, <2>1, <2>2, <2>3, SerialTypes DEF Alone, Past, Own
  <2>5. Newest' /\ Whole'
    BY <1>s, <1>0, <2>1, <2>3, SerialTypes DEF Newest, Whole
  <2>6. NoneForgotten'
    BY <1>s, <1>0, <2>1, <2>2, SerialTypes DEF Whole, Picked, NoneForgotten, NoMessageForgotten
  <2> QED
    BY <2>4, <2>5, <2>6 DEF Rest
<1>3. CASE Reply(t)
  <2>1. /\ pc[t] = "reply" /\ pc' = [pc EXCEPT ![t] = "done"]
        /\ lock' = IF lock = t THEN NoTurn ELSE lock
        /\ UNCHANGED <<saving, told, session, late>>
        /\ \/ /\ clock' = clock + 1 /\ answers' = answers \cup {t}
              /\ replied' = [replied EXCEPT ![t] = clock + 1]
           \/ UNCHANGED <<clock, answers, replied>>
    BY <1>3 DEF Reply, Leave, Goto, Now, context, history
  <2>2. Live' \subseteq Live \ {t} /\ \A u \in Asks \ {t} : pc'[u] = pc[u]
    BY <1>0, <2>1, SerialTypes DEF Live
  <2>3. Group => Live' = {}
    BY <1>s, <2>1, <2>2, SerialTypes DEF Alone
  <2>4. Alone'
    BY <1>s, <1>0, <2>1, <2>2, SerialTypes DEF Alone
  <2>5. Past' /\ Own'
    BY <1>s, <1>0, <2>1, <2>2, SerialTypes DEF Past, Own
  <2>6. Newest'
    BY <1>s, <1>0, <2>1, <2>2, <2>3, SerialTypes DEF Newest
  <2>7. Whole' /\ NoneForgotten'
    BY <1>s, <1>0, <2>1, <2>2 DEF Whole, Picked, NoneForgotten, NoMessageForgotten
  <2> QED
    BY <2>4, <2>5, <2>6, <2>7 DEF Rest
<1> QED
  BY <1>1, <1>2, <1>3, LateSaveStep

\* Commands wait until no turn is under way, but for a /stop off the web.
LEMMA CommandStep ==
  ASSUME SInv, \/ Clear \/ AbandonClear \/ LateClear \/ ApiReset \/ SaveSettings
               \/ AskStop \/ AbandonStop \/ Stop \/ UNCHANGED vars
  PROVE  Rest'
<1>s. Serial /\ Alone /\ Past /\ Own /\ Newest /\ Whole /\ NoneForgotten
  BY DEF SInv, Rest
<1>1. ~ApiReset /\ ~SaveSettings
  BY <1>s DEF Serial, ApiReset, SaveSettings, Command
<1>2. CASE Clear
  <2>1. /\ lock = NoTurn /\ UNCHANGED <<clock, stamp, replied, pc, lock, said, told, since, saving, adrift, hidden, late>>
        /\ stored' = {} /\ answers' = {} /\ session' = Empty /\ wiped' = wiped \cup session.said \cup stored
    BY <1>s, <1>2, SerialTypes DEF Serial, Clear, MayCommand, Command, Wipe, receipt, context, stop, dropped
  <2>2. Live = {} /\ Live' = {}
    BY <2>1, SerialTypes, NobodyIn DEF Live
  <2>3. Alone'
    BY <1>s, <2>1, <2>2 DEF Alone
  <2>4. Past' /\ Own' /\ Newest' /\ Whole' /\ NoneForgotten'
    BY <1>s, <2>1, <2>2, SerialTypes DEF Past, Own, Newest, Whole, NoneForgotten, NoMessageForgotten, Empty
  <2> QED
    BY <2>3, <2>4 DEF Rest
<1>3. CASE LateClear
  <2>1. /\ UNCHANGED <<clock, stamp, replied, pc, lock, said, told, since, saving, adrift, hidden>>
        /\ stored' = {} /\ answers' = {} /\ session' = Empty /\ wiped' = wiped \cup session.said \cup stored
        /\ late' = late \cup session.said \cup stored
    BY <1>3 DEF LateClear, Wipe, receipt, context, stop
  <2>2. Live' = Live
    BY <2>1 DEF Live
  <2>3. Alone' /\ Past' /\ Own'
    BY <1>s, <2>1, <2>2, SerialTypes DEF Alone, Past, Own, Empty
  <2>4. \A u \in Live' \ late' : pc[u] \notin {"source", "load", "new", "run", "save"}
    BY <1>s, <2>1, <2>2 DEF Own
  <2>5. \A u \in Live' : pc[u] = "store" => stamp[u] > 0
    BY <1>s, <2>2 DEF Past, Live
  <2>6. Newest'
    BY <1>s, <2>1, <2>2, <2>4, <2>5, SerialTypes DEF Newest, Empty
  <2>7. Whole' /\ NoneForgotten'
    BY <1>s, <2>1, <2>2 DEF Whole, Picked, NoneForgotten, NoMessageForgotten
  <2> QED
    BY <2>3, <2>6, <2>7 DEF Rest
<1>4. CASE AbandonClear \/ AskStop \/ AbandonStop \/ UNCHANGED vars
  <2>1. UNCHANGED <<clock, stamp, stored, answers, replied, session, pc, lock, said, told, since, saving,
                    adrift, hidden, wiped, late>>
    BY <1>4 DEF AbandonClear, AskStop, AbandonStop, vars, receipt, table, context, stop, dropped, history
  <2>2. Live' = Live
    BY <2>1 DEF Live
  <2>3. Alone'
    BY <1>s, <2>1, <2>2 DEF Alone
  <2> QED
    BY <2>1, <2>2, <2>3, RestKept
<1>5. CASE Stop
  <2>1. UNCHANGED <<clock, stamp, stored, answers, replied, session, lock, said, told, since, saving, wiped, late>>
    BY <1>5 DEF Stop, receipt, table, context, history
  <2>2. hidden \subseteq hidden' /\ adrift' = adrift \cup {u \in Stoppable : pc[u] = "save"}
    BY <1>5 DEF Stop
  <2>3. \A u \in Asks : pc'[u] = pc[u] \/ (u \in Stoppable /\ pc'[u] = "reply")
    BY <1>5, SerialTypes DEF Stop
  <2>4. \A u \in Stoppable : u \in Live /\ pc[u] \in {"load", "new", "run", "save"}
    BY SerialTypes DEF Stoppable, Registered, Live
  <2>5. Live' \subseteq Live
    BY <2>2, <2>3, <2>4 DEF Live
  <2>6. \A u \in Asks : u \in Stoppable /\ pc[u] = "save" => u \in adrift'
    BY <2>2
  <2>7. \A u \in Asks : u \in Stoppable => ~Web /\ lock = u
    BY <1>s, <1>5, <2>4, SerialTypes DEF Stop, MayCommand, Alone
  <2>8. Alone'
    BY <1>s, <2>1, <2>2, <2>3, <2>4, <2>5, SerialTypes DEF Alone
  <2> QED
    BY <2>1, <2>2, <2>3, <2>4, <2>5, <2>8, RestKept
<1> QED
  BY <1>1, <1>2, <1>3, <1>4, <1>5

\* The client of a handler goes away.
LEMMA AbandonStep ==
  ASSUME SInv, NEW t \in Asks, Abandon(t)
  PROVE  Rest'
<1>s. Alone
  BY DEF SInv, Rest
<1>1. /\ UNCHANGED <<clock, stamp, stored, answers, replied, session, said, told, since, saving, hidden, wiped, late>>
      /\ Web /\ t \notin adrift /\ lock' = IF lock = t THEN NoTurn ELSE lock
      /\ \/ adrift' = adrift \cup {t} /\ pc' = pc
         \/ pc[t] # "save" /\ adrift' = adrift /\ pc' = [pc EXCEPT ![t] = "done"]
  BY DEF Abandon, Goto, receipt, table, context, stop, history
<1>2. Live' = Live \ {t}
  BY <1>1, SerialTypes DEF Live
<1>3. Alone'
  BY <1>s, <1>1, <1>2, SerialTypes DEF Alone, Live
<1> QED
  BY <1>1, <1>2, <1>3, SerialTypes, RestKept

LEMMA SInvStep == SInv /\ [Next]_vars => SInv'
<1> SUFFICES ASSUME SInv, [Next]_vars PROVE SInv'
  OBVIOUS
<1>1. GInv' /\ Serial'
  BY GInvStep DEF SInv, Serial
<1>2. Rest'
  <2>1. Turns = Asks /\ Messages = Asks
    BY SerialTypes
  <2> QED
    BY <2>1, ReceiveStep, ReadStep, WriteStep, CommandStep, AbandonStep DEF Next, Turn
<1> QED
  BY <1>1, <1>2 DEF SInv

-----------------------------------------------------------------------------
(* The theorems *)

LEMMA GInvariant == Spec => []GInv
BY InitGInv, GInvStep, PTL DEF Spec

LEMMA SInvariant == Serial /\ Spec => []SInv
BY InitSInv, SInvStep, PTL DEF Spec

\* The conversation, its turns and the lock keep to their types, on every channel: the
\* holder of the lock is a turn that is neither waiting nor done.
THEOREM TypeCorrect == Spec => []TypeOK
<1>1. GInv => TypeOK
  BY DEF GInv
<1> QED
  BY <1>1, GInvariant, PTL

\* save_session_with_meta takes its mark after the messages it saves were received, and
\* get_new_user_messages_since therefore returns no message that the conversation has:
\* on every channel, with scheduled turns, stops, clears, settings and dropped handlers
\* in any order.
THEOREM NoMessageTwiceCorrect == Spec => []NoMessageTwice
<1>1. GInv => NoMessageTwice
  BY DEF GInv
<1> QED
  BY <1>1, GInvariant, PTL

\* Where the channel locks the chat first, a turn works on its own message: the lock
\* keeps every save, answer and clear out between the message's receipt and its load,
\* but for what a dropped turn (its client gone, or a stop) had handed to the blocking
\* pool. If a turn misses its message, the late write of one came across it.
THEOREM OwnMessageSeenCorrect == Serial /\ Spec => []OwnMessageSeen
<1>1. SInv => OwnMessageSeen
  BY SerialTypes DEF SInv, Rest, Own, OwnMessageSeen, Working
<1> QED
  BY <1>1, SInvariant, PTL

\* There, and in a private chat, a save leaves no stored message behind its mark, but
\* for one that was stored, or that the save came across, after its turn was dropped.
THEOREM NoMessageForgottenCorrect == Serial /\ ~Group /\ Spec => []NoMessageForgotten
<1>1. SInv /\ ~Group => NoMessageForgotten
  BY DEF SInv, Rest, NoneForgotten
<1>2. ~Group => (~Group)'
  OBVIOUS
<1> QED
  BY <1>1, <1>2, SInvariant, PTL DEF Spec

\* There, what a command cleared is in the session again only if the write of a dropped
\* handler came late: that of a turn after a /clear, or that of the /clear itself.
THEOREM ClearedStaysClearedCorrect == Serial /\ Spec => []ClearedStaysCleared
<1>1. SInv => ClearedStaysCleared
  BY DEF SInv, Rest, Past, ClearedStaysCleared
<1> QED
  BY <1>1, SInvariant, PTL

\* There, a save keeps what was saved before, unless its turn was dropped, or the
\* late write of a dropped one was carried out since its message was received.
THEOREM SaveKeepsCorrect == Serial /\ Spec => SaveKeeps
<1>1. SInv /\ [Next]_vars =>
        [\A t \in Turns : Save(t) /\ t \notin adrift \cup late =>
           session.said \subseteq session'.said /\ session.told \subseteq session'.told]_vars
  <2> SUFFICES ASSUME SInv, NEW t \in Turns, Save(t), t \notin adrift \cup late
               PROVE  session.said \subseteq session'.said /\ session.told \subseteq session'.told
    OBVIOUS
  <2>1. t \in Live \ late /\ pc[t] = "save"
    BY SerialTypes DEF SInv, Rest, Alone, Save, Live
  <2>2. session.said \subseteq said[t] /\ session.told \subseteq told[t]
    BY <2>1 DEF SInv, Rest, Newest
  <2>3. session' = session \/ session' = [said |-> said[t], told |-> told[t], at |-> clock + 1]
    BY DEF Save
  <2> QED
    BY <2>2, <2>3
<1> QED
  BY <1>1, SInvariant, PTL DEF Spec, SaveKeeps

=============================================================================
