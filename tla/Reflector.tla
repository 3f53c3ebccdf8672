----------------------------- MODULE Reflector -----------------------------
(***************************************************************************)
(* The reflector of one chat, and the memory backend it writes through.    *)
(*                                                                         *)
(* Every process runs a reflector: `mchact start`, and `mchact acp`. A     *)
(* pass reads the messages after the chat's cursor, lists the memories,    *)
(* asks the model for the facts in the messages, writes them one by one    *)
(* and moves the cursor. With a memory MCP server attached, each call goes *)
(* to the server, and to the database when that fails; the failures are    *)
(* counted, and too many of them pause the reflector's writes.             *)
(*                                                                         *)
(* A message is named by its timestamp and contains at most one fact; no   *)
(* fact takes another's place (supersession is left out). A call of the    *)
(* server is not repeated by the MCP client (max_retries is 0 by default). *)
(***************************************************************************)
EXTENDS Integers, FiniteSets

CONSTANTS
  Procs,        \* processes with a reflector
  Probing,      \* those that probe the memory server when they start
  External,     \* a memory MCP server is attached
  Bootstrap,    \* messages of the first pass (30)
  Batch,        \* messages of a later pass (200)
  PauseAfter,   \* consecutive failures that pause the writes (3)
  MaxMessages,  \* bound: messages of the chat
  MaxFaults,    \* bound: failing calls of the server and of the model
  MaxDbFaults,  \* bound: failing database writes
  MaxCrashes    \* bound: crashes

ASSUME ReflectorAssumption ==
  /\ IsFiniteSet(Procs) /\ Probing \subseteq Procs /\ External \in BOOLEAN
  /\ Bootstrap \in Nat \ {0} /\ Batch \in Nat \ {0} /\ PauseAfter \in Nat \ {0}
  /\ MaxMessages \in Nat /\ MaxFaults \in Nat /\ MaxDbFaults \in Nat /\ MaxCrashes \in Nat

Messages == 1 .. MaxMessages
Stores   == {"mcp", "db"}
Primary  == IF External THEN "mcp" ELSE "db"

VARIABLES
  clock,     \* messages received so far: the last has this timestamp
  stored,    \* those in the messages table
  active,    \* get_active_chat_ids_since finds the chat
  cursor,    \* memory_reflector_state.last_reflected_ts; 0: no row
  rows,      \* memories: how many rows each store has of the fact of a message
  pc,        \* where the reflector of each process is
  batch,     \* the messages of its pass
  facts,     \* the facts extracted from them
  todo,      \* those it has still to write
  known,     \* the facts in the list of memories it has read
  from,      \* the store that list came from
  ran, probeOk, failures,  \* MemoryBackendStats of each process
  faults, dbFaults, crashes,  \* how much of each bound is used
  handled,   \* history: messages whose pass was carried through
  excused,   \* history: messages stored late, or too old for the first pass
  lost,      \* history: facts no store would take, or overwritten under a wrong id
  fellBack   \* history: a list of memories came from the database

messages == <<clock, stored, active>>
pass     == <<batch, facts, todo, known, from>>
health   == <<ran, probeOk, failures>>
bounds   == <<faults, dbFaults, crashes>>
history  == <<handled, excused, lost, fellBack>>
vars     == <<messages, cursor, rows, pc, pass, health, bounds, history>>

TypeOK ==
  /\ clock \in 0 .. MaxMessages /\ stored \subseteq 1 .. clock /\ active \in BOOLEAN
  /\ cursor \in 0 .. clock
  /\ rows \in [Stores -> [Messages -> Nat]]
  /\ pc \in [Procs -> {"down", "idle", "read", "list", "model", "apply", "cursor"}]
  /\ batch \in [Procs -> SUBSET Messages] /\ facts \in [Procs -> SUBSET Messages]
  /\ todo \in [Procs -> SUBSET Messages]
  /\ \A p \in Procs : batch[p] \subseteq stored /\ facts[p] \subseteq batch[p] /\ todo[p] \subseteq facts[p]
  /\ known \in [Procs -> SUBSET Messages] /\ from \in [Procs -> Stores]
  /\ ran \in [Procs -> BOOLEAN] /\ probeOk \in [Procs -> BOOLEAN]
  /\ failures \in [Procs -> Nat]
  /\ faults \in Nat /\ dbFaults \in Nat /\ crashes \in Nat
  /\ handled \subseteq Messages
  /\ excused \subseteq Messages /\ lost \subseteq Messages /\ fellBack \in BOOLEAN

Init ==
  /\ clock = 0 /\ stored = {} /\ active = FALSE
  /\ cursor = 0
  /\ rows = [s \in Stores |-> [m \in Messages |-> 0]]
  /\ pc = [p \in Procs |-> "down"]
  /\ batch = [p \in Procs |-> {}] /\ facts = [p \in Procs |-> {}]
  /\ todo = [p \in Procs |-> {}] /\ known = [p \in Procs |-> {}]
  /\ from = [p \in Procs |-> "db"]
  /\ ran = [p \in Procs |-> FALSE] /\ probeOk = [p \in Procs |-> FALSE]
  /\ failures = [p \in Procs |-> 0]
  /\ faults = 0 /\ dbFaults = 0 /\ crashes = 0
  /\ handled = {} /\ excused = {} /\ lost = {} /\ fellBack = FALSE

Goto(p, where) == pc' = [pc EXCEPT ![p] = where]
Fault   == faults < MaxFaults /\ faults' = faults + 1
DbFault == dbFaults < MaxDbFaults /\ dbFaults' = dbFaults + 1
Newest(S) == CHOOSE m \in S : \A n \in S : n <= m

-----------------------------------------------------------------------------
(* The chat *)

\* A message gets its timestamp, and later its row.
Receive ==
  /\ clock < MaxMessages
  /\ clock' = clock + 1 /\ active' = TRUE
  /\ UNCHANGED <<stored, cursor, rows, pc, pass, health, bounds, history>>

StoreMessage(m) ==
  /\ m <= clock /\ m \notin stored
  /\ stored' = stored \cup {m}
  /\ excused' = IF \E n \in stored : n > m THEN excused \cup {m} ELSE excused
  /\ UNCHANGED <<clock, active, cursor, rows, pc, pass, health, bounds, handled, lost, fellBack>>

\* The last message is older than two intervals.
Quieten ==
  /\ active /\ active' = FALSE
  /\ UNCHANGED <<clock, stored, cursor, rows, pc, pass, health, bounds, history>>

-----------------------------------------------------------------------------
(* MemoryBackend *)

\* A mutant of Succeeded: the failures are counted on.
SucceededCountsOn(p) == ran' = [ran EXCEPT ![p] = TRUE] /\ UNCHANGED failures

\* record_primary_success and record_primary_failure.
Succeeded(p) ==
  /\ ran' = [ran EXCEPT ![p] = TRUE]
  /\ failures' = [failures EXCEPT ![p] = 0]

Failed(p) ==
  /\ ran' = [ran EXCEPT ![p] = TRUE]
  /\ failures' = [failures EXCEPT ![p] = IF @ < PauseAfter THEN @ + 1 ELSE @]

\* should_pause_reflector_writes.
Paused(p) == External /\ ((ran[p] /\ ~probeOk[p]) \/ failures[p] >= PauseAfter)

\* run_startup_health_check, which only `mchact start` calls; then the reflector
\* is spawned, with counters of its own.
StartProc(p) ==
  /\ pc[p] = "down"
  /\ Goto(p, "idle")
  /\ IF External /\ p \in Probing
       THEN \/ Succeeded(p) /\ probeOk' = [probeOk EXCEPT ![p] = TRUE] /\ UNCHANGED faults
            \/ Fault /\ Failed(p) /\ UNCHANGED probeOk
       ELSE UNCHANGED <<health, faults>>
  /\ UNCHANGED <<messages, cursor, rows, pass, dbFaults, crashes, history>>

\* A turn of the process uses the memories.
Foreground(p) ==
  /\ pc[p] # "down" /\ External
  /\ \/ Succeeded(p) /\ UNCHANGED faults
     \/ Fault /\ Failed(p)
  /\ UNCHANGED <<messages, cursor, rows, pc, pass, probeOk, dbFaults, crashes, history>>

\* What a pass has in memory ends with it.
Forget(p) ==
  /\ batch' = [batch EXCEPT ![p] = {}] /\ facts' = [facts EXCEPT ![p] = {}]
  /\ todo' = [todo EXCEPT ![p] = {}] /\ known' = [known EXCEPT ![p] = {}]
  /\ from' = [from EXCEPT ![p] = "db"]

Crash(p) ==
  /\ pc[p] # "down" /\ crashes < MaxCrashes /\ crashes' = crashes + 1
  /\ Goto(p, "down")
  /\ Forget(p)
  /\ ran' = [ran EXCEPT ![p] = FALSE] /\ probeOk' = [probeOk EXCEPT ![p] = FALSE]
  /\ failures' = [failures EXCEPT ![p] = 0]
  /\ UNCHANGED <<messages, cursor, rows, faults, dbFaults, history>>

-----------------------------------------------------------------------------
(* run_reflector and reflect_for_chat *)

\* The interval is over, and the chat is among the active ones.
Tick(p) ==
  /\ pc[p] = "idle" /\ active
  /\ Goto(p, "read")
  /\ UNCHANGED <<messages, cursor, rows, pass, health, bounds, history>>

\* A mutant of Unread: the newest of the messages after the cursor.
UnreadNewest ==
  {m \in stored : m > cursor
     /\ Cardinality({n \in stored : n > m}) < (IF cursor = 0 THEN Bootstrap ELSE Batch)}

\* get_messages_since, or without a cursor get_recent_messages.
Unread ==
  IF cursor = 0
    THEN {m \in stored : Cardinality({n \in stored : n > m}) < Bootstrap}
    ELSE {m \in stored : m > cursor
            /\ Cardinality({n \in stored : n > cursor /\ n < m}) < Batch}

Read(p) ==
  /\ pc[p] = "read"
  /\ batch' = [batch EXCEPT ![p] = Unread]
  /\ excused' = IF cursor = 0 THEN excused \cup (stored \ Unread) ELSE excused
  /\ Goto(p, IF Unread = {} THEN "idle" ELSE "list")
  /\ UNCHANGED <<messages, cursor, rows, facts, todo, known, from, health, bounds, handled, lost, fellBack>>

\* get_all_memories_for_chat.
ListFrom(p, s) ==
  /\ known' = [known EXCEPT ![p] = {m \in Messages : rows[s][m] > 0}]
  /\ from' = [from EXCEPT ![p] = s]

List(p) ==
  /\ pc[p] = "list"
  /\ Goto(p, "model")
  /\ \/ External /\ Succeeded(p) /\ ListFrom(p, "mcp") /\ UNCHANGED <<faults, fellBack>>
     \/ External /\ Fault /\ Failed(p) /\ ListFrom(p, "db") /\ fellBack' = TRUE
     \/ ~External /\ ListFrom(p, "db") /\ UNCHANGED <<ran, failures, faults, fellBack>>
  /\ UNCHANGED <<messages, cursor, rows, batch, facts, todo, probeOk, dbFaults, crashes, handled, excused, lost>>

\* A mutant of Extract: a paused pass is taken for done.
ExtractDiscards(p) ==
  /\ pc[p] = "model"
  /\ \E F \in SUBSET batch[p] :
       /\ facts' = [facts EXCEPT ![p] = F]
       /\ todo' = [todo EXCEPT ![p] = IF Paused(p) THEN {} ELSE F]
       /\ Goto(p, IF F = {} \/ Paused(p) THEN "cursor" ELSE "apply")
  /\ UNCHANGED <<messages, cursor, rows, batch, known, from, health, bounds, history>>

\* The model names the facts; while the writes are paused the pass ends here.
Extract(p) ==
  /\ pc[p] = "model"
  /\ \E F \in SUBSET batch[p] :
       IF F # {} /\ Paused(p)
         THEN Goto(p, "idle") /\ Forget(p)
         ELSE /\ facts' = [facts EXCEPT ![p] = F] /\ todo' = [todo EXCEPT ![p] = F]
              /\ Goto(p, IF F = {} THEN "cursor" ELSE "apply")
              /\ UNCHANGED <<batch, known, from>>
  /\ UNCHANGED <<messages, cursor, rows, health, bounds, history>>

\* The call of the model fails, or its answer is no JSON array.
ExtractFails(p) ==
  /\ pc[p] = "model" /\ Fault
  /\ Goto(p, "idle") /\ Forget(p)
  /\ UNCHANGED <<messages, cursor, rows, health, dbFaults, crashes, history>>

\* A mutant of Effect: what is known is inserted again.
EffectInserts(R, p, m, s) == {[R EXCEPT ![s][m] = @ + 1]}

\* What a write of m does to the rows R of store s: a new fact is inserted; one
\* in the list is updated or touched under its id, which in another store than
\* the list's is the id of some other row, or of none.
Effect(R, p, m, s) ==
  IF m \notin known[p] THEN {[R EXCEPT ![s][m] = @ + 1]}
  ELSE {R} \cup (IF from[p] = s THEN {} ELSE
          {[R EXCEPT ![s][n] = @ - 1, ![s][m] = @ + 1] : n \in {n \in Messages \ {m} : R[s][n] > 0}})

\* One more fact of the pass is dealt with.
Written(p, m) ==
  /\ todo' = [todo EXCEPT ![p] = @ \ {m}]
  /\ Goto(p, IF todo[p] = {m} THEN "cursor" ELSE "apply")

Overwritten == {n \in Messages : \E s \in Stores : rows'[s][n] < rows[s][n]}

\* fallback_on_err: the server takes the write; or it fails, perhaps after it has
\* taken it, and the database does. When both fail the error is swallowed.
Apply(p) ==
  /\ pc[p] = "apply"
  /\ \E m \in todo[p] :
       /\ Written(p, m)
       /\ \/ External /\ Succeeded(p) /\ rows' \in Effect(rows, p, m, "mcp")
             /\ UNCHANGED <<faults, dbFaults>> /\ lost' = lost \cup Overwritten
          \/ /\ IF External THEN Fault /\ Failed(p) ELSE UNCHANGED <<ran, failures, faults>>
             /\ \E R \in {rows} \cup (IF External THEN Effect(rows, p, m, "mcp") ELSE {}) :
                  \/ rows' \in Effect(R, p, m, "db") /\ UNCHANGED dbFaults /\ lost' = lost \cup Overwritten
                  \/ DbFault /\ rows' = R /\ lost' = lost \cup Overwritten \cup {m}
  /\ UNCHANGED <<messages, cursor, batch, facts, known, from, probeOk, crashes, handled, excused, fellBack>>

\* set_reflector_cursor, to the last message of the batch; an error is dropped.
SetCursor(p) ==
  /\ pc[p] = "cursor"
  /\ \/ cursor' = Newest(batch[p]) /\ UNCHANGED dbFaults
     \/ DbFault /\ UNCHANGED cursor
  /\ handled' = handled \cup batch[p]
  /\ Goto(p, "idle") /\ Forget(p)
  /\ UNCHANGED <<messages, rows, health, faults, crashes, excused, lost, fellBack>>

-----------------------------------------------------------------------------
Reflect(p) ==
  Tick(p) \/ Read(p) \/ List(p) \/ Extract(p) \/ ExtractFails(p) \/ Apply(p) \/ SetCursor(p)

Next ==
  \/ Receive \/ Quieten
  \/ \E m \in Messages : StoreMessage(m)
  \/ \E p \in Procs : StartProc(p) \/ Foreground(p) \/ Crash(p) \/ Reflect(p)

Spec == Init /\ [][Next]_vars

\* What the process does of itself: every step but the end of the model's call.
Goes(p) == Tick(p) \/ Read(p) \/ List(p) \/ Apply(p) \/ SetCursor(p)

(* The loop of each reflector goes on, with the server too: a call of it ends *)
(* by its timeout. The call of the model has none, and may hang for ever; a   *)
(* call that panics leaves the loop where a hanging one does, as nothing      *)
(* starts the loop again. Nobody need write, or use the memories.             *)
FairSpec ==
  /\ Spec
  /\ \A p \in Procs : WF_vars(StartProc(p)) /\ WF_vars(Goes(p))

-----------------------------------------------------------------------------
(* Properties *)

\* The cursor passes over no message unread: a stored message at or before it was
\* in the batch of a pass that was carried through, unless it was stored after a
\* newer one, or was too old for the chat's first pass.
CursorCovers == \A m \in stored : m <= cursor => m \in handled \cup excused

\* When the cursor moves, the facts of the pass are in one of the stores, unless
\* both failed, or their row was overwritten by an update that went to another store
\* than the list its id was taken from.
FactsKept ==
  [][\A p \in Procs : SetCursor(p) =>
       \A m \in facts[p] : rows["mcp"][m] + rows["db"][m] > 0 \/ m \in lost]_vars

\* Passes that are repeated after a crash or a failed write of the cursor repeat no
\* row, even if the server had taken a write that it did not confirm: as long as one
\* process reflects and its lists come from one store, that store has one row of
\* each fact. (What falls back to the database may be written there again.)
OneRow ==
  Cardinality(Procs) = 1 /\ ~fellBack => \A m \in Messages : rows[Primary][m] <= 1

\* A stored message is reflected on while its chat stays active, unless the memory
\* server failed the probe at startup, or from some time on every reflector hangs in
\* its call of the model: one whose process is restarted, or that runs beside a hanging
\* one, catches up.
Reflected ==
  \A m \in Messages :
    \/ m \in stored ~> m <= cursor \/ m \in excused \/ ~active
                        \/ \E p \in Procs : ran[p] /\ ~probeOk[p]
    \/ <>[](\A p \in Procs : pc[p] = "model")

=============================================================================
