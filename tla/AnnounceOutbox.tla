-------------------------- MODULE AnnounceOutbox --------------------------
(***************************************************************************)
(* The completion announcements of sub-agent runs: the executor of a run   *)
(* puts its announcement into the table subagent_announces and flushes the *)
(* table once, the relay task flushes it periodically, and so does the     *)
(* tool subagents_retry_announces. A flush lists the due rows and then     *)
(* sends and marks them one by one, without a claim: two flushes that run  *)
(* at the same time may hold the same row.                                 *)
(*                                                                         *)
(* The clock is abstracted to the set of rows whose next_attempt_at has    *)
(* come. The chat is on a channel whose adapter sends (not a local one).   *)
(***************************************************************************)
EXTENDS Integers, Sequences, FiniteSets, SequencesExt

CONSTANTS
  Runs,         \* the runs, and their executors as flushers
  Relays,       \* the relay task; a call of subagents_retry_announces acts like another one
  Batch,        \* the LIMIT of a flush
  MaxAttempts,  \* 5 in the code: the failed attempt after which a row is given up
  MaxTroubles   \* bound: number of failing database calls and process crashes

ASSUME FlushersAssumption == IsFiniteSet(Runs) /\ IsFiniteSet(Relays) /\ Runs \cap Relays = {}
ASSUME BoundsAssumption ==
  /\ Batch \in Nat \ {0} /\ MaxAttempts \in Nat \ {0}
  /\ MaxTroubles \in Nat

Flushers == Runs \cup Relays

VARIABLES
  xpc,        \* where the executor of each run is
  queue,      \* the runs that have a row, in the order of the row ids
  row,        \* subagent_announces.status; "none": no row
  attempts,   \* subagent_announces.attempts
  due,        \* the rows whose next_attempt_at has come
  batch,      \* the rows the flush of f still has to handle, as it read them
  fpc,        \* where the flush of f is with the first of them
  sent,       \* history: how often the announcement was sent to the chat
  tries,      \* history: how often its delivery failed
  excuse,     \* history: overlaps, faults and crashes that may repeat a send
  faults, crashes   \* how much of the bound is used

table  == <<queue, row, attempts, due>>
flush  == <<batch, fpc>>
bounds == <<faults, crashes>>
past   == <<sent, tries, excuse>>
vars   == <<xpc, table, flush, past, bounds>>

Holding(f, r) == \E i \in DOMAIN batch[f] : batch[f][i].run = r

TypeOK ==
  /\ xpc \in [Runs -> {"run", "payload", "enqueue", "flush", "done"}]
  /\ queue \in Seq(Runs) /\ ToSet(queue) = {r \in Runs : row[r] # "none"} /\ IsInjective(queue)
  /\ row \in [Runs -> {"none", "pending", "retry", "sent", "failed"}]
  /\ attempts \in [Runs -> 0..MaxAttempts]
  /\ due \subseteq Runs
  /\ batch \in [Flushers -> Seq([run : Runs, attempts : 0..MaxAttempts])]
  /\ fpc \in [Flushers -> {"idle", "send", "ok", "err"}]
  /\ \A f \in Flushers : fpc[f] = "idle" <=> batch[f] = << >>
  /\ sent \in [Runs -> Nat] /\ tries \in [Runs -> Nat] /\ excuse \in [Runs -> Nat]

Init ==
  /\ xpc = [r \in Runs |-> "run"]
  /\ queue = << >>
  /\ row = [r \in Runs |-> "none"]
  /\ attempts = [r \in Runs |-> 0]
  /\ due = {}
  /\ batch = [f \in Flushers |-> << >>]
  /\ fpc = [f \in Flushers |-> "idle"]
  /\ sent = [r \in Runs |-> 0] /\ tries = [r \in Runs |-> 0] /\ excuse = [r \in Runs |-> 0]
  /\ faults = 0 /\ crashes = 0

Fault == faults + crashes < MaxTroubles /\ faults' = faults + 1

-----------------------------------------------------------------------------
(* The executor, after the run *)

Step(r, pc) == xpc' = [xpc EXCEPT ![r] = pc]

\* mark_subagent_finished has been written.
Finish(r) ==
  /\ xpc[r] = "run" /\ Step(r, "payload")
  /\ UNCHANGED <<table, flush, past, bounds>>

\* build_announce_payload reads the row; a failing read is logged and forgotten.
BuildPayload(r) ==
  /\ xpc[r] = "payload"
  /\ \/ Step(r, "enqueue") /\ UNCHANGED faults
     \/ Step(r, "done") /\ Fault
  /\ UNCHANGED <<table, flush, past, crashes>>

\* enqueue_subagent_announce; an error is dropped, and the flush follows anyway.
Enqueue(r) ==
  /\ xpc[r] = "enqueue" /\ Step(r, "flush")
  /\ \/ /\ row[r] = "none"
        /\ row' = [row EXCEPT ![r] = "pending"]
        /\ queue' = Append(queue, r)
        /\ due' = due \cup {r}
        /\ UNCHANGED faults
     \/ Fault /\ UNCHANGED <<queue, row, due>>
  /\ UNCHANGED <<attempts, flush, past, crashes>>

-----------------------------------------------------------------------------
(* flush_pending_announces_once *)

\* An executor flushes once, the others again and again.
Starts(f) == IF f \in Runs THEN xpc[f] = "flush" /\ Step(f, "done") ELSE UNCHANGED xpc

\* Mutants of DueRows: a row that was sent or given up is listed again, or a row
\* that failed once is not.
DueRowsOfAnyStatus == {r \in Runs : row[r] # "none" /\ r \in due}
DueRowsPending == {r \in Runs : row[r] = "pending" /\ r \in due}

\* The WHERE and the ORDER BY of list_due_subagent_announces.
DueRows == {r \in Runs : row[r] \in {"pending", "retry"} /\ r \in due}
Before(r, s) == \E i, j \in DOMAIN queue : i < j /\ queue[i] = r /\ queue[j] = s

\* The first due rows, up to the LIMIT.
DueBatches ==
  {b \in UNION {[1 .. n -> DueRows] : n \in 0 .. Batch} :
     /\ \A i, j \in DOMAIN b : i < j => Before(b[i], b[j])
     /\ \A r \in DueRows \ ToSet(b) : Len(b) = Batch /\ \A i \in DOMAIN b : Before(b[i], r)}

\* The list of f; each listed row that another flush holds may be sent twice.
List(f) ==
  /\ fpc[f] = "idle" /\ Starts(f)
  /\ \E b \in DueBatches :
       /\ batch' = [batch EXCEPT ![f] = [i \in DOMAIN b |-> [run |-> b[i], attempts |-> attempts[b[i]]]]]
       /\ fpc' = [fpc EXCEPT ![f] = IF b = << >> THEN "idle" ELSE "send"]
       /\ excuse' = [r \in Runs |->
            IF r \in ToSet(b) /\ \E g \in Flushers \ {f} : Holding(g, r) THEN excuse[r] + 1 ELSE excuse[r]]
  /\ UNCHANGED <<table, sent, tries, faults, crashes>>

ListFails(f) ==
  /\ fpc[f] = "idle" /\ Starts(f) /\ Fault
  /\ UNCHANGED <<table, flush, past, crashes>>

Goto(f, pc) == fpc' = [fpc EXCEPT ![f] = pc]

\* deliver_and_store_bot_message: the text is sent and stored, or it is not sent
\* (no adapter, a database error before the send, the channel refuses), or it is
\* sent and the message cannot be stored, which counts as a failure too.
Deliver(f) ==
  LET r == Head(batch[f]).run IN
  /\ fpc[f] = "send"
  /\ \/ Goto(f, "ok") /\ sent' = [sent EXCEPT ![r] = @ + 1] /\ UNCHANGED <<tries, excuse, faults>>
     \/ /\ Goto(f, "err")
        /\ tries' = [tries EXCEPT ![r] = @ + 1]
        /\ UNCHANGED <<sent, excuse, faults>>
     \/ /\ Goto(f, "err") /\ Fault
        /\ tries' = [tries EXCEPT ![r] = @ + 1]
        /\ sent' = [sent EXCEPT ![r] = @ + 1]
        /\ excuse' = [excuse EXCEPT ![r] = @ + 1]
  /\ UNCHANGED <<xpc, table, batch, crashes>>

\* A mutant of NextRow: the end of the batch is missed.
NextRowPastEnd(f) == batch' = [batch EXCEPT ![f] = Tail(@)] /\ Goto(f, "send")

NextRow(f) ==
  /\ batch' = [batch EXCEPT ![f] = Tail(@)]
  /\ Goto(f, IF Len(batch[f]) = 1 THEN "idle" ELSE "send")

\* mark_subagent_announce_sent; an error is dropped, and the row stays due.
MarkSent(f) ==
  LET r == Head(batch[f]).run IN
  /\ fpc[f] = "ok"
  /\ \/ row' = [row EXCEPT ![r] = "sent"] /\ UNCHANGED <<excuse, faults>>
     \/ Fault /\ excuse' = [excuse EXCEPT ![r] = @ + 1] /\ UNCHANGED row
  /\ NextRow(f)
  /\ UNCHANGED <<xpc, queue, attempts, due, sent, tries, crashes>>

\* A mutant of MarkRetry: the row is given up one attempt too early.
MarkRetryEarly(f) ==
  LET e == Head(batch[f]) IN
  /\ fpc[f] = "err"
  /\ row' = [row EXCEPT ![e.run] = IF e.attempts + 2 >= MaxAttempts THEN "failed" ELSE "retry"]
  /\ attempts' = [attempts EXCEPT ![e.run] = e.attempts + 1]
  /\ due' = due \ {e.run}
  /\ NextRow(f)
  /\ UNCHANGED <<xpc, queue, past, bounds>>

\* mark_subagent_announce_retry: the count read by the list, plus one, and the
\* status that follows from it are written whatever the row says by now.
MarkRetry(f) ==
  LET e == Head(batch[f]) IN
  /\ fpc[f] = "err"
  /\ \/ /\ row' = [row EXCEPT ![e.run] = IF e.attempts + 1 >= MaxAttempts THEN "failed" ELSE "retry"]
        /\ attempts' = [attempts EXCEPT ![e.run] = e.attempts + 1]
        /\ due' = IF e.attempts + 1 >= MaxAttempts THEN due \cup {e.run} ELSE due \ {e.run}
        /\ UNCHANGED faults
     \/ Fault /\ UNCHANGED <<row, attempts, due>>
  /\ NextRow(f)
  /\ UNCHANGED <<xpc, queue, past, crashes>>

\* The back-off of a row has passed.
Elapse(r) ==
  /\ r \notin due /\ row[r] # "none"
  /\ due' = due \cup {r}
  /\ UNCHANGED <<xpc, queue, row, attempts, flush, past, bounds>>

\* The process dies: executors and flushes are gone. A row that was sent and not
\* yet marked will be sent again.
Crash ==
  /\ faults + crashes < MaxTroubles /\ crashes' = crashes + 1
  /\ xpc' = [r \in Runs |-> IF xpc[r] = "run" THEN "run" ELSE "done"]
  /\ excuse' = [r \in Runs |-> excuse[r]
       + Cardinality({f \in Flushers : fpc[f] = "ok" /\ Head(batch[f]).run = r})]
  /\ batch' = [f \in Flushers |-> << >>]
  /\ fpc' = [f \in Flushers |-> "idle"]
  /\ UNCHANGED <<table, sent, tries, faults>>

-----------------------------------------------------------------------------
Execute(r) == Finish(r) \/ BuildPayload(r) \/ Enqueue(r)
Flush(f)   == List(f) \/ ListFails(f) \/ Deliver(f) \/ MarkSent(f) \/ MarkRetry(f)

Next ==
  \/ \E r \in Runs : Execute(r) \/ Elapse(r)
  \/ \E f \in Flushers : Flush(f)
  \/ Crash

Spec == Init /\ [][Next]_vars

(* The tasks of a live process go on, the relay ticks, and time passes. A   *)
(* send ends, one way or the other.                                         *)
FairSpec ==
  /\ Spec
  /\ \A r \in Runs : WF_vars(BuildPayload(r)) /\ WF_vars(Enqueue(r)) /\ WF_vars(Elapse(r))
  /\ \A f \in Flushers : WF_vars(Deliver(f)) /\ WF_vars(MarkSent(f)) /\ WF_vars(MarkRetry(f))
  /\ \A f \in Runs \cup Relays : WF_vars(List(f))

-----------------------------------------------------------------------------
(* Properties *)

\* An announcement is sent again only for a reason: each overlap of two flushes,
\* each failing call after the send and each crash before the mark can repeat it
\* once, and nothing else repeats it.
SentOnceUnlessExcused == \A r \in Runs : sent[r] <= 1 + excuse[r]

\* No announcement is given up early: concurrent flushes may write a stale count
\* of attempts, but never one above the number of deliveries that failed. And a
\* row that says 'sent' was sent.
GivenUpAfterTries ==
  \A r \in Runs :
    /\ row[r] = "failed" => tries[r] >= MaxAttempts
    /\ row[r] = "sent" => sent[r] >= 1

\* The announcement of an ended run is settled at last. Concurrent flushes may take
\* a row back from 'sent' or 'failed' to 'retry' and set its count of attempts back,
\* but not for ever; and only a crash or a failing call before the insert leaves a
\* run without a row. RFC 0005:74 "On completion, runtime sends summary message back
\* to parent chat" says so without the exception.
Settles ==
  \A r \in Runs :
    xpc[r] = "payload" ~>
      [](row[r] \in {"sent", "failed"} \/ (row[r] = "none" /\ faults + crashes > 0))

=============================================================================
