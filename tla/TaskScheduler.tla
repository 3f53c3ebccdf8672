--------------------------- MODULE TaskScheduler ---------------------------
(***************************************************************************)
(* The scheduled tasks of mchact: the scheduled_tasks and                  *)
(* scheduled_task_dlq tables, the scheduler loop of every process that     *)
(* opens the database (`mchact start` and `mchact acp` both spawn one),    *)
(* and the tools by which a chat schedules, pauses, resumes, cancels and   *)
(* replays tasks while the loop is working.                                *)
(*                                                                         *)
(* Every Database method holds the connection for its whole body, and the  *)
(* claim is one SQLite transaction, so a method is one atomic step.        *)
(* Between two methods anything else may happen.                           *)
(***************************************************************************)
EXTENDS Integers, Sequences, FiniteSets

CONSTANTS
  Tasks,        \* ids of scheduled_tasks; AUTOINCREMENT never reuses one
  Procs,        \* processes that run spawn_scheduler on the database
  BatchLimit,   \* the 200 of run_due_tasks
  ReplayLimit,  \* the limit of the replay tool
  UserOps,      \* which tools the chat uses
  MaxTime,      \* bound: last value of the clock
  MaxOps,       \* bound: number of tool calls that change an existing task
  MaxTroubles   \* bound: number of process crashes and failing database calls

AllOps == {"pause", "resume", "cancel", "replay", "reset", "delete"}

ASSUME TasksAssumption == Tasks \subseteq Nat
ASSUME BoundsAssumption ==
  /\ BatchLimit \in Nat \ {0} /\ ReplayLimit \in Nat \ {0}
  /\ MaxTime \in Nat /\ MaxOps \in Nat /\ MaxTroubles \in Nat
  /\ UserOps \subseteq AllOps

VARIABLES
  now,       \* wall clock, in scheduler ticks
  status,    \* scheduled_tasks.status; "none": not inserted, "deleted": row gone
  kind,      \* scheduled_tasks.schedule_type
  nextRun,   \* scheduled_tasks.next_run
  dlq,       \* scheduled_task_dlq, by id; state "pending" is replayed_at NULL
  pc,        \* where the scheduler loop of each process is; "dead": the loop has
             \* panicked, and the process goes on
  batch,     \* the claimed tasks the loop has not finished, first to run first
  rpc,       \* where the replay tool call of each process is
  rlist,     \* the entries (ids) that call still has to handle
  rnote,     \* its verdict on the entry it is handling
  rnow,      \* the time at which it began
  ops, crashes, faults,   \* how much of each bound is used
  reopened,  \* history: tasks set active again while some loop holds them
  stranded,  \* history: running rows whose holder crashed, panicked or failed to update them
  slotRuns   \* history: runs begun for the task's present next_run

tables == <<status, kind, nextRun, dlq>>
loops  == <<pc, batch>>
replay == <<rpc, rlist, rnote, rnow>>
bounds == <<ops, crashes, faults>>
hist   == <<reopened, stranded, slotRuns>>
vars   == <<now, tables, loops, replay, bounds, hist>>

Statuses == {"none", "active", "running", "paused", "cancelled", "completed", "deleted"}
Row      == {t \in Tasks : status[t] \notin {"none", "deleted"}}
Up(p)    == pc[p] # "down"
Elems(s) == {s[i] : i \in DOMAIN s}
Held     == UNION {Elems(batch[p]) : p \in Procs}

DlqEntry == [task : Tasks, state : {"pending", "queued", "skipped", "deleted"}]

TypeOK ==
  /\ now \in Nat
  /\ status \in [Tasks -> Statuses]
  /\ kind \in [Tasks -> {"cron", "once"}]
  /\ nextRun \in [Tasks -> Nat]
  /\ dlq \in Seq(DlqEntry)
  /\ pc \in [Procs -> {"down", "recover", "poll", "exec", "agent", "dlq", "update", "dead"}]
  /\ batch \in [Procs -> Seq(Tasks)]
  /\ rpc \in [Procs -> {"idle", "check", "requeue", "mark"}]
  /\ rlist \in [Procs -> Seq(Nat)]
  /\ rnote \in [Procs -> {"queued", "skipped"}]
  /\ rnow \in [Procs -> Nat]
  /\ ops \in Nat /\ crashes \in Nat /\ faults \in Nat
  /\ reopened \subseteq Tasks /\ stranded \subseteq Tasks
  /\ slotRuns \in [Tasks -> Nat]
  /\ \A p \in Procs : pc[p] \in {"exec", "agent", "dlq", "update"} <=> batch[p] # << >>
  /\ \A p \in Procs : rpc[p] # "idle" => rlist[p] # << >>

Init ==
  /\ now = 0
  /\ status = [t \in Tasks |-> "none"]
  /\ kind = [t \in Tasks |-> "once"]
  /\ nextRun = [t \in Tasks |-> 0]
  /\ dlq = << >>
  /\ pc = [p \in Procs |-> "down"]
  /\ batch = [p \in Procs |-> << >>]
  /\ rpc = [p \in Procs |-> "idle"]
  /\ rlist = [p \in Procs |-> << >>]
  /\ rnote = [p \in Procs |-> "queued"]
  /\ rnow = [p \in Procs |-> 0]
  /\ ops = 0 /\ crashes = 0 /\ faults = 0
  /\ reopened = {} /\ stranded = {}
  /\ slotRuns = [t \in Tasks |-> 0]

-----------------------------------------------------------------------------
(* Helpers *)

\* A call on the database returns Err and changes nothing.
DbFault == crashes + faults < MaxTroubles /\ faults' = faults + 1

\* A tool call is spent.
Op(o) == o \in UserOps /\ ops < MaxOps /\ ops' = ops + 1

\* The task's next_run becomes s: a new slot if s differs from the present one.
SetSlot(t, s) ==
  /\ nextRun' = [nextRun EXCEPT ![t] = s]
  /\ slotRuns' = IF s = nextRun[t] THEN slotRuns ELSE [slotRuns EXCEPT ![t] = 0]

\* Mutant of Due: the claim does not test the status for 'active' only.
DueOrRunning(t) == status[t] \in {"active", "running"} /\ nextRun[t] <= now

Due(t) == status[t] = "active" /\ nextRun[t] <= now
Before(a, b) == nextRun[a] < nextRun[b] \/ (nextRun[a] = nextRun[b] /\ a < b)

\* ORDER BY next_run, id LIMIT BatchLimit over the due rows.
DueBatches ==
  LET due == {t \in Tasks : Due(t)}
  IN {b \in UNION {[1 .. n -> due] : n \in 0 .. BatchLimit} :
        /\ \A i, j \in DOMAIN b : i < j => Before(b[i], b[j])
        /\ \A t \in due \ Elems(b) :
             Len(b) = BatchLimit /\ \A i \in DOMAIN b : Before(b[i], t)}

-----------------------------------------------------------------------------
(* The scheduler loop *)

\* The clock reaches the next tick.
Tick ==
  /\ now < MaxTime
  /\ now' = now + 1
  /\ UNCHANGED <<tables, loops, replay, bounds, hist>>

\* A process starts and spawns its scheduler.
Start(p) ==
  /\ pc[p] = "down"
  /\ pc' = [pc EXCEPT ![p] = "recover"]
  /\ UNCHANGED <<now, tables, batch, replay, bounds, hist>>

\* Mutant of Recover: the startup recovers nothing.
RecoverNothing(p) ==
  /\ pc[p] = "recover"
  /\ pc' = [pc EXCEPT ![p] = "poll"]
  /\ UNCHANGED <<now, tables, batch, replay, bounds, hist>>

\* Mutant of Recover: the UPDATE tests for rows that are not completed.
RecoverUncompleted(p) ==
  /\ pc[p] = "recover"
  /\ pc' = [pc EXCEPT ![p] = "poll"]
  /\ status' = [t \in Tasks |->
                  IF t \in Row /\ status[t] # "completed" THEN "active" ELSE status[t]]
  /\ UNCHANGED <<now, kind, nextRun, dlq, batch, replay, bounds, hist>>

\* recover_running_tasks: every running row is active again. An error is
\* dropped by the `if let Ok`, and the loop goes on.
Recover(p) ==
  /\ pc[p] = "recover"
  /\ pc' = [pc EXCEPT ![p] = "poll"]
  /\ \/ /\ status' = [t \in Tasks |-> IF status[t] = "running" THEN "active" ELSE status[t]]
        /\ reopened' = reopened \cup {t \in Held : status[t] = "running"}
        /\ stranded' = {}
        /\ UNCHANGED faults
     \/ DbFault /\ UNCHANGED <<status, reopened, stranded>>
  /\ UNCHANGED <<now, kind, nextRun, dlq, batch, replay, ops, crashes, slotRuns>>

\* claim_due_tasks at startup or on a tick: the first due rows become running
\* in one transaction. With none due, or on an error, the loop waits again.
Claim(p) ==
  /\ pc[p] = "poll"
  /\ \E b \in DueBatches :
       /\ b # << >>
       /\ batch' = [batch EXCEPT ![p] = b]
       /\ status' = [t \in Tasks |-> IF t \in Elems(b) THEN "running" ELSE status[t]]
  /\ pc' = [pc EXCEPT ![p] = "exec"]
  /\ UNCHANGED <<now, kind, nextRun, dlq, replay, bounds, hist>>

\* process_with_agent is called on the first task of the batch. The row is not
\* read again: the task runs whatever its status is by now.
BeginRun(p) ==
  /\ pc[p] = "exec"
  /\ pc' = [pc EXCEPT ![p] = "agent"]
  /\ slotRuns' = [slotRuns EXCEPT ![Head(batch[p])] = @ + 1]
  /\ UNCHANGED <<now, tables, batch, replay, bounds, reopened, stranded>>

\* Mutant of NextOfBatch: the end of the batch is not noticed.
NextOfBatchPastEnd(p) ==
  /\ batch' = [batch EXCEPT ![p] = Tail(@)]
  /\ pc' = [pc EXCEPT ![p] = "exec"]

\* The loop goes on with the rest of its batch.
NextOfBatch(p) ==
  /\ batch' = [batch EXCEPT ![p] = Tail(@)]
  /\ pc' = [pc EXCEPT ![p] = IF Tail(batch[p]) = << >> THEN "poll" ELSE "exec"]

\* Mutant of EndRun: a failed run goes on to the next task and is not updated.
EndRunSkipsUpdate(p) ==
  /\ pc[p] = "agent"
  /\ \/ pc' = [pc EXCEPT ![p] = "update"] /\ UNCHANGED batch
     \/ NextOfBatch(p)
  /\ UNCHANGED <<now, tables, replay, bounds, hist>>

\* The agent returned and its answer (or the error text) was sent, with at most
\* three attempts; the run succeeded if both did. It is logged either way.
EndRun(p) ==
  /\ pc[p] = "agent"
  /\ \E success \in BOOLEAN :
       pc' = [pc EXCEPT ![p] = IF success THEN "update" ELSE "dlq"]
  /\ UNCHANGED <<now, tables, batch, replay, bounds, hist>>

\* insert_scheduled_task_dlq for a failed run; an error is only logged.
InsertDlq(p) ==
  /\ pc[p] = "dlq"
  /\ pc' = [pc EXCEPT ![p] = "update"]
  /\ \/ /\ dlq' = Append(dlq, [task |-> Head(batch[p]), state |-> "pending"])
        /\ UNCHANGED faults
     \/ DbFault /\ UNCHANGED dlq
  /\ UNCHANGED <<now, status, kind, nextRun, batch, replay, ops, crashes, hist>>

\* Mutant of NextSlots: the present minute counts as the next slot.
NextSlotsInclusive == {s \in 0 .. MaxTime + 1 : s >= now}

\* The slots a cron expression can have after the present one.
NextSlots == {s \in 0 .. MaxTime + 1 : s > now}

\* update_task_after_run, Some(next): a cron task is active again, whatever its
\* status was.
UpdateCron(t) ==
  /\ kind[t] = "cron"
  /\ \E s \in NextSlots : SetSlot(t, s)
  /\ status' = [status EXCEPT ![t] = "active"]

\* Mutant of UpdateDone: the UPDATE matches the chat, not the id.
UpdateDoneOfChat(t) ==
  /\ status' = [u \in Tasks |-> IF u \in Row THEN "completed" ELSE status[u]]
  /\ UNCHANGED <<nextRun, slotRuns>>

\* update_task_after_run, None: a one-shot task, or a cron task without a
\* further slot, is completed, whatever its status was.
UpdateDone(t) ==
  /\ status' = [status EXCEPT ![t] = "completed"]
  /\ UNCHANGED <<nextRun, slotRuns>>

\* The UPDATE finds no row when the chat was reset meanwhile. When it fails the
\* row keeps the status it has.
UpdateAfterRun(p) ==
  LET t == Head(batch[p]) IN
  /\ pc[p] = "update"
  /\ NextOfBatch(p)
  /\ reopened' = reopened \cap UNION {Elems(batch'[q]) : q \in Procs}
  /\ \/ /\ t \in Row
        /\ UpdateCron(t) \/ UpdateDone(t)
        /\ stranded' = stranded \ {t}
        /\ UNCHANGED faults
     \/ t \notin Row /\ UNCHANGED <<status, nextRun, slotRuns, stranded, faults>>
     \/ /\ DbFault
        /\ stranded' = stranded \cup {t}
        /\ UNCHANGED <<status, nextRun, slotRuns>>
  /\ UNCHANGED <<now, kind, dlq, replay, ops, crashes>>

\* The loop is no more, and its batch with it.
LoseBatch(p, s) ==
  /\ pc' = [pc EXCEPT ![p] = s]
  /\ batch' = [batch EXCEPT ![p] = << >>]
  /\ stranded' = stranded \cup Elems(batch[p])
  /\ reopened' = reopened \cap UNION {Elems(batch'[q]) : q \in Procs}

\* The run panics. The loop is a bare task of the runtime, which nothing watches and
\* nothing starts again.
Panic(p) ==
  /\ pc[p] = "agent"
  /\ LoseBatch(p, "dead")
  /\ UNCHANGED <<now, tables, replay, bounds, slotRuns>>

\* The process dies, with whatever its loop and its tool call were doing.
Crash(p) ==
  /\ Up(p)
  /\ crashes + faults < MaxTroubles
  /\ crashes' = crashes + 1
  /\ LoseBatch(p, "down")
  /\ rpc' = [rpc EXCEPT ![p] = "idle"]
  /\ rlist' = [rlist EXCEPT ![p] = << >>]
  /\ rnote' = [rnote EXCEPT ![p] = "queued"]
  /\ rnow' = [rnow EXCEPT ![p] = 0]
  /\ UNCHANGED <<now, tables, ops, faults, slotRuns>>

-----------------------------------------------------------------------------
(* The tools. The status a tool reads before it writes is not used, so the  *)
(* read and the write are one step here, except in the replay tool.         *)

ProcessUp == \E p \in Procs : Up(p)

\* schedule_task: the next id, with a slot in the future (a one-shot timestamp
\* of the last minute is moved one minute ahead, an older one is refused).
Schedule(t, k, s) ==
  /\ ProcessUp
  /\ status[t] = "none" /\ \A u \in Tasks : u < t => status[u] # "none"
  /\ s > now
  /\ status' = [status EXCEPT ![t] = "active"]
  /\ kind' = [kind EXCEPT ![t] = k]
  /\ nextRun' = [nextRun EXCEPT ![t] = s]
  /\ UNCHANGED <<now, dlq, loops, replay, bounds, hist>>

\* update_task_status: unconditional on the status the row has.
SetStatus(o, t, st) ==
  /\ ProcessUp
  /\ t \in Row
  /\ Op(o)
  /\ status' = [status EXCEPT ![t] = st]
  /\ UNCHANGED <<now, kind, nextRun, dlq, loops, replay, crashes, faults, stranded>>

Pause(t)  == SetStatus("pause", t, "paused") /\ UNCHANGED <<reopened, slotRuns>>
Cancel(t) == SetStatus("cancel", t, "cancelled") /\ UNCHANGED <<reopened, slotRuns>>

\* Any row can be resumed, a completed or cancelled one too, which asks for its
\* slot again.
Resume(t) ==
  /\ SetStatus("resume", t, "active")
  /\ reopened' = reopened \cup ({t} \cap Held)
  /\ slotRuns' = IF t \in Held THEN slotRuns ELSE [slotRuns EXCEPT ![t] = 0]

\* clear_chat_context (/reset): the chat's tasks and DLQ entries are deleted.
Reset ==
  /\ ProcessUp
  /\ Op("reset")
  /\ status' = [t \in Tasks |-> IF t \in Row THEN "deleted" ELSE status[t]]
  /\ dlq' = [i \in DOMAIN dlq |-> [dlq[i] EXCEPT !.state = "deleted"]]
  /\ UNCHANGED <<now, kind, nextRun, loops, replay, crashes, faults, hist>>

\* delete_chat_data (deleting the web session): the tasks go, the DLQ stays.
DeleteChat ==
  /\ ProcessUp
  /\ Op("delete")
  /\ status' = [t \in Tasks |-> IF t \in Row THEN "deleted" ELSE status[t]]
  /\ UNCHANGED <<now, kind, nextRun, dlq, loops, replay, crashes, faults, hist>>

-----------------------------------------------------------------------------
(* The replay tool *)

\* The entries of these tasks that were not replayed yet.
Pending(S) == {i \in DOMAIN dlq : dlq[i].state = "pending" /\ dlq[i].task \in S}

\* list_scheduled_task_dlq: the newest ReplayLimit pending entries, newest first, of all
\* the chat's tasks or of the one the call names.
ReplayList(p) ==
  /\ Up(p) /\ rpc[p] = "idle"
  /\ Op("replay")
  /\ \E S \in {Tasks} \cup {{t} : t \in Tasks} :
       \E n \in 1 .. ReplayLimit : \E l \in [1 .. n -> Pending(S)] :
         /\ \A i, j \in 1 .. n : i < j => l[i] > l[j]
         /\ \A e \in Pending(S) \ Elems(l) : n = ReplayLimit /\ e < l[n]
         /\ rlist' = [rlist EXCEPT ![p] = l]
  /\ rpc' = [rpc EXCEPT ![p] = "check"]
  /\ rnow' = [rnow EXCEPT ![p] = now]
  /\ UNCHANGED <<now, tables, loops, rnote, crashes, faults, hist>>

\* The call goes on with its next entry.
NextEntry(p) ==
  /\ rlist' = [rlist EXCEPT ![p] = Tail(@)]
  /\ rpc' = [rpc EXCEPT ![p] = IF Tail(rlist[p]) = << >> THEN "idle" ELSE "check"]
  /\ rnote' = [rnote EXCEPT ![p] = "queued"]
  /\ rnow' = [rnow EXCEPT ![p] = IF Tail(rlist[p]) = << >> THEN 0 ELSE @]

ReplayTask(p) == dlq[Head(rlist[p])].task

\* get_task_by_id and the test of the status it returned.
ReplayCheck(p) ==
  /\ rpc[p] = "check"
  /\ \/ /\ ReplayTask(p) \in Row
        /\ status[ReplayTask(p)] \notin {"cancelled", "completed"}
        /\ rpc' = [rpc EXCEPT ![p] = "requeue"]
        /\ UNCHANGED <<rlist, rnote, rnow, faults>>
     \/ /\ ReplayTask(p) \in Row => status[ReplayTask(p)] \in {"cancelled", "completed"}
        /\ rpc' = [rpc EXCEPT ![p] = "mark"]
        /\ rnote' = [rnote EXCEPT ![p] = "skipped"]
        /\ UNCHANGED <<rlist, rnow, faults>>
     \/ DbFault /\ NextEntry(p)
  /\ UNCHANGED <<now, tables, loops, ops, crashes, hist>>

\* requeue_scheduled_task: active, due at once, whatever the status is by now.
ReplayRequeue(p) ==
  LET t == ReplayTask(p) IN
  /\ rpc[p] = "requeue"
  /\ \/ /\ IF t \in Row
           THEN /\ status' = [status EXCEPT ![t] = "active"]
                /\ nextRun' = [nextRun EXCEPT ![t] = rnow[p]]
                /\ slotRuns' = [slotRuns EXCEPT ![t] = 0]
                /\ reopened' = reopened \cup ({t} \cap Held)
           ELSE UNCHANGED <<status, nextRun, slotRuns, reopened>>
        /\ rnote' = [rnote EXCEPT ![p] = "queued"]
        /\ rpc' = [rpc EXCEPT ![p] = "mark"]
        /\ UNCHANGED <<rlist, rnow, faults>>
     \/ DbFault /\ NextEntry(p) /\ UNCHANGED <<status, nextRun, slotRuns, reopened>>
  /\ UNCHANGED <<now, kind, dlq, loops, ops, crashes, stranded>>

\* mark_scheduled_task_dlq_replayed: no row to mark when the chat was reset.
ReplayMark(p) ==
  LET e == Head(rlist[p]) IN
  /\ rpc[p] = "mark"
  /\ NextEntry(p)
  /\ \/ /\ dlq' = IF dlq[e].state = "deleted" THEN dlq
                  ELSE [dlq EXCEPT ![e].state = rnote[p]]
        /\ UNCHANGED faults
     \/ DbFault /\ UNCHANGED dlq
  /\ UNCHANGED <<now, status, kind, nextRun, loops, ops, crashes, hist>>

-----------------------------------------------------------------------------
Loop(p) ==
  \/ Start(p) \/ Recover(p) \/ Claim(p) \/ BeginRun(p) \/ EndRun(p)
  \/ InsertDlq(p) \/ UpdateAfterRun(p)

Replay(p) == ReplayList(p) \/ ReplayCheck(p) \/ ReplayRequeue(p) \/ ReplayMark(p)

Tools ==
  \/ \E t \in Tasks : \E k \in {"cron", "once"}, s \in 0 .. MaxTime : Schedule(t, k, s)
  \/ \E t \in Tasks : Pause(t) \/ Resume(t) \/ Cancel(t)
  \/ Reset \/ DeleteChat

Next ==
  \/ Tick
  \/ \E p \in Procs : Loop(p) \/ Panic(p) \/ Replay(p) \/ Crash(p)
  \/ Tools

Spec == Init /\ [][Next]_vars

(* The loop of every process keeps going (after a crash the service manager *)
(* starts the process again) until it calls the agent: that call, with the  *)
(* delivery of the answer, is awaited without a timeout, and the clients of *)
(* the providers have none, so nothing says that a run ends.                *)
Goes(p) ==
  Start(p) \/ Recover(p) \/ Claim(p) \/ BeginRun(p) \/ InsertDlq(p) \/ UpdateAfterRun(p)

FairSpec == Spec /\ WF_vars(Tick) /\ \A p \in Procs : WF_vars(Goes(p))

-----------------------------------------------------------------------------
(* Properties *)

\* No row is stuck in 'running' unnoticed: it is in the batch of a live loop,
\* or its holder crashed, panicked or failed to write the outcome, and only the next
\* recover_running_tasks (or a user) will free it.
RunningAccounted == \A t \in Tasks : status[t] = "running" => t \in Held \cup stranded

\* The claim is exclusive: a task is in one batch only, once, and not claimable
\* again, unless it was set active (resumed, replayed, or recovered by another
\* process) while a loop held it. This is what `AND status = 'active'` in the
\* claiming UPDATE is for.
ExclusiveClaim ==
  \A p \in Procs : \A i \in DOMAIN batch[p] :
    LET t == batch[p][i] IN
      t \notin reopened =>
        /\ status[t] # "active"
        /\ \A q \in Procs : \A j \in DOMAIN batch[q] :
             batch[q][j] = t => q = p /\ j = i

\* With one process, a slot of a task runs once, however pause, resume, cancel
\* and reset interleave with the run; only a crash or a failing database call
\* can repeat it, once each (a replay, and the resumption of a task that no
\* loop holds, ask for a further run and start a new count).
SlotRunsOnce ==
  \A t \in Tasks : slotRuns[t] <= 1 + crashes + faults

\* A due task is not lost: the loop claims it or the chat stops it. The one
\* exception is a task made due while a loop still holds it: the update that
\* ends the old run then overwrites the row.
UserStops(t) == Pause(t) \/ Cancel(t) \/ Reset \/ DeleteChat
DueLostOnlyIfHeld ==
  [][\A t \in Tasks : Due(t) /\ ~Due(t)' /\ t \notin reopened =>
       (\E p \in Procs : Claim(p) /\ t \in Elems(batch'[p])) \/ UserStops(t)]_vars

\* What keeps a task from its run for good: a loop that holds it hangs in a run, or has
\* panicked and no process recovered the row since, or no loop is left to claim it.
Hung(t)    == \E p \in Procs : pc[p] = "agent" /\ t \in Elems(batch[p])
Dropped(t) == t \in stranded /\ \E p \in Procs : pc[p] = "dead"
NoLoopLeft == \A p \in Procs : pc[p] \in {"agent", "dead"}

\* A due task is run at last, even across a crash (the claim is undone by the recovery)
\* and while the loop of another process hangs, unless the chat stops it, the row is
\* completed by a run, a failing update or recovery strands it, or from some time on a
\* hanging run or a panic keeps it from every loop. docs/operations/
\* stability-plan-2026-q1.md:36 "scheduled tasks resumed and executed correctly after
\* process restart" says it without those conditions.
DueTaskRuns ==
  \A t \in Tasks :
    \/ Due(t) ~> slotRuns[t] > 0 \/ status[t] \notin {"active", "running"} \/ faults > 0
    \/ <>[](Hung(t) \/ Dropped(t) \/ NoLoopLeft)

\* A claimed task does not stay 'running': its run ends and the row is updated, or a
\* restart recovers it. Only a failing update or recovery strands it, a run in its batch
\* that never ends, or a panic of the loop in a process that goes on.
ClaimIsReleased ==
  \A t \in Tasks :
    \/ status[t] = "running" ~> status[t] # "running" \/ faults > 0
    \/ <>[](Hung(t) \/ Dropped(t))

\* A pause or a cancellation is undone by the chat itself, by a replay, or by the
\* end of a run that a loop had claimed before; no other task's run, no recovery
\* and no claim touches it. schedule.rs:394 "Pause a scheduled task. It will not run
\* until resumed." and schedule.rs:528 "Cancel (delete) a scheduled task permanently."
\* say so without the claimed run.
WithdrawalHolds ==
  [][\A t \in Tasks :
       status[t] \in {"paused", "cancelled"} /\ status'[t] \in {"active", "running"} =>
         \/ Resume(t)
         \/ \E p \in Procs : rpc[p] = "requeue" /\ ReplayTask(p) = t /\ ReplayRequeue(p)
         \/ \E p \in Procs : pc[p] = "update" /\ Head(batch[p]) = t /\ UpdateAfterRun(p)]_vars

=============================================================================
