# Verification of mchact

A TLA+ development of mchact, a chat agent in Rust: what its concurrent parts and its agent loop promise, model-checked
on small instances with TLC and proved for every instance with TLAPS as far as safety goes.

## 1. The system

mchact is one process (`mchact start`, or `mchact acp` for a local client) on a multi-threaded tokio runtime. Everything
shares an `Arc<AppState>`. The state that outlives a step is in a SQLite (or PostgreSQL) database whose methods each hold
the connection for their whole body: **a database method is one atomic step, and every `.await` between two of them is a
place where anything else may happen.** Two processes may use one database at the same time. That, and maps behind
mutexes, is all the synchronisation there is.

### Components

| component | state | operations | what makes it correct | module |
|---|---|---|---|---|
| Task scheduler (`scheduler.rs`, `db/task.rs`, `tools/schedule.rs`) | `scheduled_tasks`, `scheduled_task_dlq`, the loop's batch | recover, claim, run, update; schedule, pause, resume, cancel, replay, reset | a claim is exclusive, a slot runs once, no row is stuck, a user's decision holds | `TaskScheduler` |
| Sub-agent runtime (`tools/subagents.rs`, `db/subagent.rs`) | `subagent_runs`, semaphore, cancel flags | spawn, orchestrate, execute, kill, time out | limits, the life cycle of a row, a kill takes effect, every run ends | `SubagentRuntime`, `SubagentLifecycle` |
| Announcements (same files, `runtime.rs`) | `subagent_announces` | enqueue, flush, retry | sent at least once, repeated only for a reason, not given up early | `AnnounceOutbox` |
| Run control (`run_control.rs`, `agent_engine.rs`) | `ACTIVE_RUNS`, `ABORTED_SOURCE_MESSAGE_IDS`, a flag and a notification per turn | register, abort, unregister | a stop reaches every turn, once | `RunControl` |
| Conversation of a chat (`agent_engine.rs`, `db/session.rs`, `db/message.rs`, channels) | `messages`, `sessions`, the chat's lock | receive, load, answer, save, clear, stop, settings | a message reaches its turn, nothing is forgotten or read twice, a clear lasts | `AgentSession` |
| Web hubs and streaming (`web.rs`, `web/stream.rs`, `web/ws.rs`) | RequestHub's quotas, SessionHub's locks, RunHub's channels and histories | begin, lock, publish, subscribe, replay, end, remove | turns of a session exclude each other, quotas are given back, a view is whole and ends | `WebStream` |
| Memory and reflector (`scheduler.rs`, `memory_service.rs`, `memory_backend.rs`, `db/memory_db.rs`) | `memories`, the reflector's cursor, a memory server, the health counters | read, list, extract, write with fallback, move the cursor | no message is passed over, a fact is stored, and once, a pause ends | `Reflector` |
| Agent loop and LLM providers (`agent_engine.rs`, `compressor.rs`, `llm.rs`) | the conversation of a turn; the session it is saved to | load, call, execute tools, retry, compact, sanitize, save | what the model is sent is well formed and contains the request | `AgentLoop` |
| Knowledge pipeline (`knowledge*.rs`, `db/knowledge.rs`) | documents and chunks with states | add, embed, observe, group | every chunk is done or failed at last | not modelled (section 6) |
| Channels, tools, hooks, plugins, skills, MCP/ACP/A2A, batch generation and training, media, database drivers, setup and operations | mostly none of their own | | sequential I/O and formats | not modelled (`PROJECT.json` gives each reason) |

### How they interact

* A **channel** stores a message and starts a **turn** (`process_with_agent_with_events`). The turn registers with *run
  control*, loads the *conversation*, calls the model and tools, saves the conversation and hands back its answer.
* The **web API** counts a request against its quotas, takes the session's lock and runs a turn, in the request's own
  handler or in a task of its own; the events of the latter go through a forwarder into a *run channel* that viewers
  subscribe to, leave, and come back to.
* Every process has a **reflector** that reads new messages of the active chats, has the model extract facts, and writes
  them through the *memory backend*, whose health counters the turns of that process share.
* The **scheduler** starts turns on the same conversations; its tools are called by turns.
* A turn's tools spawn **sub-agents**, tokio tasks that run their own loop, may spawn further ones, and at the end put an
  **announcement** into an outbox that sends it to the chat.
* `/stop`, `sessions.kill` and the ACP cancel drop a turn at whatever `.await` it is in; `/clear` and `/reset` delete the
  rows that turns, tasks and replays may have copies of.

### What is hard

Rows that are read, then acted upon minutes later (a claimed batch, a loaded conversation, a listed outbox row); checks
and inserts in separate calls (spawn limits, the replay); futures dropped between two awaits (stop, run timeout, a web client that goes
away), whose database call is still carried out; model calls without a timeout in loops that do one thing at a time; crashes
between two writes, with a recovery for the scheduler's rows only; a second process; a notification that wakes only those
who already listen; a semaphore held while waiting for others who need it; locks that a map forgets; events published
from two tasks; a write repeated on another store because the first did not confirm it; a conversation rewritten by
passes that each break what the one before has repaired. `PROJECT.json` lists each such place as a
hazard, with the properties that watch over it.

## 2. Plan

Done, in this order: `TaskScheduler`, `SubagentRuntime` with the abstract `SubagentLifecycle` it
implements, `AnnounceOutbox`, `RunControl`, `AgentSession`, `WebStream`, `Reflector` and `AgentLoop`, each with its
proofs. What would come next:

1. `ChatRuntime`: composition of `RunControl` and `AgentSession` (a stop hides a message that a next turn is loading).
2. `SubagentBudget`: token budgets of nested spawns; the focus binding of a chat.
3. The circuit breaker and the calls of MCP clients; the statuses of knowledge chunks; supersession edges of memories.

Every safety property the passing runs check is also proved (section 5).

## 3. The modules

Every module takes its sizes and bounds as constants, has one action per database call or other atomic step of the code
(named after the function or the step), and keeps mutants of some definitions beside them. Bounds are named `Max...`
where they exist only for model checking. History variables are marked `history` where declared; no guard reads them.

### TaskScheduler
`status`, `kind`, `nextRun` are the columns of `scheduled_tasks` per id; `dlq` the dead-letter table by id; `pc` and
`batch` the loop of each process (`recover` → `poll` → `exec` → `agent` → `dlq` → `update`); `rpc`, `rlist`, `rnote`,
`rnow` a call of the replay tool, whose read, requeue and mark are separate steps. The loop runs what it claimed without
reading the row again, and `UpdateAfterRun` writes whatever the row says by then, both as in the code. A database call
may fail (`DbFault`), a process may crash anywhere and start again. The loop is one bare `tokio::spawn` that awaits each run:
a run that never ends holds it at `agent`, and one that panics (`Panic`) ends it (`dead`) while the process and its tools go
on. The clock is counted in ticks. Pause, resume and cancel read the row for their error message only, so read and write
are one step. The replay lists the entries of the chat, or of the one task it names (`Pending`).

### SubagentRuntime and SubagentLifecycle
`SubagentLifecycle` says what a reader of the code wants from the table: a row goes forward only (accepted, queued,
running, ended), runs only in a lane of bounded width, and is written by nobody once ended. `SubagentRuntime` is
the code: the spawn call of each caller (count, count children, insert, spawn), the executor of each run under a FIFO
semaphore, kill in two steps (row, then flag), the timeout and `/stop` that drop a call between two awaits. The refinement
maps the lane to the runs with a permit. Callers are the agent turns of one chat and, below the depth limit, runs.

### AnnounceOutbox
Executors and the relay are flushers (a call of the retry tool acts like a second relay); a flush lists (up to `Batch`)
due rows with their counts (`DueBatches`: those that come first in the order of the ids), then sends and marks each. Time is the set of rows whose back-off has passed. `excuse` counts the reasons a send may be repeated.

### RunControl
A turn reads its source message, registers, and polls a waiter and the engine in one `select!`: `CheckFlag` and `Listen`
are separate since `abort_runs` may run between them on another thread. `abort_runs` takes the runs out of the map, then
sets the flag of each and notifies it, then hides the source messages. `unregister_run` follows the `select!` without a drop
guard: a turn that its caller drops at any await (axum drops a handler when its client goes away) or that panics (`Drop`)
stays in the map, where the next stop finds and counts it. A call of `abort_runs` may be dropped too, at its second lock
(`DropStop`), and then hides nothing.

### AgentSession
One chat. `stored`/`stamp` and `answers`/`replied` are the rows of `messages`; `session` is the row of `sessions`, its
JSON abstracted to the set of messages (`said`) and answers (`told`) in it. A turn goes `source` → `load` → `new` → `run`
→ `save` → `reply`. `Lock` and `Web` say which channel it is: slack and matrix ("first"), web ("first", and commands wait
for the lock), feishu ("later"), irc, whatsapp and discord ("never").

A database call runs on the blocking pool and outlives the future that awaits it. A save on its way (`saving`) is therefore
carried out even if its turn has been dropped: by a `/stop`, by a failure, or on web because the client went away
(`Abandon`), which frees the chat's lock while the save, or the insert of the message, is still to come (`adrift`). The
same goes for a `/clear` (`AbandonClear`, then `LateClear`) and, before it has the lock, for a `/stop` (`AbandonStop`). `late` is
history: the messages that such a late write comes across (`Overtaken`). A dropped turn stays registered (`ghosts`). A `/stop` is
one step here, with the outcomes that `RunControl` shows in steps: a turn that has only begun may miss its notification
(`missed`) and goes on. The API's reset deletes session and messages of a web chat, and the session alone elsewhere.

### WebStream
Requests are streams (a task of their own) and sends (the turn runs in the handler). `inflight` is RequestHub's count per
session and actor, `entry` and `ref` are the lock objects in SessionHub's map and in the hands of requests (`lock_for`
may prune any entry of another session that nobody refers to; `ref` stands for the `Arc` count), `channel`, `published`
and `last` are RunHub's channel, whose history is the last `HistoryLimit` ids. `queued` events wait for the forwarder,
while `Finish` publishes `done` directly. A viewer gets its `backlog` and a receiver (`next`) in one critical section; SSE
viewers skip what the channel lost and may come back with the id of the last event, websocket forwarders end.

### Reflector
One chat. A message is its timestamp and has at most one fact; `rows` counts the rows of each fact in either store. A pass
goes `read` → `list` → `model` → `apply` (one write per step) → `cursor`; a crash or an error anywhere loses the pass and
keeps what was written. With a memory server attached (`External`) each call goes there first; a failing write may have
been applied (`R` in `Apply`) and is then made in the database. `known` and `from` are the list of memories a pass works by: an id
from one store used on the other names some other row, or none. `failures`, `ran` and `probeOk` are the health counters
that pause the writes. The loop awaits the model without a timeout: at `model` it may stay for ever.

### AgentLoop
Turns of one chat, one after another. A message is a text or blocks with the ids of calls or of results; `own` marks the
text that holds the turn's request. A turn is loaded (`Loaded`), perhaps compacted, and goes round: `Request` is what the
provider's sanitation makes of the conversation, and every way a round can end is an action. `Compact` chooses any place
for the tail, which in the code is a budget of tokens; a failed summary keeps the tail alone, and
`zone_text.truncate(max_chars)` may panic inside a character (the turn ends). Ids are fresh when the provider names calls,
and repeat in every answer when the code numbers them.

## 4. The runs

Runs that must hold:

| run | question | instance |
|---|---|---|
| SchedTools | do tools and one loop, interleaved in any way, repeat or lose a slot, or undo a user's decision? | 2 tasks, 2 tool calls, ticks 0–2, a crash or a fault |
| SchedTwo | is the claim exclusive between two processes, is every running row accounted for, does a due task run and a claim end? | 2 tasks, 2 processes, batches of 2, 1 call (resume or deletion of the chat), a crash or a fault, any panics; fair but for the end of a run |
| SubPool | limits, lane and refinement | 3 runs, 2 agent turns, 1 kill, crash, fault, stop |
| SubNested | how late does a kill take effect, and does a row end whose run waits with the only permit? | 2 nested runs of 2 turns, 2 kills, a crash, fair |
| OutboxFlush | are sends repeated only for a reason, rows not given up early, and settled for good? | 2 rows, 3 flushers with lists of 1, 2 attempts, a crash or a fault, fair |
| StopRuns | does any turn escape the map, is one stopped twice, is its source hidden, does it end if its engine hangs? | 2 turns, 3 stops (2 at a time), any of them dropped; fair |
| SessSerial | with the lock first: does a turn see its message, is anything forgotten, set back or undeleted? | web: 3 messages, 2 commands of /clear and /stop, 1 failing call, any dropped handlers |
| SessFree | without a lock: is a message read twice, does a `/stop` end a hanging turn? | 1 addressed, 1 other message, 1 scheduled turn, 1 of reset, settings, stop, and a fault; fair |
| WebEvents | do turns of a session overlap, what do quotas count, does a view that is over have every event, does it end? | 1 stream of 2 events, 2 sends, 2 sessions, 1 actor, 1 viewer, history of 2, channel of 1, a drop, fair |
| ReflectPasses | does the cursor skip a message, are facts kept, once, and are messages reflected on at last? | 3 messages, first batch 2, then 1; 2 faults, 1 failing write, 1 crash; fair but for the model call |
| LoopTurns | is what the model is sent well formed, and does it contain the request? | 3 turns of 2 rounds, sessions of 4 messages, 1 call an answer |

`LoopOrphan` checks `NoOrphanedCalls` on the instance of `LoopTurns` and finds it violated: the compressor removes orphaned
tool calls and only then merges neighbours of the same role, so that when the protected head (user, call, result) ends
with a result, the summary is merged with it into a text and the call stays unanswered. The finding in `PROJECT.json`
quotes the comment it contradicts. A provider refuses such a request; nothing is saved when a request fails, so the next
turn of the chat loads and compacts the same session.

**Where code and documents disagree, beside that.** The conditions in the properties below keep these cases apart:

* A failed one-shot task can never be replayed (`tools/schedule.rs:767` skips completed tasks, and the failing run has
  completed it), against `schedule.rs:707`.
* A timeout or a `/stop` that drops a spawn call between the insert and the executor leaves a row `accepted` for ever
  (`subagents.rs:924`, against RFC 0005:51): `Abandoned` in `RunEnds`.
* A stop between the waiter's check of the flag and its listening is lost (`agent_engine.rs:139`), and the turn is no
  longer in the map: `missed` in `EveryRunStoppable` and `StopTakesEffect`.
* The Feishu adapter stores a message before it takes the lock, and the turn it waits for saves with a later mark: its own
  turn does not see it (`Lock = "later"` breaks `OwnMessageSeen`).
* `docs/operations/stability-plan-2026-q1.md:36` says that scheduled tasks are "resumed and executed correctly after process
  restart". The providers' HTTP clients have no timeout (`llm.rs:271`, `:1145`), nothing wraps a model call, and the scheduler
  awaits its runs one after another: one call that hangs, or a panic of one run, stops every task of the process. Both are
  exceptions of `DueTaskRuns` and `ClaimIsReleased`; without them either fails in the instance of `SchedTwo`.
* A web client that goes away while its turn saves frees the session's lock before the save has landed. The next turn may
  then load without it and overwrite it, find the mark past its own message, or see a cleared conversation return: `late` and
  `adrift` in the properties of `SessSerial`; without them each fails there.
* `mchact acp` starts a reflector (`acp.rs:101`) and not the health probe of `runtime.rs:518`; its first use of the
  memory server sets `startup_probe_ran` and not `startup_probe_ok`, and its reflector stays paused for ever, against
  `README-origin.md:356`. With `Probing = {}` `Reflected` holds by its last disjunct only.
* `compact_keep_recent` does not keep that many messages word for word (`README-origin.md:1198`): it is the least length
  of a conversation that is compacted, and the tail that is kept is 20000 tokens.

**What the conditions in the properties stand for.** Where the code keeps a promise only under a condition, the property
names the condition, and dropping it gives a counterexample in the same instance:

* `WithdrawalHolds`: a pause or cancellation is undone by the end of a run that was claimed before it (and the loop runs
  a task cancelled after the claim), against `schedule.rs:394` and `:528`. `DueLostOnlyIfHeld`: a replay of a task that
  is held is overwritten by the end of that run.
* `ExclusiveClaim` (`reopened`): the recovery of a second process sets active what the first is running.
* `ActiveNearLimit`: concurrent spawn calls exceed `max_active_per_chat` together. `max_children_per_run` counts active
  children, not created ones.
* `OneLateTurn`: a kill during the last turn leaves the row `completed`.
* `RunEnds` (`Abandoned`): a row is left behind by a spawn call that is dropped, by a restart and by a failed write.
* `SentOnceUnlessExcused` (`excuse`): two flushes that overlap send an announcement twice without any crash.
  `Settles`: a crash between the end of a run and its insert loses the announcement.
* `StoppedIsHidden`: the source is the latest message of the chat, which need not be the one that started the turn, and a
  dropped `abort_runs` hides none (`lost`).
* `DueTaskRuns`, `ClaimIsReleased`: `Hung`, `Dropped` and `NoLoopLeft` are a run that never ends, the batch of a loop that panicked
  (until some process recovers the rows), and that all loops hang or are dead.
* `OwnMessageSeen` needs "first" and no scheduled turn (which takes no lock), no change of the settings (which moves the
  mark) and no stop (whose turn may still save). `SaveKeeps` and `NoMessageForgotten` need the lock. `ClearedStaysCleared`
  and `StopEndsTurn` have opposite needs: on the web (`Web`) a `/clear` waits for the turn, and so does a
  `/stop`; elsewhere neither does, and a turn saves back what a `/clear` deleted. `StopEndsTurn` also excepts a turn that
  missed the notification.
* `Reflected`: the probe at startup failed, or from some time on every reflector hangs in its model call. One that hangs
  beside another that does not, or whose process is restarted, is caught up with.

* `InflightAccounted` counts the requests whose client went away (`gone`): the handler of a send, and of a stream before its
  task is spawned, is dropped between `begin` and `end`, and the quota stays used for ever.
* `SeenWhole` (`excused`): the history or the channel lost events. Events published after `done` (the forwarder may lag
  behind the turn) are not part of the view, and push `done` out of a full channel: `ViewEnds` then needs the removal of
  the channel after 300 s. Two keys of one chat (`chat:<id>` and the web's own) have two locks: `SessionMutex` is per key.
* `CursorCovers` (`excused`): a message stored after a newer one, or older than the first batch, is never reflected on.
* `OneRow` (`fellBack`): a pass that lists from the database does not know what the server has, and writes it again there.
  Two processes reflect on the same messages. `FactsKept` (`lost`): both stores may refuse a write, and the error is
  swallowed; an update by an id of the other store may overwrite an unrelated row.
* `RequestWellFormed`: `flattened` is the merge of `LoopOrphan`; `truncated` the tail kept when a summary fails, which may begin with
  the assistant; ids numbered by the code (negative here) defeat the sanitation, which compares ids over the whole
  conversation. `AskReachesModel` (`crowded`): a request longer than the tail's budget is summarized away.

**Why the bounds suffice.** What can go wrong is an overlap of two actors on one row, or of one with a crash or a dropped
call; each run has the two actors, a second row where rows compete (batches, limits, the outbox's order), and one or two
of each disturbance. Every passing property is broken by a plausible bug in a definition of the model (the mutants), under
the same bounds, so the interesting cases are reached. `CHECK_DEADLOCK FALSE` is set since tasks, runs and messages are finite: when
all are used up the system rests.

**Fairness.** Assumed of what the process does by itself: the scheduler's loop and its ticks, the executors, flushes
and saves, timers, the polls of a turn's own task, the web's stream tasks after their turn, viewers that are connected, and
the reflector's loop with its calls of the memory server, which have a timeout (`mcp.rs:391`, `:458`, `:520`). Not assumed: that a
user acts, that a call is retried, and that a model answers: no provider call has a timeout, so neither `EndRun` of the
scheduler nor `Extract` of the reflector nor the engine of a turn is fair in any run, and a property that needs them names the call that
hangs. Sub-agent runs end by their timeout (`WF` of `Timeout`), which tokio fires. The lock of a chat is a
tokio mutex, whose waiters queue: strong fairness of `TakeLock`.

## 5. The proofs

`TaskSchedulerProofs` proves, for any set of tasks and processes and any bounds (from the assumptions named in
`TaskScheduler` only):

* `TypeCorrect`: the type invariant. It contains what makes the loop safe to step, that it is inside a run
  exactly when its batch is not empty.
* `RunningAccountedCorrect`: a `running` row is in a live batch or stranded. Inductive together with the types: only
  `Claim` makes a row `running`, and it puts it into a batch; a row leaves a batch by an update, a crash, a panic or a failed
  update, and the last three strand it.
* `ExclusiveClaimCorrect`: a task is in two batches only if it was set active while held. The invariant is strengthened
  by what the claim relies on: a held task that was not reopened is not `active`, and batches have no repetitions.
* `WithdrawalHoldsCorrect` and `DueLostOnlyIfHeldCorrect`: step by step, the second from the exclusive claim (the end of a run
  writes the row of a due task only if that was reopened) and `ReplayPast`, that a replay's time is past.
* `SlotRunsOnceCorrect`, for one process (`OneProcess`; the recovery of a second would repeat the first's runs): in `SlotInv` a
  task whose run is still to come, claimed or claimable, has a crash or failure for each run of its slot so far. The end of
  a run makes a row claimable only with a new slot, because what is held is due and the next slot is not. A loop that has panicked
  claims nothing more (`LoopDead`), so that what it leaves needs a crash to be run again.

`SubagentRuntimeProofs` proves, for any finite sets of runs and of agent turns, any limits and bounds. `Rows` relates where
an executor is to what its row says (a row whose executor waits or has its permit is `accepted` or `queued`, one whose run
goes on is open, and a row with a call about to start its executor has no other), `Queue` that the semaphore's queue has each
waiting task once.

* `TypeCorrect`, and `RunningWithinLaneCorrect` from `Lane`: the holders of a permit grow by `Acquire` alone.
* `ActiveNearLimitCorrect` by cardinalities (`CountsStep`): only a count that found room adds a call on its way to `Create`, and
  `Create` turns a call on its way into an active run.
* `OneLateTurnCorrect` from `LastTurn`: a run with a late turn is past the check of that turn, and its next check ends it.
* `ImplementsLifecycleCorrect`: `Create` is `Accept`, `MarkQueued` is `Queue`, `Acquire` is `Enter`, `MarkRunning` is `Begin`,
  `Finish` is `End`, `Flush` is `Leave`, `Crash` is `Lose`, and every other step, and a write that fails, stutters.

`AgentSessionProofs` proves, for any messages, scheduled turns and bounds:

* on every channel `TypeCorrect` and `NoMessageTwiceCorrect`: from `Stamps`, that times are not ahead of the clock and what was
  read or saved has its time.
* on a channel with the discipline `Serial` (it locks the chat first, it has no scheduled turns and no unaddressed messages,
  and there are no commands but `/stop` and, where it waits for the lock, `/clear`) `OwnMessageSeenCorrect`, `ClearedStaysClearedCorrect`,
  `SaveKeepsCorrect` and, in a private chat, `NoMessageForgottenCorrect`, with any number of handlers dropped at any await. `Alone`
  says that all turns but the holder of the lock are before or after their work, or adrift; `Newest` that the holder's
  message is newer than the session's mark and all answers, so the load finds it, and that what the holder has loaded contains the
  session as it is; `Own` that its message is stored and in no other turn's hand; `Past` that what was cleared is in no hand; `Whole` that in a private chat a turn works on everything that is
  stored. Each excepts what a late write has come across (`late`), and only `Save` of a turn that is adrift, `Store` of one and
  `LateClear` add to that. Section 4 says which behaviours of other channels break each.

`AnnounceOutboxProofs` proves, for any finite sets of runs and of other flushers, any limits and any number of faults:

* `TypeCorrect`: with `Room`, that what may still be listed has an attempt left, so that the count a flush writes back, stale or not,
  stays within the maximum, and that a flush holds a row once, and only rows that exist.
* `GivenUpAfterTriesCorrect`: from `Counts`, that neither the table nor a flush has a count ahead of the deliveries that
  failed, and that a flush about to write a retry has seen one more fail.
* `SentOnceCorrect`: an argument by credit. `Held` are the flushes that hold a row and `Unsent` those of them that have not sent
  it; while some hold it, what was sent and what they will send is within one plus the excuses, and while none does and
  the row may be listed, what was sent is all excused. A list adds a flush to both sets and, if others held the row, an
  excuse; a send takes one out of `Unsent`; a retry lets go of a row unsent; a crash excuses each that had sent. TLC has
  checked the whole invariant (`IInv`) on the instance of `OutboxFlush` as well.

`RunControlProofs` proves, for any set of turns and of concurrent stops and any bounds:

* `TypeCorrect`: the type invariant; the map holds only turns that are in their select or about to leave the map, and those
  that were dropped before they could.
* `EveryRunStoppableCorrect`: no turn in its select escapes a stop, but by a missed notification.
* `TakenOnceCorrect`: each turn belongs to at most one call of `abort_runs`. It needs that a call holds only turns that
  were in the map, hence never one that is about to register.
* `StoppedIsHiddenCorrect`: the source of a stopped turn is hidden, or about to be, or its stop was dropped (`lost`). Not inductive: a turn ends as stopped
  because of its flag or notification, so `MarkedIsHidden` says the same of every flagged or notified turn, and `Phases`
  that a call flags a turn before it notifies it and hides the sources last, and that only turns in the map were flagged.

`WebStreamProofs` proves, for any finite sets of requests, any sessions, actors and viewers, and any limits:

* `TypeCorrect` and `SessionMutexCorrect`: the strengthening is `RefsInMap`, that a lock somebody refers to is the one the map
  has for that session, which the prune keeps since it counts references; two requests of one session then refer
  to one lock, and `LockFree` does the rest.
* `InflightAccountedCorrect`: by cardinalities of the set of counted requests, which each step of a request leaves
  alone, adds one to or takes one from.
* `SeenWholeCorrect`: from `Followed`, that the ids a viewer has got, its backlog and the next id of its receiver continue
  each other as long as nothing was lost, and `Phases`, that the last event is published once, by a task that holds or
  has just dropped its lock.

`ReflectorProofs` proves, for any finite set of processes and any bounds:

* `CursorCoversCorrect`: from `PassCovers`, that a pass in progress, carried through, would leave no message between the
  cursor and its newest one unread. Processes overlap, and another may move the cursor meanwhile, also back: the statement
  is therefore about handled and excused messages and not about the cursor a pass has read.
* `OneRowCorrect`: from `RowsKnown`, that what a pass has yet to write and does not know of has no row in the primary store.
* `FactsKeptCorrect`: from `FInv`, that what a pass has dealt with, and what its list names, has a row or is counted in
  `lost`: every write adds the row of its own fact or says what became of it, and a row that goes is counted too.

`AgentLoopProofs` proves, for any bounds, any turns and any place a compaction cuts at:

* `TypeCorrect`, `RequestWellFormedCorrect` and `AskReachesModelCorrect`. The invariant is `Turns`. It says that the session and
  the conversation of the turn are each a `Conversation`: `Roles` (calls are the assistant's, results the user's), `Follows` (results
  come after a message of the assistant), `Once` (a call a provider has named has one result, and was named before),
  `Answered` (it has it in the next message, unless a compaction made that a text) and `Begins` (with a text or blocks of the user
  that are no results, unless a compaction cut that off); and how the conversation ends before a compaction
  (`EndsWithOwn`) and before the model is asked (`EndsWithUser`, `OwnKept`). `RequestWellFormed` alone is not inductive: the
  request is made anew each time, out of a conversation about which it says nothing.
* Why a compaction keeps it (`CompactKeeps`): the head, the summary and the tail are the conversation with a gap, so each
  pair of call and result is still adjacent or has lost a half, which `SanitizePairs` then takes (`PairedKeeps`). The
  merged messages are runs of one role (`Runs`); one that still has blocks is a run of a single message, so that
  a call and a result that were neighbours are neighbours again, or the result was lost and is counted as flattened
  (`RunsKeep`); and the last run of the user's is a text (`RunsEnd`).
* Why the request is well formed (`SentNext`): after each message, the calls that wait are those of the last message sent.
* Folds: the library's induction theorems cannot be used, since they take an operator. `FoldExists` therefore shows
  directly that the recursive function behind `FoldLeft` exists, `AddTextFold`, `MergeFold` and `RequestFold` that the
  states of each pass follow each other by the operator that is folded, and `UpTo` is the induction over prefixes, from the
  well-foundedness of the naturals by the least counterexample.

TLC has checked the invariant (`Turns`, and the types) on the instance of `LoopTurns` with 0, 1 and 3 protected messages.

Only model-checked: everything under fairness (no prover of TLAPS does liveness with `ENABLED`). No module declares a
recursive operator.

## 6. What is not modelled

The wording of messages, prompts and answers; images; the history limit of a
chat without a session; token budgets; the rate window and the bearer tokens of the web API (a refusal at any time stands for
the first); supersession edges, similarity and the "remember" path of memories, which drops the error of an
update (`memory_service.rs:182`); the PostgreSQL driver (same methods); formatting. A panic is a crash, but for those of a
scheduled run, a turn, a streamed turn and the compressor, which are actions, and of a reflector's model call, which stands for a call
that hangs.

The knowledge pipeline: four loops (embed, observe, group, sweep) each write one column of their own, so they hardly meet,
and a chunk's status is moved by one `UPDATE`. What can go wrong there is outside the models' data:
`&chunk.text[..500]` (`knowledge_scheduler.rs:139`, and :39) panics inside a character and ends its loop until the next start,
which meets the same chunk. A collection is created by an insert and a grant in two calls, and `add_document` checks and
then inserts.

MCP clients (`mcp.rs`) have a rate limit, a bulkhead and a circuit breaker per server; they appear only as calls that may
fail, possibly after they took effect. `OneRow` is about the default `max_retries` of 0: a client that repeats a
`memory_upsert` whose connection was lost may insert twice in one pass.

Whole components without a module are listed, each with its reason, in `PROJECT.json`.
