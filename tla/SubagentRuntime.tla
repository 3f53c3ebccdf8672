-------------------------- MODULE SubagentRuntime --------------------------
(***************************************************************************)
(* The sub-agent runtime of mchact, for one chat: the subagent_runs table, *)
(* the tool calls that spawn runs (sessions_spawn, subagents_orchestrate), *)
(* the background task that executes each run under the semaphore of       *)
(* subagents.max_concurrent, and subagents_kill.                           *)
(*                                                                         *)
(* A spawn call reads the counts, inserts the row and starts the executor  *)
(* in separate steps, and several calls are in progress at once: the agent *)
(* turns of the chat, and the runs that may spawn children themselves.     *)
(* What happens to the completion announcements is in AnnounceOutbox.      *)
(***************************************************************************)
EXTENDS Integers, Sequences, FiniteSets

CONSTANTS
  Runs,           \* run ids
  NoRun,          \* not a run id: the parent of a run that an agent turn spawned
  Agents,         \* agent turns of the chat that may spawn runs
  MaxConcurrent,  \* subagents.max_concurrent
  MaxActive,      \* subagents.max_active_per_chat
  MaxChildren,    \* subagents.max_children_per_run
  MaxDepth,       \* subagents.max_spawn_depth
  MaxTurns,       \* MAX_SUB_AGENT_ITERATIONS
  MaxKills,       \* bound: number of kills
  MaxCrashes,     \* bound: number of process crashes
  MaxFaults,      \* bound: number of failing database calls
  MaxDrops        \* bound: number of agent turns dropped by a /stop

ASSUME IdsAssumption ==
  /\ IsFiniteSet(Runs) /\ IsFiniteSet(Agents)
  /\ NoRun \notin Runs /\ Runs \cap Agents = {}
ASSUME LimitsAssumption ==
  /\ MaxConcurrent \in Nat \ {0} /\ MaxActive \in Nat \ {0} /\ MaxChildren \in Nat \ {0}
  /\ MaxDepth \in Nat \ {0} /\ MaxTurns \in Nat \ {0}
  /\ MaxKills \in Nat /\ MaxCrashes \in Nat /\ MaxFaults \in Nat /\ MaxDrops \in Nat

VARIABLES
  status,     \* subagent_runs.status; "none": no row
  parent,     \* subagent_runs.parent_run_id
  depth,      \* subagent_runs.depth
  cancelReq,  \* the rows with cancel_requested = 1
  ph,         \* where the task that executes the run is; "none": there is none
  outcome,    \* the status with which that task will finish the row
  turns,      \* model turns the run has taken
  waitq,      \* the tasks waiting for the semaphore, in its FIFO order
  flags,      \* the runs that have an entry in cancel_flags
  flagged,    \* those whose flag is set
  cpc,        \* where the spawn call of each caller is
  cnew,       \* the row it has inserted
  toFlag,     \* kill calls that have updated the row and not yet set the flag
  late,       \* history: model turns begun after the run's cancellation was requested
  kills, crashes, faults, drops   \* how much of each bound is used

rows   == <<status, parent, depth, cancelReq>>
exec   == <<ph, outcome, turns, waitq>>
cancel == <<flags, flagged, toFlag>>
calls  == <<cpc, cnew>>
bounds == <<kills, crashes, faults, drops>>
vars   == <<rows, exec, cancel, calls, late, bounds>>

Open     == {"accepted", "queued", "running"}
Terminal == {"completed", "failed", "cancelled", "timed_out"}

\* Mutants of Holds: the permit is dropped with the run, or never.
HoldsUntilRunEnds == {"permit", "check", "send", "turn", "wait"}
HoldsForever      == {"permit", "check", "send", "turn", "wait", "finish", "flush", "done"}

\* The places of the executor at which it holds its permit.
Holds    == {"permit", "check", "send", "turn", "wait", "finish", "flush"}

\* Only a run below max_spawn_depth has the session tools.
Callers    == IF MaxDepth = 1 THEN Agents ELSE Agents \cup Runs
Active     == {r \in Runs : status[r] \in Open}
Children(p) == {r \in Runs : parent[r] = p}
Holders    == {r \in Runs : ph[r] \in Holds}
Creating   == {c \in Callers : cpc[c] \in {"children", "create"}}

TypeOK ==
  /\ status \in [Runs -> {"none"} \cup Open \cup Terminal]
  /\ parent \in [Runs -> Runs \cup {NoRun}]
  /\ depth \in [Runs -> Nat]
  /\ ph \in [Runs -> {"none", "spawned", "acquire", "done"} \cup Holds]
  /\ outcome \in [Runs -> Terminal]
  /\ turns \in [Runs -> Nat] /\ late \in [Runs -> Nat]
  /\ waitq \in Seq(Runs)
  /\ cancelReq \subseteq Runs /\ toFlag \subseteq Runs
  /\ flagged \subseteq flags /\ flags \subseteq Runs
  /\ cpc \in [Callers -> {"idle", "children", "create", "spawn"}]
  /\ cnew \in [Callers -> Runs \cup {NoRun}]
  /\ \A c \in Callers : cpc[c] = "spawn" <=> cnew[c] # NoRun
  /\ kills \in Nat /\ crashes \in Nat /\ faults \in Nat /\ drops \in Nat

Init ==
  /\ status = [r \in Runs |-> "none"]
  /\ parent = [r \in Runs |-> NoRun]
  /\ depth = [r \in Runs |-> 0]
  /\ cancelReq = {}
  /\ ph = [r \in Runs |-> "none"]
  /\ outcome = [r \in Runs |-> "failed"]
  /\ turns = [r \in Runs |-> 0]
  /\ waitq = << >>
  /\ flags = {} /\ flagged = {} /\ toFlag = {}
  /\ cpc = [c \in Callers |-> "idle"]
  /\ cnew = [c \in Callers |-> NoRun]
  /\ late = [r \in Runs |-> 0]
  /\ kills = 0 /\ crashes = 0 /\ faults = 0 /\ drops = 0

\* A call on the database returns Err and changes nothing.
DbFault == faults < MaxFaults /\ faults' = faults + 1

-----------------------------------------------------------------------------
(* SessionsSpawnTool::execute *)

MaySpawn(c) == c \in Runs => ph[c] = "turn" /\ depth[c] < MaxDepth

\* The call's next step.
Goto(c, pc) == cpc' = [cpc EXCEPT ![c] = pc]

\* A mutant of CountActive: one run too many is let through.
CountActiveInclusive(c) ==
  /\ cpc[c] = "idle" /\ MaySpawn(c)
  /\ Cardinality(Active) <= MaxActive
  /\ Goto(c, IF c \in Runs THEN "children" ELSE "create")
  /\ UNCHANGED <<rows, exec, cancel, cnew, late, bounds>>

\* count_active_subagent_runs_for_chat: refused at the limit, else on to the
\* count of the children, which an agent turn skips.
CountActive(c) ==
  /\ cpc[c] = "idle" /\ MaySpawn(c)
  /\ Cardinality(Active) < MaxActive
  /\ Goto(c, IF c \in Runs THEN "children" ELSE "create")
  /\ UNCHANGED <<rows, exec, cancel, cnew, late, bounds>>

\* count_active_subagent_children.
CountChildren(c) ==
  /\ cpc[c] = "children"
  /\ Goto(c, IF Cardinality(Children(c) \cap Active) < MaxChildren THEN "create" ELSE "idle")
  /\ UNCHANGED <<rows, exec, cancel, cnew, late, bounds>>

\* create_subagent_run under a fresh id.
Create(c) ==
  /\ cpc[c] = "create"
  /\ \/ \E r \in Runs :
          /\ status[r] = "none"
          /\ status' = [status EXCEPT ![r] = "accepted"]
          /\ parent' = [parent EXCEPT ![r] = IF c \in Runs THEN c ELSE NoRun]
          /\ depth' = [depth EXCEPT ![r] = IF c \in Runs THEN depth[c] + 1 ELSE 1]
          /\ cnew' = [cnew EXCEPT ![c] = r]
          /\ Goto(c, "spawn")
          /\ UNCHANGED faults
     \/ DbFault /\ Goto(c, "idle") /\ UNCHANGED <<status, parent, depth, cnew>>
  /\ UNCHANGED <<cancelReq, exec, cancel, late, kills, crashes, drops>>

\* register_run and tokio::spawn: from here on the run has an executor.
Spawn(c) ==
  /\ cpc[c] = "spawn"
  /\ ph' = [ph EXCEPT ![cnew[c]] = "spawned"]
  /\ flags' = flags \cup {cnew[c]}
  /\ cnew' = [cnew EXCEPT ![c] = NoRun]
  /\ Goto(c, "idle")
  /\ UNCHANGED <<rows, outcome, turns, waitq, flagged, toFlag, late, bounds>>

\* A /stop drops the agent turn at the await it is in. A call that has inserted
\* its row then never starts the executor.
DropCall(c) ==
  /\ c \in Agents /\ cpc[c] # "idle"
  /\ drops < MaxDrops /\ drops' = drops + 1
  /\ Goto(c, "idle")
  /\ cnew' = [cnew EXCEPT ![c] = NoRun]
  /\ UNCHANGED <<rows, exec, cancel, late, kills, crashes, faults>>

-----------------------------------------------------------------------------
(* The task that executes a run *)

GotoPh(r, p) == ph' = [ph EXCEPT ![r] = p]

\* The run ends with status o ("failed" stands for budget_exceeded too) as soon as the row is written.
EndWith(r, o) == GotoPh(r, "finish") /\ outcome' = [outcome EXCEPT ![r] = o]

\* mark_subagent_queued (an error is dropped), and the wait for a permit begins.
MarkQueued(r) ==
  /\ ph[r] = "spawned"
  /\ \/ /\ status' = [status EXCEPT ![r] = IF @ = "accepted" THEN "queued" ELSE @]
        /\ UNCHANGED faults
     \/ DbFault /\ UNCHANGED status
  /\ GotoPh(r, "acquire")
  /\ waitq' = Append(waitq, r)
  /\ UNCHANGED <<parent, depth, cancelReq, outcome, turns, cancel, calls, late, kills, crashes, drops>>

\* The semaphore gives its permits in the order of the requests.
Acquire(r) ==
  /\ waitq # << >> /\ Head(waitq) = r
  /\ Cardinality(Holders) < MaxConcurrent
  /\ waitq' = Tail(waitq)
  /\ GotoPh(r, "permit")
  /\ UNCHANGED <<rows, outcome, turns, cancel, calls, late, bounds>>

\* mark_subagent_running, whatever the row's status; an error is dropped.
MarkRunning(r) ==
  /\ ph[r] = "permit"
  /\ \/ status' = [status EXCEPT ![r] = "running"] /\ UNCHANGED faults
     \/ DbFault /\ UNCHANGED status
  /\ GotoPh(r, "check")
  /\ UNCHANGED <<parent, depth, cancelReq, outcome, turns, waitq, cancel, calls, late, kills, crashes, drops>>

\* A mutant of Check: the cancellation is looked up before the first turn only.
CheckOnce(r) ==
  /\ ph[r] = "check"
  /\ IF turns[r] = 0 /\ r \in flagged \cup cancelReq
       THEN EndWith(r, "cancelled")
       ELSE IF turns[r] < MaxTurns THEN GotoPh(r, "send") /\ UNCHANGED outcome ELSE EndWith(r, "failed")
  /\ UNCHANGED <<rows, turns, waitq, cancel, calls, late, bounds>>

\* is_cancelled before each model turn; a failing read ends the run, and so does
\* the end of the iterations.
Check(r) ==
  /\ ph[r] = "check"
  /\ \/ r \in flagged \cup cancelReq /\ EndWith(r, "cancelled") /\ UNCHANGED faults
     \/ /\ r \notin flagged \cup cancelReq
        /\ IF turns[r] < MaxTurns THEN GotoPh(r, "send") /\ UNCHANGED outcome ELSE EndWith(r, "failed")
        /\ UNCHANGED faults
     \/ r \notin flagged /\ DbFault /\ EndWith(r, "failed")
  /\ UNCHANGED <<rows, turns, waitq, cancel, calls, late, kills, crashes, drops>>

\* The model turn begins, whatever was requested since the check.
SendMessage(r) ==
  /\ ph[r] = "send"
  /\ GotoPh(r, "turn")
  /\ turns' = [turns EXCEPT ![r] = @ + 1]
  /\ late' = [late EXCEPT ![r] = IF r \in cancelReq THEN @ + 1 ELSE @]
  /\ UNCHANGED <<rows, outcome, waitq, cancel, calls, bounds>>

\* The model turn ends: with a final answer, with an error or an exceeded
\* budget, or after its tool calls with the next iteration.
EndTurn(r) ==
  /\ ph[r] = "turn"
  /\ r \in Callers => cpc[r] = "idle"
  /\ \/ EndWith(r, "completed")
     \/ EndWith(r, "failed")
     \/ GotoPh(r, "check") /\ UNCHANGED outcome
  /\ UNCHANGED <<rows, turns, waitq, cancel, calls, late, bounds>>

\* subagents_orchestrate with wait: the turn polls its workers' rows, with the
\* permit in hand, until all have ended or its deadline has passed.
StartWait(r) ==
  /\ ph[r] = "turn" /\ r \in Callers /\ cpc[r] = "idle"
  /\ Children(r) # {}
  /\ GotoPh(r, "wait")
  /\ UNCHANGED <<rows, outcome, turns, waitq, cancel, calls, late, bounds>>

\* Its workers have ended, or its deadline has passed: it answers what it found.
EndWait(r) ==
  /\ ph[r] = "wait"
  /\ GotoPh(r, "turn")
  /\ UNCHANGED <<rows, outcome, turns, waitq, cancel, calls, late, bounds>>

\* tokio::time::timeout drops the run wherever it is, a spawn call included.
Timeout(r) ==
  /\ ph[r] \in {"check", "send", "turn", "wait"}
  /\ EndWith(r, "timed_out")
  /\ cpc' = [c \in Callers |-> IF c = r THEN "idle" ELSE cpc[c]]
  /\ cnew' = [c \in Callers |-> IF c = r THEN NoRun ELSE cnew[c]]
  /\ UNCHANGED <<rows, turns, waitq, cancel, late, bounds>>

\* mark_subagent_finished, whatever the row's status (an error is dropped), and
\* remove_run.
Finish(r) ==
  /\ ph[r] = "finish"
  /\ \/ status' = [status EXCEPT ![r] = outcome[r]] /\ UNCHANGED faults
     \/ DbFault /\ UNCHANGED status
  /\ flags' = flags \ {r} /\ flagged' = flagged \ {r}
  /\ GotoPh(r, "flush")
  /\ UNCHANGED <<parent, depth, cancelReq, outcome, turns, waitq, toFlag, calls, late, kills, crashes, drops>>

\* The announcement is enqueued and flushed; the permit is held until then.
Flush(r) ==
  /\ ph[r] = "flush"
  /\ GotoPh(r, "done")
  /\ UNCHANGED <<rows, outcome, turns, waitq, cancel, calls, late, bounds>>

-----------------------------------------------------------------------------
(* subagents_kill, and the process *)

\* A mutant of Kill: the row is ended at once.
KillEndsRow(r) ==
  /\ kills < MaxKills /\ kills' = kills + 1
  /\ status[r] \in Open
  /\ status' = [status EXCEPT ![r] = "cancelled"]
  /\ cancelReq' = cancelReq \cup {r}
  /\ toFlag' = toFlag \cup {r}
  /\ UNCHANGED <<parent, depth, exec, flags, flagged, calls, late, crashes, faults, drops>>

\* request_subagent_cancel: refused for a row that has ended.
Kill(r) ==
  /\ kills < MaxKills /\ kills' = kills + 1
  /\ status[r] \in Open
  /\ cancelReq' = cancelReq \cup {r}
  /\ toFlag' = toFlag \cup {r}
  /\ UNCHANGED <<status, parent, depth, exec, flags, flagged, calls, late, crashes, faults, drops>>

\* A mutant of SetFlag: the flag is created when there is none.
SetFlagAlways(r) ==
  /\ r \in toFlag
  /\ toFlag' = toFlag \ {r}
  /\ flagged' = flagged \cup {r}
  /\ UNCHANGED <<rows, exec, flags, calls, late, bounds>>

\* cancel_run: nothing to set before register_run and after remove_run.
SetFlag(r) ==
  /\ r \in toFlag
  /\ toFlag' = toFlag \ {r}
  /\ flagged' = flagged \cup ({r} \cap flags)
  /\ UNCHANGED <<rows, exec, flags, calls, late, bounds>>

\* The process dies and is started again. Nothing reads subagent_runs at startup.
Crash ==
  /\ crashes < MaxCrashes /\ crashes' = crashes + 1
  /\ ph' = [r \in Runs |-> IF ph[r] = "none" THEN "none" ELSE "done"]
  /\ waitq' = << >>
  /\ flags' = {} /\ flagged' = {} /\ toFlag' = {}
  /\ cpc' = [c \in Callers |-> "idle"]
  /\ cnew' = [c \in Callers |-> NoRun]
  /\ UNCHANGED <<rows, outcome, turns, late, kills, faults, drops>>

-----------------------------------------------------------------------------
Call(c) == CountActive(c) \/ CountChildren(c) \/ Create(c) \/ Spawn(c) \/ DropCall(c)

Execute(r) ==
  \/ MarkQueued(r) \/ Acquire(r) \/ MarkRunning(r) \/ Check(r) \/ SendMessage(r)
  \/ EndTurn(r) \/ StartWait(r) \/ EndWait(r) \/ Timeout(r)
  \/ Finish(r) \/ Flush(r)

Next ==
  \/ \E c \in Callers : Call(c)
  \/ \E r \in Runs : Execute(r) \/ Kill(r) \/ SetFlag(r)
  \/ Crash

Spec == Init /\ [][Next]_vars

(* The runtime's tasks go on and the run timeout fires; a model turn need   *)
(* not end, and nobody has to spawn or to kill anything.                    *)
FairSpec ==
  /\ Spec
  /\ \A c \in Callers : WF_vars(CountChildren(c)) /\ WF_vars(Create(c)) /\ WF_vars(Spawn(c))
  /\ \A r \in Runs :
       /\ WF_vars(MarkQueued(r)) /\ WF_vars(Acquire(r)) /\ WF_vars(MarkRunning(r))
       /\ WF_vars(Check(r)) /\ WF_vars(SendMessage(r)) /\ WF_vars(Timeout(r))
       /\ WF_vars(Finish(r)) /\ WF_vars(Flush(r))

-----------------------------------------------------------------------------
(* Properties *)

\* The limit on the active runs of a chat is overshot by less than the number
\* of spawn calls in progress: each may have counted before the others insert.
\* README-origin.md:1187 "Maximum number of active sub-agent runs allowed per chat"
\* says so without the calls in progress.
ActiveNearLimit ==
  Cardinality(Active) + Cardinality(Creating) <= MaxActive + Cardinality(Callers) - 1

\* The rows that say 'running' and are executed are as many as the semaphore
\* allows: the row is set to 'running' after the permit is taken and to its
\* final status before it is given back.
RunningWithinLane ==
  Cardinality({r \in Runs : status[r] = "running" /\ ph[r] # "done"}) <= MaxConcurrent

\* A kill takes effect after one more model turn at the latest: the one whose
\* check had passed when the kill came. (If that turn is the run's last, the row
\* ends 'completed' for all the kill.)
OneLateTurn == \A r \in Runs : late[r] <= 1

\* The runtime implements SubagentLifecycle, the runs with a permit being its
\* lane: rows go forward only, 'running' is written with a permit in hand, an
\* ended row is touched by no late mark of the executor and by no kill.
Life == INSTANCE SubagentLifecycle WITH lane <- Holders, Width <- MaxConcurrent
ImplementsLifecycle == Life!Spec

\* An open row that nobody executes, nor is about to: its spawn call was dropped, or
\* the process or the write of its end failed.
Abandoned(r) ==
  /\ status[r] \in Open
  /\ \/ ph[r] = "none" /\ \A c \in Callers : cnew[c] # r
     \/ ph[r] = "done" /\ crashes + faults > 0

\* An accepted row reaches a final status, also when its parent waits for it with
\* the only permit in hand: the run timeout sees to that. The exceptions are a row
\* whose spawn call was dropped (by the timeout of its own run, or by a /stop)
\* between the insert and the start of the executor, and one whose executor a crash
\* took; they count against the limits for ever. RFC 0005:51 "accepted -> queued -> running -> completed|failed|
\* timed_out|cancelled" says so without exceptions.
RunEnds == \A r \in Runs : status[r] = "accepted" ~> status[r] \in Terminal \/ Abandoned(r)

=============================================================================
