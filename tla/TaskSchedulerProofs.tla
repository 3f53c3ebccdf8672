------------------------ MODULE TaskSchedulerProofs ------------------------
(***************************************************************************)
(* Proofs about TaskScheduler, for any set of tasks and processes and any  *)
(* bounds: type correctness, that no row is stuck in 'running' unnoticed,  *)
(* that the claim of a task is exclusive, what may undo a user's decision  *)
(* or take a due task away, and how often a slot runs.                     *)
(***************************************************************************)
EXTENDS TaskScheduler, TLAPS

\* A claimable batch is a sequence of due tasks without repetition, in the
\* order of the claim's ORDER BY.
LEMMA DueBatchType ==
  ASSUME nextRun \in [Tasks -> Nat], NEW b \in DueBatches
  PROVE  /\ b \in Seq(Tasks)
         /\ \A i \in DOMAIN b : b[i] \in Tasks /\ Due(b[i])
         /\ \A i, j \in DOMAIN b : b[i] = b[j] => i = j
<1> DEFINE due == {t \in Tasks : Due(t)}
<1>1. PICK n \in 0 .. BatchLimit : b \in [1 .. n -> due]
  BY DEF DueBatches
<1>2. \A i, j \in DOMAIN b : i < j => Before(b[i], b[j])
  BY DEF DueBatches
<1>3. n \in Nat /\ DOMAIN b = 1 .. n
  BY <1>1, BoundsAssumption
<1>4. \A i \in DOMAIN b : b[i] \in Tasks /\ Due(b[i])
  BY <1>1
<1>5. b \in Seq(Tasks)
  BY <1>1, <1>3
<1>6. \A t \in Tasks : ~Before(t, t)
  BY TasksAssumption DEF Before
<1>7. ASSUME NEW i \in DOMAIN b, NEW j \in DOMAIN b, b[i] = b[j]
      PROVE  i = j
  <2>1. ~(i < j) /\ ~(j < i)
    BY <1>2, <1>4, <1>6, <1>7
  <2> QED BY <2>1, <1>3
<1> QED BY <1>4, <1>5, <1>7

\* What is left of a batch after its first task.
LEMMA TailElems ==
  ASSUME NEW s \in Seq(Tasks), s # << >>
  PROVE  /\ Head(s) \in Tasks
         /\ Tail(s) \in Seq(Tasks)
         /\ DOMAIN Tail(s) = 1 .. Len(s) - 1
         /\ \A i \in DOMAIN Tail(s) : i + 1 \in DOMAIN s /\ Tail(s)[i] = s[i + 1]
         /\ Elems(s) = {Head(s)} \cup Elems(Tail(s))
<1>1. /\ Head(s) = s[1] /\ Len(s) \in Nat /\ Len(s) >= 1 /\ DOMAIN s = 1 .. Len(s)
      /\ Tail(s) \in Seq(Tasks) /\ Len(Tail(s)) = Len(s) - 1
      /\ \A i \in 1 .. Len(s) - 1 : Tail(s)[i] = s[i + 1]
  OBVIOUS
<1>2. DOMAIN Tail(s) = 1 .. Len(s) - 1
  BY <1>1
<1>3. Elems(s) = {Head(s)} \cup Elems(Tail(s))
  <2>1. ASSUME NEW i \in DOMAIN s PROVE s[i] \in {Head(s)} \cup Elems(Tail(s))
    <3>1. CASE i = 1 BY <3>1, <1>1
    <3>2. CASE i # 1
      <4>1. i - 1 \in DOMAIN Tail(s) /\ Tail(s)[i - 1] = s[i]
        BY <3>2, <1>1, <1>2
      <4> QED BY <4>1 DEF Elems
    <3> QED BY <3>1, <3>2
  <2>2. ASSUME NEW i \in DOMAIN Tail(s) PROVE Tail(s)[i] \in Elems(s)
    BY <1>1, <1>2 DEF Elems
  <2>3. Head(s) \in Elems(s) BY <1>1 DEF Elems
  <2> QED BY <2>1, <2>2, <2>3 DEF Elems
<1> QED BY <1>1, <1>2, <1>3

-----------------------------------------------------------------------------
(* Type correctness *)

\* Entering the rest of a batch keeps the loop's types.
LEMMA NextOfBatchType ==
  ASSUME TypeOK, NEW p \in Procs, pc[p] \in {"exec", "agent", "dlq", "update"}, NextOfBatch(p)
  PROVE  /\ batch' \in [Procs -> Seq(Tasks)]
         /\ pc' \in [Procs -> {"down", "recover", "poll", "exec", "agent", "dlq", "update", "dead"}]
         /\ \A q \in Procs : pc'[q] \in {"exec", "agent", "dlq", "update"} <=> batch'[q] # << >>
<1>1. batch[p] # << >> /\ batch[p] \in Seq(Tasks)
  BY DEF TypeOK
<1>2. Tail(batch[p]) \in Seq(Tasks)
  BY <1>1, TailElems
<1> QED BY <1>2 DEF TypeOK, NextOfBatch

\* Dropping the first entry of a replay call keeps its types.
LEMMA NextEntryType ==
  ASSUME TypeOK, NEW p \in Procs, NextEntry(p), rlist[p] # << >>
  PROVE  /\ rlist' \in [Procs -> Seq(Nat)]
         /\ rpc' \in [Procs -> {"idle", "check", "requeue", "mark"}]
         /\ rnote' \in [Procs -> {"queued", "skipped"}]
         /\ rnow' \in [Procs -> Nat]
         /\ \A q \in Procs : rpc'[q] # "idle" => rlist'[q] # << >>
<1>1. Tail(rlist[p]) \in Seq(Nat)
  BY DEF TypeOK
<1> QED BY <1>1 DEF TypeOK, NextEntry

\* The operations on the DLQ keep its type.
LEMMA DlqType ==
  ASSUME dlq \in Seq(DlqEntry)
  PROVE  /\ \A t \in Tasks : Append(dlq, [task |-> t, state |-> "pending"]) \in Seq(DlqEntry)
         /\ [i \in DOMAIN dlq |-> [dlq[i] EXCEPT !.state = "deleted"]] \in Seq(DlqEntry)
         /\ \A e : \A m \in {"queued", "skipped"} :
              [dlq EXCEPT ![e].state = m] \in Seq(DlqEntry)
<1>1. ASSUME NEW t \in Tasks
      PROVE  Append(dlq, [task |-> t, state |-> "pending"]) \in Seq(DlqEntry)
  <2>1. [task |-> t, state |-> "pending"] \in DlqEntry BY DEF DlqEntry
  <2> QED BY <2>1
<1>2. ASSUME NEW d \in DlqEntry, NEW m \in {"queued", "skipped", "deleted"}
      PROVE  [d EXCEPT !.state = m] \in DlqEntry
  BY DEF DlqEntry
<1>3. [i \in DOMAIN dlq |-> [dlq[i] EXCEPT !.state = "deleted"]] \in Seq(DlqEntry)
  <2> DEFINE f == [i \in DOMAIN dlq |-> [dlq[i] EXCEPT !.state = "deleted"]]
  <2>1. DOMAIN dlq = 1 .. Len(dlq) /\ Len(dlq) \in Nat /\ \A i \in DOMAIN dlq : dlq[i] \in DlqEntry
    OBVIOUS
  <2>2. \A i \in DOMAIN dlq : f[i] \in DlqEntry BY <2>1, <1>2
  <2>3. f \in [1 .. Len(dlq) -> DlqEntry] BY <2>1, <2>2
  <2>4. f \in Seq(DlqEntry)
    <3> HIDE DEF f
    <3> QED BY <2>1, <2>3
  <2> QED BY <2>4
<1>4. ASSUME NEW e, NEW m \in {"queued", "skipped"}
      PROVE  [dlq EXCEPT ![e].state = m] \in Seq(DlqEntry)
  <2>1. DOMAIN dlq = 1 .. Len(dlq) /\ Len(dlq) \in Nat /\ \A i \in DOMAIN dlq : dlq[i] \in DlqEntry
    OBVIOUS
  <2> DEFINE f == [dlq EXCEPT ![e] = [dlq[e] EXCEPT !.state = m]]
  <2>2. DOMAIN f = DOMAIN dlq /\ f = [i \in DOMAIN dlq |-> f[i]] OBVIOUS
  <2>3. \A i \in DOMAIN dlq : f[i] \in DlqEntry BY <2>1, <1>2
  <2>4. f \in [1 .. Len(dlq) -> DlqEntry] BY <2>1, <2>2, <2>3
  <2>5. f \in Seq(DlqEntry)
    <3> HIDE DEF f
    <3> QED BY <2>1, <2>4
  <2> QED BY <2>5
<1> QED BY <1>1, <1>3, <1>4

\* Every step of a loop keeps the types.
LEMMA LoopType ==
  ASSUME TypeOK, NEW p \in Procs, Loop(p)
  PROVE  TypeOK'
<1> USE DEF tables, loops, replay, bounds, hist, Statuses
<1>1. CASE Start(p) BY <1>1 DEF TypeOK, Start
<1>2. CASE Recover(p) BY <1>2 DEF TypeOK, Recover, DbFault, Held, Elems
<1>3. CASE Claim(p)
  <2>1. PICK b \in DueBatches :
          /\ b # << >>
          /\ batch' = [batch EXCEPT ![p] = b]
          /\ status' = [t \in Tasks |-> IF t \in Elems(b) THEN "running" ELSE status[t]]
    BY <1>3 DEF Claim
  <2>2. b \in Seq(Tasks) BY DueBatchType DEF TypeOK
  <2> QED BY <1>3, <2>1, <2>2 DEF TypeOK, Claim
<1>4. CASE BeginRun(p)
  <2>1. Head(batch[p]) \in Tasks BY <1>4, TailElems DEF TypeOK, BeginRun
  <2> QED BY <1>4, <2>1 DEF TypeOK, BeginRun
<1>5. CASE EndRun(p) BY <1>5 DEF TypeOK, EndRun
<1>6. CASE InsertDlq(p)
  <2>1. Head(batch[p]) \in Tasks BY <1>6, TailElems DEF TypeOK, InsertDlq
  <2>2. dlq' \in Seq(DlqEntry)
    BY <1>6, <2>1, DlqType DEF TypeOK, InsertDlq
  <2>3. pc[p] = "dlq" /\ pc' = [pc EXCEPT ![p] = "update"] /\ faults' \in Nat
    BY <1>6 DEF InsertDlq, DbFault, TypeOK
  <2>4. UNCHANGED <<now, status, kind, nextRun, batch, replay, ops, crashes, hist>>
    BY <1>6 DEF InsertDlq
  <2>5. \A q \in Procs : pc'[q] \in {"exec", "agent", "dlq", "update"} <=> batch'[q] # << >>
    BY <2>3, <2>4 DEF TypeOK
  <2> QED BY <2>2, <2>3, <2>4, <2>5 DEF TypeOK
<1>7. CASE UpdateAfterRun(p)
  <2>1. Head(batch[p]) \in Tasks BY <1>7, TailElems DEF TypeOK, UpdateAfterRun
  <2> DEFINE t == Head(batch[p])
             RowsTyped == /\ status' \in [Tasks -> Statuses] /\ nextRun' \in [Tasks -> Nat]
                          /\ slotRuns' \in [Tasks -> Nat]
  <2>2. RowsTyped
    <3>1. CASE UpdateCron(t)
      <4>1. PICK s \in NextSlots : SetSlot(t, s) BY <3>1 DEF UpdateCron
      <4>2. s \in Nat BY BoundsAssumption DEF NextSlots
      <4>3. status' \in [Tasks -> Statuses] BY <3>1, <2>1 DEF UpdateCron, TypeOK
      <4> QED BY <4>1, <4>2, <4>3, <2>1 DEF SetSlot, TypeOK
    <3>2. CASE UpdateDone(t) BY <3>2, <2>1 DEF UpdateDone, TypeOK
    <3>3. CASE UNCHANGED <<status, nextRun, slotRuns>> BY <3>3 DEF TypeOK
    <3> QED BY <1>7, <3>1, <3>2, <3>3 DEF UpdateAfterRun
  <2>3. /\ batch' \in [Procs -> Seq(Tasks)]
        /\ pc' \in [Procs -> {"down", "recover", "poll", "exec", "agent", "dlq", "update", "dead"}]
        /\ \A q \in Procs : pc'[q] \in {"exec", "agent", "dlq", "update"} <=> batch'[q] # << >>
    BY <1>7, NextOfBatchType DEF UpdateAfterRun
  <2>4. reopened' \subseteq Tasks /\ stranded' \subseteq Tasks /\ faults' \in Nat
    BY <1>7, <2>1 DEF TypeOK, UpdateAfterRun, DbFault
  <2> QED BY <1>7, <2>2, <2>3, <2>4 DEF TypeOK, UpdateAfterRun
<1> QED BY <1>1, <1>2, <1>3, <1>4, <1>5, <1>6, <1>7 DEF Loop

\* Every step of a replay call keeps the types.
LEMMA ReplayType ==
  ASSUME TypeOK, NEW p \in Procs, Replay(p)
  PROVE  TypeOK'
<1> USE DEF tables, loops, replay, bounds, hist, Statuses
<1>1. CASE ReplayList(p)
  <2>1. PICK S \in {Tasks} \cup {{t} : t \in Tasks}, n \in 1 .. ReplayLimit :
          \E l \in [1 .. n -> Pending(S)] : rlist' = [rlist EXCEPT ![p] = l]
    BY <1>1 DEF ReplayList
  <2>2. PICK l \in [1 .. n -> Pending(S)] : rlist' = [rlist EXCEPT ![p] = l]
    BY <2>1
  <2>3. Pending(S) \subseteq Nat BY DEF Pending, TypeOK
  <2>4. l \in Seq(Nat) /\ l # << >>
    <3>1. n \in Nat /\ n >= 1 BY BoundsAssumption
    <3>2. l \in [1 .. n -> Nat] BY <2>3
    <3> QED BY <3>1, <3>2
  <2> QED BY <1>1, <2>2, <2>4 DEF TypeOK, ReplayList, Op
<1>2. CASE ReplayCheck(p)
  <2>1. rlist[p] # << >> BY <1>2 DEF ReplayCheck, TypeOK
  <2>2. /\ rlist' \in [Procs -> Seq(Nat)]
        /\ rpc' \in [Procs -> {"idle", "check", "requeue", "mark"}]
        /\ rnote' \in [Procs -> {"queued", "skipped"}]
        /\ rnow' \in [Procs -> Nat]
        /\ \A q \in Procs : rpc'[q] # "idle" => rlist'[q] # << >>
    <3>1. CASE NextEntry(p) BY <3>1, <2>1, NextEntryType
    <3>2. CASE /\ rlist' = rlist /\ rnow' = rnow
               /\ \E c \in {"requeue", "mark"} : rpc' = [rpc EXCEPT ![p] = c]
               /\ \E m \in {"queued", "skipped"} : rnote' = [rnote EXCEPT ![p] = m]
      BY <3>2, <2>1 DEF TypeOK
    <3>3. rnote[p] \in {"queued", "skipped"} /\ rnote = [rnote EXCEPT ![p] = rnote[p]]
      BY DEF TypeOK
    <3>4. CASE rpc' = [rpc EXCEPT ![p] = "requeue"] /\ UNCHANGED <<rlist, rnote, rnow>>
      BY <3>2, <3>3, <3>4
    <3>5. CASE /\ rpc' = [rpc EXCEPT ![p] = "mark"] /\ UNCHANGED <<rlist, rnow>>
               /\ rnote' = [rnote EXCEPT ![p] = "skipped"]
      BY <3>2, <3>5
    <3> QED BY <1>2, <3>1, <3>4, <3>5 DEF ReplayCheck
  <2>3. faults' \in Nat BY <1>2 DEF ReplayCheck, DbFault, TypeOK
  <2> QED BY <1>2, <2>2, <2>3 DEF TypeOK, ReplayCheck
<1>3. CASE ReplayRequeue(p)
  <2>1. rlist[p] # << >> BY <1>3 DEF ReplayRequeue, TypeOK
  <2>2. ReplayTask(p) \in Row => ReplayTask(p) \in Tasks BY DEF Row
  <2>3. /\ rlist' \in [Procs -> Seq(Nat)]
        /\ rpc' \in [Procs -> {"idle", "check", "requeue", "mark"}]
        /\ rnote' \in [Procs -> {"queued", "skipped"}]
        /\ rnow' \in [Procs -> Nat]
        /\ \A q \in Procs : rpc'[q] # "idle" => rlist'[q] # << >>
    <3>1. CASE NextEntry(p) BY <3>1, <2>1, NextEntryType
    <3>2. CASE /\ rlist' = rlist /\ rnow' = rnow
               /\ rpc' = [rpc EXCEPT ![p] = "mark"]
               /\ rnote' = [rnote EXCEPT ![p] = "queued"]
      BY <3>2, <2>1 DEF TypeOK
    <3> QED BY <1>3, <3>1, <3>2 DEF ReplayRequeue
  <2>4. /\ status' \in [Tasks -> Statuses] /\ nextRun' \in [Tasks -> Nat]
        /\ slotRuns' \in [Tasks -> Nat] /\ reopened' \subseteq Tasks
    <3>1. CASE UNCHANGED <<status, nextRun, slotRuns, reopened>> BY <3>1 DEF TypeOK
    <3>2. CASE /\ ReplayTask(p) \in Row
               /\ status' = [status EXCEPT ![ReplayTask(p)] = "active"]
               /\ nextRun' = [nextRun EXCEPT ![ReplayTask(p)] = rnow[p]]
               /\ slotRuns' = [slotRuns EXCEPT ![ReplayTask(p)] = 0]
               /\ reopened' = reopened \cup ({ReplayTask(p)} \cap Held)
      BY <3>2, <2>2 DEF TypeOK
    <3> QED BY <1>3, <3>1, <3>2 DEF ReplayRequeue
  <2>5. faults' \in Nat BY <1>3 DEF ReplayRequeue, DbFault, TypeOK
  <2> QED BY <1>3, <2>3, <2>4, <2>5 DEF TypeOK, ReplayRequeue
<1>4. CASE ReplayMark(p)
  <2>1. rlist[p] # << >> BY <1>4 DEF ReplayMark, TypeOK
  <2>2. dlq' \in Seq(DlqEntry)
    <3>1. dlq \in Seq(DlqEntry) /\ rnote[p] \in {"queued", "skipped"} BY DEF TypeOK
    <3> QED BY ZenonT(30), <1>4, <3>1, DlqType DEF ReplayMark
  <2>3. /\ rlist' \in [Procs -> Seq(Nat)]
        /\ rpc' \in [Procs -> {"idle", "check", "requeue", "mark"}]
        /\ rnote' \in [Procs -> {"queued", "skipped"}]
        /\ rnow' \in [Procs -> Nat]
        /\ \A q \in Procs : rpc'[q] # "idle" => rlist'[q] # << >>
    BY <1>4, <2>1, NextEntryType DEF ReplayMark
  <2>4. faults' \in Nat BY <1>4 DEF ReplayMark, DbFault, TypeOK
  <2> QED BY <1>4, <2>2, <2>3, <2>4 DEF TypeOK, ReplayMark
<1> QED BY <1>1, <1>2, <1>3, <1>4 DEF Replay

\* Every other step keeps the types.
LEMMA OtherType ==
  ASSUME TypeOK, Tick \/ Tools \/ (\E p \in Procs : Panic(p) \/ Crash(p)) \/ UNCHANGED vars
  PROVE  TypeOK'
<1> USE DEF tables, loops, replay, bounds, hist, Statuses
<1>1. CASE Tick BY <1>1 DEF TypeOK, Tick
<1>2. ASSUME NEW p \in Procs, Panic(p) \/ Crash(p) PROVE TypeOK'
  <2>1. Elems(batch[p]) \subseteq Tasks BY DEF TypeOK, Elems
  <2>2. << >> \in Seq(Tasks) /\ << >> \in Seq(Nat) OBVIOUS
  <2>3. CASE Panic(p) BY <2>1, <2>2, <2>3 DEF TypeOK, Panic, LoseBatch
  <2>4. CASE Crash(p) BY <2>1, <2>2, <2>4 DEF TypeOK, Crash, LoseBatch
  <2> QED BY <1>2, <2>3, <2>4
<1>3. CASE Tools
  <2>1. ASSUME NEW t \in Tasks, NEW k \in {"cron", "once"}, NEW s \in 0 .. MaxTime, Schedule(t, k, s)
        PROVE  TypeOK'
    BY <2>1, BoundsAssumption DEF TypeOK, Schedule
  <2>2. ASSUME NEW t \in Tasks, Pause(t) \/ Resume(t) \/ Cancel(t)
        PROVE  TypeOK'
    <3>1. \A o, st : SetStatus(o, t, st) /\ st \in Statuses => status' \in [Tasks -> Statuses] /\ ops' \in Nat
      BY DEF SetStatus, Op, TypeOK
    <3>2. status' \in [Tasks -> Statuses] /\ ops' \in Nat
      BY <2>2, <3>1 DEF Pause, Resume, Cancel
    <3>3. reopened' \subseteq Tasks /\ slotRuns' \in [Tasks -> Nat]
      <4>1. reopened \subseteq Tasks /\ slotRuns \in [Tasks -> Nat]
        BY DEF TypeOK
      <4>2. CASE Pause(t) \/ Cancel(t)
        BY <4>1, <4>2 DEF Pause, Cancel
      <4>3. CASE Resume(t)
        BY <4>1, <4>3 DEF Resume
      <4> QED
        BY <2>2, <4>2, <4>3
    <3> QED BY SMTT(30), <2>2, <3>2, <3>3 DEF TypeOK, Pause, Resume, Cancel, SetStatus
  <2>3. CASE Reset
    <3>1. dlq' \in Seq(DlqEntry)
      BY <2>3, DlqType DEF Reset, TypeOK
    <3>2. status' \in [Tasks -> Statuses] /\ ops' \in Nat
      BY <2>3 DEF TypeOK, Reset, Op
    <3>3. UNCHANGED <<now, kind, nextRun, loops, replay, crashes, faults, hist>>
      BY <2>3 DEF Reset
    <3> QED BY <3>1, <3>2, <3>3 DEF TypeOK
  <2>4. CASE DeleteChat BY <2>4 DEF TypeOK, DeleteChat, Op
  <2> QED BY <1>3, <2>1, <2>2, <2>3, <2>4 DEF Tools
<1>4. CASE UNCHANGED vars BY <1>4 DEF TypeOK, vars
<1> QED BY <1>1, <1>2, <1>3, <1>4

\* Every reachable state has the types of TypeOK.
THEOREM TypeCorrect == Spec => []TypeOK
<1>1. Init => TypeOK
  BY DEF Init, TypeOK, Statuses
<1>2. TypeOK /\ [Next]_vars => TypeOK'
  BY LoopType, ReplayType, OtherType DEF Next
<1> QED BY <1>1, <1>2, PTL DEF Spec

-----------------------------------------------------------------------------
(* No row is stuck in 'running' unnoticed *)

\* What a loop holds after the first task of its batch is dropped.
LEMMA HeldAfterPop ==
  ASSUME TypeOK, NEW p \in Procs, batch[p] # << >>,
         batch' = [batch EXCEPT ![p] = Tail(@)]
  PROVE  Held \subseteq Held' \cup {Head(batch[p])}
<1>1. Elems(batch[p]) = {Head(batch[p])} \cup Elems(Tail(batch[p]))
  BY TailElems DEF TypeOK
<1>2. \A q \in Procs : batch'[q] = IF q = p THEN Tail(batch[p]) ELSE batch[q]
  BY DEF TypeOK
<1> QED BY <1>1, <1>2 DEF Held

\* A step of a loop keeps the running rows accounted for: only the claim makes
\* a row running, and the claimed batch holds it.
LEMMA LoopAccounts ==
  ASSUME TypeOK, RunningAccounted, NEW p \in Procs, Loop(p)
  PROVE  RunningAccounted'
<1> USE DEF tables, loops, replay, bounds, hist
<1>1. CASE Start(p) BY <1>1 DEF Start, RunningAccounted, Held
<1>2. CASE Recover(p)
  <2>1. CASE UNCHANGED <<status, stranded>>
    BY <1>2, <2>1 DEF Recover, RunningAccounted, Held
  <2>2. CASE status' = [t \in Tasks |-> IF status[t] = "running" THEN "active" ELSE status[t]]
    BY <2>2 DEF RunningAccounted
  <2> QED BY <1>2, <2>1, <2>2 DEF Recover
<1>3. CASE Claim(p)
  <2>1. PICK b \in DueBatches :
          /\ batch' = [batch EXCEPT ![p] = b]
          /\ status' = [t \in Tasks |-> IF t \in Elems(b) THEN "running" ELSE status[t]]
    BY <1>3 DEF Claim
  <2>2. \A q \in Procs : batch'[q] = IF q = p THEN b ELSE batch[q]
    BY <2>1 DEF TypeOK
  <2>3. ASSUME NEW t \in Tasks, status'[t] = "running"
        PROVE  t \in (Held \cup stranded)'
    <3>1. CASE t \in Elems(b) BY <3>1, <2>2 DEF Held
    <3>2. CASE t \notin Elems(b)
      <4>1. status[t] = "running" BY <2>1, <2>3, <3>2
      <4>2. batch[p] = << >> BY <1>3 DEF Claim, TypeOK
      <4>3. \A q \in Procs : t \in Elems(batch[q]) => q # p /\ t \in Elems(batch'[q])
        BY <4>2, <2>2 DEF Elems
      <4>4. t \in Held \/ t \in stranded BY <4>1 DEF RunningAccounted
      <4>5. stranded' = stranded BY <1>3 DEF Claim
      <4> QED BY <4>3, <4>4, <4>5 DEF Held
    <3> QED BY <3>1, <3>2
  <2> QED BY <2>3 DEF RunningAccounted
<1>4. CASE BeginRun(p) BY <1>4 DEF BeginRun, RunningAccounted, Held
<1>5. CASE EndRun(p) BY <1>5 DEF EndRun, RunningAccounted, Held
<1>6. CASE InsertDlq(p) BY <1>6 DEF InsertDlq, RunningAccounted, Held
<1>7. CASE UpdateAfterRun(p)
  <2> DEFINE h == Head(batch[p])
  <2>1. batch[p] # << >> /\ h \in Tasks
    BY <1>7, TailElems DEF UpdateAfterRun, TypeOK
  <2>2. Held \subseteq Held' \cup {h}
    BY <1>7, <2>1, HeldAfterPop DEF UpdateAfterRun, NextOfBatch
  <2>3. CASE UpdateCron(h) \/ UpdateDone(h)
    <3>1. /\ status'[h] # "running"
          /\ \A t \in Tasks : t # h => status'[t] = status[t]
      BY <2>1, <2>3 DEF UpdateCron, UpdateDone, TypeOK
    <3>2. stranded \subseteq stranded' \cup {h}
      BY <1>7 DEF UpdateAfterRun
    <3> QED BY <2>2, <3>1, <3>2 DEF RunningAccounted
  <2>4. CASE h \notin Row /\ UNCHANGED <<status, stranded>>
    <3>1. status[h] # "running" BY <2>1, <2>4 DEF Row
    <3> QED BY <2>2, <2>4, <3>1 DEF RunningAccounted
  <2>5. CASE stranded' = stranded \cup {h} /\ UNCHANGED status
    BY <2>2, <2>5 DEF RunningAccounted
  <2> QED BY <1>7, <2>3, <2>4, <2>5 DEF UpdateAfterRun
<1> QED BY <1>1, <1>2, <1>3, <1>4, <1>5, <1>6, <1>7 DEF Loop

\* No tool makes a row running, and a crash or a panic turns held tasks into stranded ones.
LEMMA OtherAccounts ==
  ASSUME TypeOK, RunningAccounted,
         Tick \/ Tools \/ (\E p \in Procs : Panic(p) \/ Crash(p) \/ Replay(p)) \/ UNCHANGED vars
  PROVE  RunningAccounted'
<1> USE DEF tables, loops, replay, bounds, hist
<1>1. ASSUME NEW p \in Procs, Panic(p) \/ Crash(p) PROVE RunningAccounted'
  <2>1. \A q \in Procs : batch'[q] = IF q = p THEN << >> ELSE batch[q]
    BY <1>1 DEF Panic, Crash, LoseBatch, TypeOK
  <2>2. Held \subseteq Held' \cup Elems(batch[p])
    BY <2>1 DEF Held
  <2> QED BY <1>1, <2>2 DEF Panic, Crash, LoseBatch, RunningAccounted
<1>2. ASSUME /\ UNCHANGED <<batch, stranded>>
             /\ \A t \in Tasks : status'[t] = "running" => status[t] = "running"
      PROVE  RunningAccounted'
  BY <1>2 DEF RunningAccounted, Held
<1>3. CASE Tick BY <1>2, <1>3 DEF Tick
<1>4. CASE UNCHANGED vars BY <1>2, <1>4 DEF vars
<1>5. ASSUME NEW p \in Procs, Replay(p) PROVE RunningAccounted'
  <2>1. UNCHANGED <<batch, stranded>>
    BY <1>5 DEF Replay, ReplayList, ReplayCheck, ReplayRequeue, ReplayMark
  <2>2. CASE UNCHANGED status BY <1>2, <2>1, <2>2
  <2>3. CASE status' = [status EXCEPT ![ReplayTask(p)] = "active"]
    <3>1. \A t \in Tasks : status'[t] = "running" => status[t] = "running"
      BY <2>3 DEF TypeOK
    <3> QED BY <1>2, <2>1, <3>1
  <2> QED BY <1>5, <2>2, <2>3 DEF Replay, ReplayList, ReplayCheck, ReplayRequeue, ReplayMark
<1>6. CASE Tools
  <2>1. UNCHANGED <<batch, stranded>>
    BY <1>6 DEF Tools, Schedule, Pause, Resume, Cancel, SetStatus, Reset, DeleteChat
  <2>2. ASSUME NEW t \in Tasks, NEW st \in Statuses, st # "running",
               status' = [status EXCEPT ![t] = st]
        PROVE  \A u \in Tasks : status'[u] = "running" => status[u] = "running"
    BY <2>2 DEF TypeOK
  <2>3. CASE Reset \/ DeleteChat
    BY <1>2, <2>1, <2>3 DEF Reset, DeleteChat
  <2>4. CASE \E t \in Tasks : \E k \in {"cron", "once"}, s \in 0 .. MaxTime : Schedule(t, k, s)
    BY <1>2, <2>1, <2>2, <2>4 DEF Schedule, Statuses
  <2>5. CASE \E t \in Tasks : Pause(t) \/ Resume(t) \/ Cancel(t)
    BY <1>2, <2>1, <2>2, <2>5 DEF Pause, Resume, Cancel, SetStatus, Statuses
  <2> QED BY <1>6, <2>3, <2>4, <2>5 DEF Tools
<1> QED BY <1>1, <1>3, <1>4, <1>5, <1>6

\* A row is 'running' only while a live loop holds it or after its holder
\* crashed or failed to write the outcome: no other path of the code leaves a
\* task where no tick and no tool but a resume can reach it.
THEOREM RunningAccountedCorrect == Spec => []RunningAccounted
<1>1. Init => RunningAccounted
  BY DEF Init, RunningAccounted
<1>2. TypeOK /\ RunningAccounted /\ [Next]_vars => RunningAccounted'
  BY LoopAccounts, OtherAccounts DEF Next
<1> QED BY <1>1, <1>2, TypeCorrect, PTL DEF Spec

-----------------------------------------------------------------------------
(* The claim is exclusive *)

\* A held task has a row, or had one.
HeldCreated == \A p \in Procs : \A i \in DOMAIN batch[p] : status[batch[p][i]] # "none"

\* ExclusiveClaim is inductive together with HeldCreated: without it, inserting
\* a row could make a held id active.
ExclusiveInv == ExclusiveClaim /\ HeldCreated

\* A step that takes no task into a batch keeps the invariant if the tasks it
\* sets active and that are still held are in reopened.
LEMMA KeepsExclusive ==
  ASSUME TypeOK, TypeOK', ExclusiveInv, UNCHANGED batch, reopened \subseteq reopened',
         \A t \in Tasks : status'[t] = "active" => status[t] \in {"active", "none"} \/ t \notin Held \/ t \in reopened',
         \A t \in Tasks : status'[t] = "none" => status[t] = "none"
  PROVE  ExclusiveInv'
<1>1. \A p \in Procs : \A i \in DOMAIN batch[p] : batch[p][i] \in Tasks /\ batch[p][i] \in Held
  <2> SUFFICES ASSUME NEW p \in Procs, NEW i \in DOMAIN batch[p]
               PROVE  batch[p][i] \in Tasks /\ batch[p][i] \in Held
    OBVIOUS
  <2>1. batch[p][i] \in Tasks BY DEF TypeOK
  <2>2. batch[p][i] \in Elems(batch[p]) BY DEF Elems
  <2> QED BY <2>1, <2>2 DEF Held
<1>2. HeldCreated' BY <1>1 DEF ExclusiveInv, HeldCreated
<1>3. ExclusiveClaim'
  <2> SUFFICES ASSUME NEW p \in Procs, NEW i \in DOMAIN batch[p], batch[p][i] \notin reopened'
               PROVE  /\ status'[batch[p][i]] # "active"
                      /\ \A q \in Procs : \A j \in DOMAIN batch[q] :
                           batch[q][j] = batch[p][i] => q = p /\ j = i
    BY DEF ExclusiveClaim
  <2>1. /\ status[batch[p][i]] # "active"
        /\ \A q \in Procs : \A j \in DOMAIN batch[q] :
             batch[q][j] = batch[p][i] => q = p /\ j = i
    BY DEF ExclusiveInv, ExclusiveClaim
  <2>2. status[batch[p][i]] # "none" BY DEF ExclusiveInv, HeldCreated
  <2> QED BY <1>1, <2>1, <2>2
<1> QED BY <1>2, <1>3 DEF ExclusiveInv

\* The claim takes active rows only, which no batch holds.
LEMMA ClaimExclusive ==
  ASSUME TypeOK, TypeOK', ExclusiveInv, NEW p \in Procs, Claim(p)
  PROVE  ExclusiveInv'
<1>1. PICK b \in DueBatches :
        /\ batch' = [batch EXCEPT ![p] = b]
        /\ status' = [t \in Tasks |-> IF t \in Elems(b) THEN "running" ELSE status[t]]
  BY DEF Claim
<1>2. \A q \in Procs : batch'[q] = IF q = p THEN b ELSE batch[q]
  BY <1>1 DEF TypeOK
<1>3. /\ \A i \in DOMAIN b : b[i] \in Tasks /\ status[b[i]] = "active"
      /\ \A i, j \in DOMAIN b : b[i] = b[j] => i = j
  BY DueBatchType DEF TypeOK, Due
<1>4. reopened' = reopened BY DEF Claim, hist
<1>5. \A q \in Procs : \A i \in DOMAIN batch[q] : batch[q][i] \in Tasks
  BY SMTT(30) DEF TypeOK
<1>6. \A q \in Procs : \A i \in DOMAIN batch[q] :
        batch[q][i] \notin reopened => status[batch[q][i]] # "active"
  BY DEF ExclusiveInv, ExclusiveClaim
<1>7. HeldCreated'
  <2>1. ASSUME NEW q \in Procs, NEW i \in DOMAIN batch'[q] PROVE status'[batch'[q][i]] # "none"
    <3>1. CASE q = p BY <3>1, <1>1, <1>2, <1>3 DEF Elems
    <3>2. CASE q # p BY <3>2, <1>1, <1>2, <1>5 DEF ExclusiveInv, HeldCreated
    <3> QED BY <3>1, <3>2
  <2> QED BY <2>1 DEF HeldCreated
<1>8. ASSUME NEW q \in Procs, NEW i \in DOMAIN batch'[q], batch'[q][i] \notin reopened
      PROVE  status'[batch'[q][i]] # "active"
  <2> DEFINE t == batch'[q][i]
  <2>1. t \in Tasks BY DEF TypeOK
  <2>2. t \notin Elems(b) => q # p BY <1>2 DEF Elems
  <2>3. q # p => status[t] # "active" BY <1>2, <1>6, <1>8
  <2> QED BY <1>1, <2>1, <2>2, <2>3
<1>9. ASSUME NEW q \in Procs, NEW i \in DOMAIN batch'[q], batch'[q][i] \notin reopened,
             NEW r \in Procs, NEW j \in DOMAIN batch'[r], batch'[r][j] = batch'[q][i]
      PROVE  r = q /\ j = i
  <2>1. CASE q = p /\ r = p BY <1>2, <1>3, <1>9, <2>1
  <2>2. CASE q # p /\ r = p BY <1>2, <1>3, <1>6, <1>9, <2>2
  <2>3. CASE q = p /\ r # p BY <1>2, <1>3, <1>6, <1>9, <2>3
  <2>4. CASE q # p /\ r # p BY <1>2, <1>9, <2>4 DEF ExclusiveInv, ExclusiveClaim
  <2> QED BY <2>1, <2>2, <2>3, <2>4
<1> QED BY <1>4, <1>7, <1>8, <1>9 DEF ExclusiveInv, ExclusiveClaim

\* The update that ends a run may set the row active: by then the task has left
\* the only batch that held it, or is in reopened.
LEMMA UpdateExclusive ==
  ASSUME TypeOK, TypeOK', ExclusiveInv, NEW p \in Procs, UpdateAfterRun(p)
  PROVE  ExclusiveInv'
<1> DEFINE h == Head(batch[p])
<1>1. batch[p] # << >> /\ batch[p] \in Seq(Tasks) /\ h \in Tasks /\ h = batch[p][1] /\ 1 \in DOMAIN batch[p]
  BY TailElems DEF UpdateAfterRun, TypeOK
<1>2. \A q \in Procs : batch'[q] = IF q = p THEN Tail(batch[p]) ELSE batch[q]
  BY DEF UpdateAfterRun, NextOfBatch, TypeOK
<1>3. /\ DOMAIN Tail(batch[p]) \subseteq Nat
      /\ \A i \in DOMAIN Tail(batch[p]) :
           i + 1 \in DOMAIN batch[p] /\ Tail(batch[p])[i] = batch[p][i + 1] /\ i + 1 # 1
  BY <1>1, TailElems
<1> DEFINE old(q, i) == IF q = p THEN i + 1 ELSE i
<1>4. \A q \in Procs : \A i \in DOMAIN batch'[q] :
        old(q, i) \in DOMAIN batch[q] /\ batch'[q][i] = batch[q][old(q, i)]
  BY <1>2, <1>3
<1>5. \A q \in Procs : \A i \in DOMAIN batch'[q] : batch'[q][i] \in Tasks
  BY DEF TypeOK
<1>6. \A q \in Procs : \A i \in DOMAIN batch'[q] : batch'[q][i] \notin reopened' => batch'[q][i] \notin reopened
  BY DEF UpdateAfterRun, Elems
<1>7. /\ \A t \in Tasks : t # h => status'[t] = status[t]
      /\ status[h] # "none" => status'[h] # "none"
  <2>1. status \in [Tasks -> Statuses] BY DEF TypeOK
  <2>2. UNCHANGED status \/ UpdateCron(h) \/ UpdateDone(h) BY DEF UpdateAfterRun
  <2>3. UNCHANGED status \/ \E st \in {"active", "completed"} : status' = [status EXCEPT ![h] = st]
    BY <2>2 DEF UpdateCron, UpdateDone
  <2> QED BY <1>1, <2>1, <2>3
<1>9. ASSUME NEW q \in Procs, NEW i \in DOMAIN batch'[q], batch'[q][i] \notin reopened'
      PROVE  batch'[q][i] # h
  <2>1. SUFFICES ASSUME batch'[q][i] = h PROVE FALSE OBVIOUS
  <2>2. h \notin reopened BY <1>6, <1>9, <2>1
  <2>3. q = p /\ old(q, i) = 1
    BY <1>1, <1>4, <2>1, <2>2 DEF ExclusiveInv, ExclusiveClaim
  <2> QED BY <1>2, <1>3, <2>3
<1>10. HeldCreated'
  BY <1>4, <1>5, <1>7 DEF ExclusiveInv, HeldCreated
<1>11. ASSUME NEW q \in Procs, NEW i \in DOMAIN batch'[q], batch'[q][i] \notin reopened'
       PROVE  status'[batch'[q][i]] # "active"
  <2>1. status'[batch'[q][i]] = status[batch'[q][i]] BY <1>5, <1>7, <1>9, <1>11
  <2> QED BY <2>1, <1>4, <1>6, <1>11 DEF ExclusiveInv, ExclusiveClaim
<1>12. ASSUME NEW q \in Procs, NEW i \in DOMAIN batch'[q], batch'[q][i] \notin reopened',
              NEW r \in Procs, NEW j \in DOMAIN batch'[r], batch'[r][j] = batch'[q][i]
       PROVE  r = q /\ j = i
  <2>1. r = q /\ old(r, j) = old(q, i)
    BY <1>4, <1>6, <1>12 DEF ExclusiveInv, ExclusiveClaim
  <2>2. q = p => i \in Nat /\ j \in Nat BY <1>2, <1>3, <2>1
  <2> QED BY <2>1, <2>2
<1> QED BY <1>10, <1>11, <1>12 DEF ExclusiveInv, ExclusiveClaim

\* Every other step keeps the batches, or empties the one of a crashed process,
\* and records in reopened what it sets active while held.
LEMMA OtherExclusive ==
  ASSUME TypeOK, TypeOK', ExclusiveInv, [Next]_vars,
         \A p \in Procs : ~Claim(p) /\ ~UpdateAfterRun(p)
  PROVE  ExclusiveInv'
<1> USE DEF tables, loops, replay, bounds, hist
<1>1. CASE Tick \/ UNCHANGED vars BY <1>1, KeepsExclusive DEF Tick, vars
<1>2. ASSUME NEW p \in Procs, Start(p) \/ BeginRun(p) \/ EndRun(p) \/ InsertDlq(p)
      PROVE  ExclusiveInv'
  BY <1>2, KeepsExclusive DEF Start, BeginRun, EndRun, InsertDlq
<1>3. ASSUME NEW p \in Procs, Recover(p) PROVE ExclusiveInv'
  <2>1. CASE UNCHANGED <<status, reopened>> BY <1>3, <2>1, KeepsExclusive DEF Recover
  <2>2. CASE /\ status' = [t \in Tasks |-> IF status[t] = "running" THEN "active" ELSE status[t]]
             /\ reopened' = reopened \cup {t \in Held : status[t] = "running"}
    <3>1. \A t \in Tasks : status'[t] = "active" =>
            status[t] \in {"active", "none"} \/ t \notin Held \/ t \in reopened'
      BY <2>2
    <3>2. \A t \in Tasks : status'[t] = "none" => status[t] = "none" BY <2>2
    <3>3. UNCHANGED batch /\ reopened \subseteq reopened' BY <1>3, <2>2 DEF Recover
    <3> QED BY <3>1, <3>2, <3>3, KeepsExclusive
  <2> QED BY <1>3, <2>1, <2>2 DEF Recover
<1>4. ASSUME NEW p \in Procs, Replay(p) PROVE ExclusiveInv'
  <2> DEFINE t == ReplayTask(p)
  <2>1. UNCHANGED batch
    BY <1>4 DEF Replay, ReplayList, ReplayCheck, ReplayRequeue, ReplayMark
  <2>2. CASE UNCHANGED <<status, reopened>> BY <2>1, <2>2, KeepsExclusive
  <2>3. CASE /\ t \in Row
             /\ status' = [status EXCEPT ![t] = "active"]
             /\ reopened' = reopened \cup ({t} \cap Held)
    <3>1. \A u \in Tasks : u # t => status'[u] = status[u] BY <2>3 DEF TypeOK
    <3>2. status'[t] = "active" /\ (t \notin Held \/ t \in reopened') BY <2>3 DEF TypeOK, Row
    <3>3. reopened \subseteq reopened' BY <2>3
    <3> QED BY <2>1, <3>1, <3>2, <3>3, KeepsExclusive
  <2> QED BY <1>4, <2>2, <2>3 DEF Replay, ReplayList, ReplayCheck, ReplayRequeue, ReplayMark
<1>5. ASSUME NEW p \in Procs, Panic(p) \/ Crash(p) PROVE ExclusiveInv'
  <2>1. \A q \in Procs : batch'[q] = IF q = p THEN << >> ELSE batch[q]
    <3>1. batch \in [Procs -> Seq(Tasks)]
      BY DEF TypeOK
    <3>2. batch' = [batch EXCEPT ![p] = << >>]
      BY <1>5 DEF Panic, Crash, LoseBatch
    <3> QED
      BY <3>1, <3>2
  <2>2. \A q \in Procs : \A i \in DOMAIN batch'[q] : q # p
    <3>1. DOMAIN << >> = {}
      OBVIOUS
    <3> QED
      BY <2>1, <3>1
  <2>3. \A q \in Procs : \A i \in DOMAIN batch'[q] :
          batch'[q][i] \notin reopened' => batch'[q][i] \notin reopened
    BY <1>5 DEF Panic, Crash, LoseBatch, Elems
  <2>4. UNCHANGED status BY <1>5 DEF Panic, Crash
  <2> QED BY <2>1, <2>2, <2>3, <2>4 DEF ExclusiveInv, ExclusiveClaim, HeldCreated
<1>6. CASE Tools
  <2>1. UNCHANGED batch /\ reopened \subseteq reopened'
    BY <1>6 DEF Tools, Schedule, Pause, Resume, Cancel, SetStatus, Reset, DeleteChat
  <2>2. ASSUME NEW t \in Tasks, NEW st \in Statuses \ {"none"}, status' = [status EXCEPT ![t] = st],
               st = "active" => status[t] = "none" \/ t \notin Held \/ t \in reopened'
        PROVE  ExclusiveInv'
    <3>1. \A u \in Tasks : status'[u] = IF u = t THEN st ELSE status[u] BY <2>2 DEF TypeOK
    <3> QED BY <2>1, <2>2, <3>1, KeepsExclusive
  <2>3. CASE Reset \/ DeleteChat
    <3>1. \A t \in Tasks : status'[t] \in {status[t], "deleted"}
      BY <2>3 DEF Reset, DeleteChat
    <3>2. \A t \in Tasks : status'[t] = "active" =>
            status[t] \in {"active", "none"} \/ t \notin Held \/ t \in reopened'
      BY <3>1
    <3>3. \A t \in Tasks : status'[t] = "none" => status[t] = "none"
      BY <3>1
    <3> QED BY <2>1, <3>2, <3>3, KeepsExclusive
  <2>4. CASE \E t \in Tasks : \E k \in {"cron", "once"}, s \in 0 .. MaxTime : Schedule(t, k, s)
    BY <2>2, <2>4 DEF Schedule, Statuses
  <2>5. ASSUME NEW t \in Tasks, Pause(t) \/ Cancel(t) PROVE ExclusiveInv'
    BY <2>2, <2>5 DEF Pause, Cancel, SetStatus, Statuses
  <2>6. ASSUME NEW t \in Tasks, Resume(t) PROVE ExclusiveInv'
    <3>1. t \notin Held \/ t \in reopened' BY <2>6 DEF Resume
    <3> QED BY <2>2, <2>6, <3>1 DEF Resume, SetStatus, Statuses
  <2> QED BY <1>6, <2>3, <2>4, <2>5, <2>6 DEF Tools
<1> QED BY <1>1, <1>2, <1>3, <1>4, <1>5, <1>6 DEF Next, Loop

LEMMA ExclusiveInvariant == Spec => []ExclusiveInv
<1>1. Init => ExclusiveInv
  BY DEF Init, ExclusiveInv, ExclusiveClaim, HeldCreated
<1>2. TypeOK /\ TypeOK' /\ ExclusiveInv /\ [Next]_vars => ExclusiveInv'
  <2> SUFFICES ASSUME TypeOK, TypeOK', ExclusiveInv, [Next]_vars PROVE ExclusiveInv'
    OBVIOUS
  <2>1. ASSUME NEW p \in Procs, Claim(p) PROVE ExclusiveInv' BY <2>1, ClaimExclusive
  <2>2. ASSUME NEW p \in Procs, UpdateAfterRun(p) PROVE ExclusiveInv' BY <2>2, UpdateExclusive
  <2>3. CASE \A p \in Procs : ~Claim(p) /\ ~UpdateAfterRun(p) BY <2>3, OtherExclusive
  <2> QED BY <2>1, <2>2, <2>3
<1> QED BY <1>1, <1>2, TypeCorrect, PTL DEF Spec

\* Whatever the processes and the tools do, two loops (or one loop twice) hold
\* the same task only if it was set active while it was held. Two processes on
\* one database therefore never claim the same due task.
THEOREM ExclusiveClaimCorrect == Spec => []ExclusiveClaim
<1>1. ExclusiveInv => ExclusiveClaim BY DEF ExclusiveInv
<1> QED BY <1>1, ExclusiveInvariant, PTL

-----------------------------------------------------------------------------
(* A withdrawn task *)

\* No step sets a paused or cancelled task active or running, but a resume, a replay and
\* the end of a run that was claimed before: not the recovery at the start of a process,
\* not the claim, and not the run of another task (db/task.rs).
THEOREM WithdrawalHoldsCorrect == Spec => WithdrawalHolds
<1> DEFINE Undone(t) == status[t] \in {"paused", "cancelled"} /\ status'[t] \in {"active", "running"}
           Excused(t) == \/ Resume(t)
                         \/ \E p \in Procs : rpc[p] = "requeue" /\ ReplayTask(p) = t /\ ReplayRequeue(p)
                         \/ \E p \in Procs : pc[p] = "update" /\ Head(batch[p]) = t /\ UpdateAfterRun(p)
<1>1. ASSUME TypeOK, [Next]_vars, NEW t \in Tasks, Undone(t) PROVE Excused(t)
  <2> USE DEF tables, loops, replay, bounds, hist
  <2>0. status \in [Tasks -> Statuses] /\ nextRun \in [Tasks -> Nat] /\ status' # status
    BY <1>1 DEF TypeOK
  <2>1. ASSUME NEW p \in Procs, Loop(p) PROVE Excused(t)
    <3>1. CASE Recover(p)
      BY <1>1, <2>0, <3>1 DEF Recover
    <3>2. CASE Claim(p)
      <4>1. PICK b \in DueBatches : status' = [u \in Tasks |-> IF u \in Elems(b) THEN "running" ELSE status[u]]
        BY <3>2 DEF Claim
      <4>2. \A u \in Elems(b) : status[u] = "active"
        BY <2>0, DueBatchType DEF Elems, Due
      <4> QED
        BY <1>1, <4>1, <4>2
    <3>3. CASE UpdateAfterRun(p)
      <4>1. UNCHANGED status \/ \E st : status' = [status EXCEPT ![Head(batch[p])] = st]
        BY <3>3 DEF UpdateAfterRun, UpdateCron, UpdateDone
      <4>2. Head(batch[p]) = t
        BY <1>1, <2>0, <4>1
      <4> QED
        BY <3>3, <4>2 DEF UpdateAfterRun
    <3> QED
      BY <2>0, <2>1, <3>1, <3>2, <3>3 DEF Loop, Start, BeginRun, EndRun, InsertDlq
  <2>2. ASSUME NEW p \in Procs, Replay(p) PROVE Excused(t)
    <3>1. ReplayRequeue(p) /\ status' = [status EXCEPT ![ReplayTask(p)] = "active"]
      BY <2>0, <2>2 DEF Replay, ReplayList, ReplayCheck, ReplayRequeue, ReplayMark
    <3>2. ReplayTask(p) = t
      BY <1>1, <2>0, <3>1
    <3> QED
      BY <3>1, <3>2 DEF ReplayRequeue
  <2>3. CASE Tools
    <3>1. ASSUME NEW u \in Tasks, NEW k, NEW s, Schedule(u, k, s) PROVE FALSE
      BY <1>1, <2>0, <3>1 DEF Schedule
    <3>2. ASSUME NEW u \in Tasks, Pause(u) \/ Cancel(u) PROVE FALSE
      BY <1>1, <2>0, <3>2 DEF Pause, Cancel, SetStatus
    <3>3. ASSUME NEW u \in Tasks, Resume(u) PROVE Excused(t)
      BY <1>1, <2>0, <3>3 DEF Resume, SetStatus
    <3>4. ~Reset /\ ~DeleteChat
      BY <1>1, <2>0 DEF Reset, DeleteChat
    <3> QED
      BY <2>3, <3>1, <3>2, <3>3, <3>4 DEF Tools
  <2> QED
    BY <1>1, <2>0, <2>1, <2>2, <2>3 DEF Next, Tick, Panic, Crash, vars
<1>2. TypeOK /\ [Next]_vars =>
        [\A t \in Tasks :
           status[t] \in {"paused", "cancelled"} /\ status'[t] \in {"active", "running"} =>
             \/ Resume(t)
             \/ \E p \in Procs : rpc[p] = "requeue" /\ ReplayTask(p) = t /\ ReplayRequeue(p)
             \/ \E p \in Procs : pc[p] = "update" /\ Head(batch[p]) = t /\ UpdateAfterRun(p)]_vars
  BY <1>1
<1> QED
  BY <1>2, TypeCorrect, PTL DEF Spec, WithdrawalHolds

-----------------------------------------------------------------------------
(* A due task *)

\* A replay does not move a task into the future.
ReplayPast == \A p \in Procs : rnow[p] <= now

LEMMA ReplayPastStep == TypeOK /\ ReplayPast /\ [Next]_vars => ReplayPast'
<1> SUFFICES ASSUME TypeOK, ReplayPast, [Next]_vars PROVE ReplayPast'
  OBVIOUS
<1> USE DEF tables, loops, replay, bounds, hist
<1>1. now \in Nat /\ rnow \in [Procs -> Nat]
  BY DEF TypeOK
<1>2. now' \in Nat /\ now <= now'
  <2>1. CASE Tick
    BY <1>1, <2>1 DEF Tick
  <2>2. ASSUME NEW p \in Procs, Loop(p) \/ Panic(p) \/ Replay(p) \/ Crash(p) PROVE UNCHANGED now
    BY <2>2 DEF Loop, Start, Recover, Claim, BeginRun, EndRun, InsertDlq, UpdateAfterRun, Replay, ReplayList,
                ReplayCheck, ReplayRequeue, ReplayMark, Panic, Crash
  <2>3. Tools \/ UNCHANGED vars => UNCHANGED now
    BY DEF Tools, Schedule, Pause, Resume, Cancel, SetStatus, Reset, DeleteChat, vars
  <2> QED
    BY <1>1, <2>1, <2>2, <2>3 DEF Next
<1>3. \A q \in Procs : rnow'[q] \in {rnow[q], 0, now}
  <2>1. ASSUME NEW p \in Procs, Replay(p) PROVE \A q \in Procs : rnow'[q] \in {rnow[q], 0, now}
    BY <1>1, <2>1 DEF Replay, ReplayList, ReplayCheck, ReplayRequeue, ReplayMark, NextEntry
  <2>2. ASSUME NEW p \in Procs, Crash(p) PROVE \A q \in Procs : rnow'[q] \in {rnow[q], 0, now}
    BY <1>1, <2>2 DEF Crash
  <2>3. ASSUME NEW p \in Procs, Loop(p) \/ Panic(p) PROVE UNCHANGED rnow
    BY <2>3 DEF Loop, Start, Recover, Claim, BeginRun, EndRun, InsertDlq, UpdateAfterRun, Panic
  <2>4. Tick \/ Tools \/ UNCHANGED vars => UNCHANGED rnow
    BY DEF Tick, Tools, Schedule, Pause, Resume, Cancel, SetStatus, Reset, DeleteChat, vars
  <2> QED
    BY <2>1, <2>2, <2>3, <2>4 DEF Next
<1> QED
  BY <1>1, <1>2, <1>3 DEF ReplayPast

\* A due task stops being due by its claim or by the user, unless it was set active while
\* a loop held it: neither the clock, nor the recovery, nor a replay, nor another run does it.
THEOREM DueLostOnlyIfHeldCorrect == Spec => DueLostOnlyIfHeld
<1> DEFINE Lost(t) == Due(t) /\ ~Due(t)' /\ t \notin reopened
           Excused(t) == (\E p \in Procs : Claim(p) /\ t \in Elems(batch'[p])) \/ UserStops(t)
<1>1. ASSUME TypeOK, ExclusiveInv, ReplayPast, [Next]_vars, NEW t \in Tasks, Lost(t) PROVE Excused(t)
  <2> USE DEF tables, loops, replay, bounds, hist
  <2>0. /\ status \in [Tasks -> Statuses] /\ nextRun \in [Tasks -> Nat] /\ now \in Nat /\ rnow \in [Procs -> Nat]
        /\ batch \in [Procs -> Seq(Tasks)]
        /\ status[t] = "active" /\ nextRun[t] <= now /\ t \notin reopened
        /\ ~(status'[t] = "active" /\ nextRun'[t] <= now')
    BY <1>1 DEF TypeOK, Due
  <2>1. ASSUME NEW p \in Procs, Loop(p) PROVE Excused(t)
    <3>1. CASE Claim(p)
      <4>1. PICK b \in DueBatches : /\ batch' = [batch EXCEPT ![p] = b]
                                    /\ status' = [u \in Tasks |-> IF u \in Elems(b) THEN "running" ELSE status[u]]
        BY <3>1 DEF Claim
      <4>2. UNCHANGED <<nextRun, now>> /\ batch'[p] = b
        BY <2>0, <3>1, <4>1 DEF Claim
      <4>3. t \in Elems(b)
        BY <2>0, <4>1, <4>2
      <4> QED
        BY <3>1, <4>2, <4>3
    <3>2. CASE UpdateAfterRun(p)
      <4>1. batch[p] # << >> /\ batch[p] \in Seq(Tasks)
        BY <1>1, <2>0, <3>2 DEF TypeOK, UpdateAfterRun
      <4>2. Head(batch[p]) = batch[p][1] /\ 1 \in DOMAIN batch[p]
        BY <4>1
      <4>3. Head(batch[p]) # t
        BY <1>1, <2>0, <4>2 DEF ExclusiveInv, ExclusiveClaim
      <4>4. UNCHANGED status \/ \E st : status' = [status EXCEPT ![Head(batch[p])] = st]
        BY <3>2 DEF UpdateAfterRun, UpdateCron, UpdateDone
      <4>5. UNCHANGED nextRun \/ \E s : nextRun' = [nextRun EXCEPT ![Head(batch[p])] = s]
        BY <3>2 DEF UpdateAfterRun, UpdateCron, UpdateDone, SetSlot
      <4> QED
        BY <2>0, <3>2, <4>3, <4>4, <4>5 DEF UpdateAfterRun
    <3>3. CASE Recover(p)
      BY <2>0, <3>3 DEF Recover
    <3> QED
      BY <2>0, <2>1, <3>1, <3>2, <3>3 DEF Loop, Start, BeginRun, EndRun, InsertDlq
  <2>2. ASSUME NEW p \in Procs, Replay(p) PROVE FALSE
    <3>1. UNCHANGED now /\ \/ UNCHANGED <<status, nextRun>>
                           \/ /\ status' = [status EXCEPT ![ReplayTask(p)] = "active"]
                              /\ nextRun' = [nextRun EXCEPT ![ReplayTask(p)] = rnow[p]]
      BY <2>2 DEF Replay, ReplayList, ReplayCheck, ReplayRequeue, ReplayMark
    <3> QED
      BY <1>1, <2>0, <3>1 DEF ReplayPast
  <2>3. CASE Tools
    <3>1. ASSUME NEW u \in Tasks, NEW k, NEW s, Schedule(u, k, s) PROVE FALSE
      BY <2>0, <3>1 DEF Schedule
    <3>2. ASSUME NEW u \in Tasks, Pause(u) \/ Cancel(u) PROVE Excused(t)
      <4>1. u = t
        BY <2>0, <3>2 DEF Pause, Cancel, SetStatus
      <4> QED
        BY <3>2, <4>1 DEF UserStops
    <3>3. ASSUME NEW u \in Tasks, Resume(u) PROVE FALSE
      BY <2>0, <3>3 DEF Resume, SetStatus
    <3> QED
      BY <2>3, <3>1, <3>2, <3>3 DEF Tools, UserStops
  <2> QED
    BY <1>1, <2>0, <2>1, <2>2, <2>3 DEF Next, Tick, Panic, Crash, vars
<1>2. TypeOK /\ ExclusiveInv /\ ReplayPast /\ [Next]_vars =>
        [\A t \in Tasks : Due(t) /\ ~Due(t)' /\ t \notin reopened =>
           (\E p \in Procs : Claim(p) /\ t \in Elems(batch'[p])) \/ UserStops(t)]_vars
  BY <1>1
<1>3. Init => ReplayPast
  BY DEF Init, ReplayPast
<1> QED
  BY <1>2, <1>3, ReplayPastStep, TypeCorrect, ExclusiveInvariant, PTL DEF Spec, DueLostOnlyIfHeld

-----------------------------------------------------------------------------
(* A slot runs once *)

OneProcess == \A p, q \in Procs : p = q

\* The disturbances so far.
Troubles == crashes + faults

\* The loop has panicked. Until the process crashes there is no further run.
LoopDead == \E p \in Procs : pc[p] = "dead"

\* A task whose run is still to come, claimed or claimable, has used up a disturbance for
\* each run of its slot, and what a loop holds is due.
SlotInv ==
  /\ SlotRunsOnce
  /\ \A p \in Procs : \A i \in DOMAIN batch[p] :
       /\ i # 1 \/ pc[p] = "exec" => slotRuns[batch[p][i]] <= Troubles
       /\ nextRun[batch[p][i]] <= now
       /\ \A j \in DOMAIN batch[p] : batch[p][i] = batch[p][j] => i = j
  /\ ~LoopDead => \A t \in Tasks \ Held :
       status[t] \in {"none", "active", "running"} => slotRuns[t] <= Troubles

\* Everything but the runs of the loop: a step that takes no task into or out of a batch
\* and begins no run may set a slot's count to 0, and makes claimable only such tasks.
LEMMA KeepsSlots ==
  ASSUME TypeOK, TypeOK', SlotInv, UNCHANGED batch, Troubles <= Troubles', now <= now',
         \A p \in Procs : pc'[p] = "exec" => pc[p] = "exec", LoopDead => LoopDead',
         \A t \in Tasks : slotRuns'[t] \in {0, slotRuns[t]},
         \A t \in Tasks \ Held : status'[t] \in {"none", "active", "running"} =>
           status[t] \in {"none", "active", "running"} \/ slotRuns'[t] = 0,
         \A t \in Held : nextRun'[t] = nextRun[t] \/ nextRun'[t] <= now
  PROVE  SlotInv'
<1>1. /\ Troubles \in Nat /\ Troubles' \in Nat /\ now \in Nat /\ now' \in Nat
      /\ slotRuns \in [Tasks -> Nat] /\ slotRuns' \in [Tasks -> Nat]
      /\ nextRun \in [Tasks -> Nat] /\ nextRun' \in [Tasks -> Nat]
  <2>1. crashes \in Nat /\ faults \in Nat /\ crashes' \in Nat /\ faults' \in Nat
    BY DEF TypeOK
  <2>2. Troubles \in Nat /\ Troubles' \in Nat
    <3>1. \A a, b \in Nat : a + b \in Nat
      OBVIOUS
    <3> QED
      BY <2>1, <3>1, Zenon DEF Troubles
  <2>3. /\ now \in Nat /\ slotRuns \in [Tasks -> Nat] /\ nextRun \in [Tasks -> Nat]
        /\ now' \in Nat /\ slotRuns' \in [Tasks -> Nat] /\ nextRun' \in [Tasks -> Nat]
    BY DEF TypeOK
  <2> QED
    BY <2>2, <2>3
<1>2. \A p \in Procs : \A i \in DOMAIN batch[p] : batch[p][i] \in Tasks /\ batch[p][i] \in Held
  <2> SUFFICES ASSUME NEW p \in Procs, NEW i \in DOMAIN batch[p] PROVE batch[p][i] \in Tasks /\ batch[p][i] \in Held
    OBVIOUS
  <2>1. batch[p][i] \in Tasks
    BY DEF TypeOK
  <2> QED
    BY <2>1 DEF Held, Elems
<1>3. Held' = Held
  BY DEF Held
<1>4. \A t \in Tasks : slotRuns[t] <= 1 + Troubles
  BY <1>1 DEF SlotInv, SlotRunsOnce, Troubles, TypeOK
<1>5. \A t \in Tasks : slotRuns'[t] <= 1 + Troubles'
  BY <1>1, <1>4
<1>6. SlotRunsOnce'
  BY <1>1, <1>5 DEF SlotRunsOnce, Troubles, TypeOK
<1>7. ASSUME NEW p \in Procs, NEW i \in DOMAIN batch[p]
      PROVE  /\ i # 1 \/ pc'[p] = "exec" => slotRuns'[batch[p][i]] <= Troubles'
             /\ nextRun'[batch[p][i]] <= now'
             /\ \A j \in DOMAIN batch[p] : batch[p][i] = batch[p][j] => i = j
  <2> DEFINE t == batch[p][i]
  <2>1. t \in Tasks /\ t \in Held
    BY <1>2
  <2>2. /\ i # 1 \/ pc[p] = "exec" => slotRuns[t] <= Troubles
        /\ nextRun[t] <= now
        /\ \A j \in DOMAIN batch[p] : batch[p][i] = batch[p][j] => i = j
    BY DEF SlotInv
  <2>3. i # 1 \/ pc'[p] = "exec" => slotRuns'[t] <= Troubles'
    BY <1>1, <2>1, <2>2
  <2>4. nextRun'[t] <= now'
    BY <1>1, <2>1, <2>2
  <2> QED
    BY <2>2, <2>3, <2>4
<1>8. ASSUME NEW t \in Tasks \ Held, status'[t] \in {"none", "active", "running"}, ~LoopDead'
      PROVE  slotRuns'[t] <= Troubles'
  <2>1. status[t] \in {"none", "active", "running"} => slotRuns[t] <= Troubles
    BY <1>8 DEF SlotInv
  <2>2. slotRuns'[t] \in {0, slotRuns[t]}
    OBVIOUS
  <2>3. status[t] \in {"none", "active", "running"} \/ slotRuns'[t] = 0
    BY <1>8
  <2> QED
    BY <1>1, <2>1, <2>2, <2>3
<1>9. batch' = batch
  OBVIOUS
<1> QED
  BY <1>3, <1>6, <1>7, <1>8, <1>9 DEF SlotInv


LEMMA SlotTypes ==
  ASSUME TypeOK
  PROVE  /\ Troubles \in Nat /\ crashes \in Nat /\ faults \in Nat /\ now \in Nat
         /\ slotRuns \in [Tasks -> Nat] /\ nextRun \in [Tasks -> Nat] /\ status \in [Tasks -> Statuses]
         /\ batch \in [Procs -> Seq(Tasks)] /\ rnow \in [Procs -> Nat]
         /\ pc \in [Procs -> {"down", "recover", "poll", "exec", "agent", "dlq", "update", "dead"}]
         /\ \A p \in Procs : pc[p] \in {"exec", "agent", "dlq", "update"} <=> batch[p] # << >>
<1>1. crashes \in Nat /\ faults \in Nat
  BY DEF TypeOK
<1> QED
  BY <1>1 DEF TypeOK, Troubles

\* A loop that polls holds nothing, and neither does any other: there is none.
LEMMA NothingHeld ==
  ASSUME TypeOK, OneProcess, NEW p \in Procs, pc[p] \notin {"exec", "agent", "dlq", "update"}
  PROVE  Held = {}
<1>1. \A q \in Procs : batch[q] = << >>
  BY SlotTypes DEF OneProcess
<1>2. \A q \in Procs : Elems(batch[q]) = {}
  BY <1>1 DEF Elems
<1> QED
  BY <1>2 DEF Held

\* Where the only loop claims, runs or updates, none has panicked.
LEMMA LoopAlive ==
  ASSUME TypeOK, OneProcess, NEW p \in Procs, pc[p] # "dead"
  PROVE  ~LoopDead
BY DEF OneProcess, LoopDead

\* What the claim takes was claimable, and in the past.
LEMMA ClaimSlots ==
  ASSUME TypeOK, OneProcess, SlotInv, NEW p \in Procs, Claim(p)
  PROVE  SlotInv'
<1> USE DEF bounds, hist
<1>1. PICK b \in DueBatches :
        /\ batch' = [batch EXCEPT ![p] = b]
        /\ status' = [t \in Tasks |-> IF t \in Elems(b) THEN "running" ELSE status[t]]
  BY DEF Claim
<1>2. UNCHANGED <<now, nextRun, slotRuns, crashes, faults>>
  BY DEF Claim
<1>3. Held = {}
  BY NothingHeld DEF Claim
<1>4. /\ \A i \in DOMAIN b : b[i] \in Tasks /\ status[b[i]] = "active" /\ nextRun[b[i]] <= now
      /\ \A i, j \in DOMAIN b : b[i] = b[j] => i = j
  BY SlotTypes, DueBatchType DEF Due
<1>5. \A q \in Procs : q = p /\ batch'[q] = b
  BY <1>1, SlotTypes DEF OneProcess
<1>6. \A t \in Tasks : status[t] \in {"none", "active", "running"} => slotRuns[t] <= Troubles
  BY <1>3, LoopAlive DEF SlotInv, Claim
<1>7. Troubles' = Troubles
  BY <1>2 DEF Troubles
<1>8. SlotRunsOnce'
  BY <1>2 DEF SlotInv, SlotRunsOnce
<1>9. \A q \in Procs : \A i \in DOMAIN batch'[q] :
        /\ slotRuns'[batch'[q][i]] <= Troubles'
        /\ nextRun'[batch'[q][i]] <= now'
        /\ \A j \in DOMAIN batch'[q] : batch'[q][i] = batch'[q][j] => i = j
  BY <1>2, <1>4, <1>5, <1>6, <1>7
<1>10. \A t \in Tasks : status'[t] \in {"none", "active", "running"} => slotRuns'[t] <= Troubles'
  <2>1. \A t \in Elems(b) : status[t] = "active"
    BY <1>4 DEF Elems
  <2> QED
    BY <1>1, <1>2, <1>6, <1>7, <2>1
<1> QED
  BY <1>8, <1>9, <1>10 DEF SlotInv

\* The run that begins is one the invariant allows for.
LEMMA BeginSlots ==
  ASSUME TypeOK, OneProcess, SlotInv, NEW p \in Procs, BeginRun(p)
  PROVE  SlotInv'
<1> USE DEF tables, bounds
<1> DEFINE h == Head(batch[p])
<1>1. /\ pc[p] = "exec" /\ pc' = [pc EXCEPT ![p] = "agent"] /\ slotRuns' = [slotRuns EXCEPT ![h] = @ + 1]
      /\ UNCHANGED <<now, status, nextRun, batch, crashes, faults>>
  BY DEF BeginRun
<1>2. h \in Tasks /\ h = batch[p][1] /\ 1 \in DOMAIN batch[p] /\ batch[p] # << >>
  <2>1. batch[p] # << >> /\ batch[p] \in Seq(Tasks)
    BY <1>1, SlotTypes
  <2> QED
    BY <2>1
<1>3. slotRuns[h] <= Troubles /\ h \in Held
  <2>1. slotRuns[h] <= Troubles
    BY <1>1, <1>2 DEF SlotInv
  <2> QED
    BY <1>2, <2>1 DEF Held, Elems
<1>4. Troubles' = Troubles /\ Held' = Held
  BY <1>1 DEF Troubles, Held
<1>5. \A t \in Tasks : slotRuns'[t] = IF t = h THEN slotRuns[t] + 1 ELSE slotRuns[t]
  BY <1>1, SlotTypes
<1>6. SlotRunsOnce'
  <2>1. \A t \in Tasks : slotRuns[t] <= 1 + Troubles
    BY SlotTypes DEF SlotInv, SlotRunsOnce, Troubles
  <2>2. \A t \in Tasks : slotRuns'[t] <= 1 + Troubles
    <3> HIDE DEF h
    <3>1. slotRuns \in [Tasks -> Nat] /\ Troubles \in Nat
      BY SlotTypes
    <3> QED
      BY <1>2, <1>3, <1>5, <2>1, <3>1
  <2> QED
    BY <1>1, <2>2, SlotTypes DEF SlotRunsOnce, Troubles
<1>7. ASSUME NEW q \in Procs, NEW i \in DOMAIN batch[q]
      PROVE  /\ i # 1 \/ pc'[q] = "exec" => slotRuns'[batch[q][i]] <= Troubles
             /\ nextRun[batch[q][i]] <= now
             /\ \A j \in DOMAIN batch[q] : batch[q][i] = batch[q][j] => i = j
  <2>1. q = p /\ pc'[q] = "agent"
    BY <1>1, SlotTypes DEF OneProcess
  <2>2. /\ i # 1 => slotRuns[batch[q][i]] <= Troubles
        /\ nextRun[batch[q][i]] <= now
        /\ \A j \in DOMAIN batch[q] : batch[q][i] = batch[q][j] => i = j
    BY DEF SlotInv
  <2>3. i # 1 => batch[q][i] # h
    BY <1>2, <2>1, <2>2
  <2>4. batch[q][i] \in Tasks
    BY SlotTypes
  <2> QED
    BY <1>5, <2>1, <2>2, <2>3, <2>4
<1>8. (\A t \in Tasks \ Held : slotRuns'[t] = slotRuns[t]) /\ ~LoopDead
  BY <1>1, <1>3, <1>5, LoopAlive
<1> QED
  BY <1>1, <1>4, <1>6, <1>7, <1>8 DEF SlotInv

\* After a panic nothing is held.
LEMMA PanicSlots ==
  ASSUME TypeOK, OneProcess, SlotInv, NEW p \in Procs, Panic(p)
  PROVE  SlotInv'
<1> USE DEF bounds
<1>1. UNCHANGED <<slotRuns, crashes, faults>> /\ LoopDead'
  BY SlotTypes DEF Panic, LoseBatch, LoopDead
<1>2. \A q \in Procs : batch'[q] = << >>
  BY SlotTypes DEF Panic, LoseBatch, OneProcess
<1>3. SlotRunsOnce'
  BY <1>1 DEF SlotInv, SlotRunsOnce
<1>4. \A q \in Procs : \A i \in DOMAIN batch'[q] : FALSE
  BY <1>2
<1> QED
  BY <1>1, <1>3, <1>4 DEF SlotInv

\* After a crash nothing is held, and every count has room for one more run.
LEMMA CrashSlots ==
  ASSUME TypeOK, OneProcess, SlotInv, NEW p \in Procs, Crash(p)
  PROVE  SlotInv'
<1> USE DEF tables
<1>1. UNCHANGED <<now, status, nextRun, slotRuns, faults>> /\ crashes' = crashes + 1
  BY DEF Crash
<1>2. \A q \in Procs : batch'[q] = << >>
  BY SlotTypes DEF Crash, LoseBatch, OneProcess
<1>3. Troubles' = Troubles + 1
  BY <1>1, SlotTypes DEF Troubles
<1>4. \A t \in Tasks : slotRuns[t] <= 1 + Troubles
  BY SlotTypes DEF SlotInv, SlotRunsOnce, Troubles
<1>5. SlotRunsOnce'
  BY <1>1, <1>4, SlotTypes DEF SlotRunsOnce, Troubles
<1>6. \A t \in Tasks : slotRuns'[t] <= Troubles'
  BY <1>1, <1>3, <1>4, SlotTypes
<1>7. \A q \in Procs : \A i \in DOMAIN batch'[q] : FALSE
  BY <1>2
<1> QED
  BY <1>5, <1>6, <1>7 DEF SlotInv


\* The update pops the task whose run has ended. If the row is active again its slot is
\* a new one, since the old one was due; if the update fails that is a disturbance.
LEMMA UpdateSlots ==
  ASSUME TypeOK, TypeOK', OneProcess, ExclusiveInv, SlotInv, NEW p \in Procs, UpdateAfterRun(p)
  PROVE  SlotInv'
<1> DEFINE h == Head(batch[p])
<1>1. /\ pc[p] = "update" /\ batch' = [batch EXCEPT ![p] = Tail(@)]
      /\ UNCHANGED <<now, crashes>>
      /\ \/ UpdateCron(h) /\ UNCHANGED faults
         \/ status' = [status EXCEPT ![h] = "completed"] /\ UNCHANGED <<nextRun, slotRuns, faults>>
         \/ h \notin Row /\ UNCHANGED <<status, nextRun, slotRuns, faults>>
         \/ UNCHANGED <<status, nextRun, slotRuns>> /\ faults' = faults + 1
  BY DEF UpdateAfterRun, NextOfBatch, UpdateDone, DbFault
<1>2. /\ batch[p] # << >> /\ batch[p] \in Seq(Tasks) /\ h \in Tasks /\ h = batch[p][1] /\ 1 \in DOMAIN batch[p]
      /\ DOMAIN Tail(batch[p]) = 1 .. Len(batch[p]) - 1 /\ Len(batch[p]) \in Nat
      /\ \A i \in DOMAIN Tail(batch[p]) : i + 1 \in DOMAIN batch[p] /\ Tail(batch[p])[i] = batch[p][i + 1]
      /\ Elems(batch[p]) = {h} \cup Elems(Tail(batch[p]))
  <2>1. batch[p] # << >> /\ batch[p] \in Seq(Tasks)
    BY <1>1, SlotTypes
  <2>2. h = batch[p][1] /\ 1 \in DOMAIN batch[p] /\ Len(batch[p]) \in Nat
    BY <2>1
  <2> QED
    BY <2>1, <2>2, TailElems
<1> HIDE DEF h
<1>3. \A q \in Procs : q = p /\ batch'[q] = Tail(batch[p])
  BY <1>1, SlotTypes DEF OneProcess
<1>4. Held = Elems(batch[p]) /\ Held' = Elems(Tail(batch[p]))
  BY <1>3 DEF Held, OneProcess
<1>5. \A i \in DOMAIN Tail(batch[p]) :
        /\ Tail(batch[p])[i] \in Tasks \ {h} /\ slotRuns[Tail(batch[p])[i]] <= Troubles /\ nextRun[Tail(batch[p])[i]] <= now
        /\ \A j \in DOMAIN Tail(batch[p]) : Tail(batch[p])[i] = Tail(batch[p])[j] => i = j
  <2> SUFFICES ASSUME NEW i \in DOMAIN Tail(batch[p])
      PROVE  /\ Tail(batch[p])[i] \in Tasks \ {h} /\ slotRuns[Tail(batch[p])[i]] <= Troubles /\ nextRun[Tail(batch[p])[i]] <= now
             /\ \A j \in DOMAIN Tail(batch[p]) : Tail(batch[p])[i] = Tail(batch[p])[j] => i = j
    OBVIOUS
  <2>1. i \in Nat /\ i + 1 # 1 /\ i + 1 \in DOMAIN batch[p] /\ Tail(batch[p])[i] = batch[p][i + 1]
    BY <1>2
  <2>2. /\ slotRuns[batch[p][i + 1]] <= Troubles /\ nextRun[batch[p][i + 1]] <= now
        /\ \A j \in DOMAIN batch[p] : batch[p][i + 1] = batch[p][j] => i + 1 = j
    BY <2>1 DEF SlotInv
  <2>3. batch[p][i + 1] # h
    BY <1>2, <2>1, <2>2
  <2>4. ASSUME NEW j \in DOMAIN Tail(batch[p]), Tail(batch[p])[i] = Tail(batch[p])[j] PROVE i = j
    <3>1. j \in Nat /\ j + 1 \in DOMAIN batch[p] /\ Tail(batch[p])[j] = batch[p][j + 1]
      BY <1>2
    <3>2. i + 1 = j + 1
      BY <2>1, <2>2, <2>4, <3>1
    <3> QED
      BY <2>1, <3>1, <3>2
  <2>5. batch[p][i + 1] \in Tasks
    BY <1>2, <2>1
  <2> QED
    BY <2>1, <2>2, <2>3, <2>4, <2>5
<1>6. /\ \A t \in Tasks \ {h} : status'[t] = status[t] /\ slotRuns'[t] = slotRuns[t] /\ nextRun'[t] = nextRun[t]
      /\ Troubles' = Troubles \/ Troubles' = Troubles + 1
      /\ slotRuns'[h] \in {0, slotRuns[h]}
      /\ status'[h] \in {"none", "active", "running"} => slotRuns'[h] = 0 \/ Troubles' = Troubles + 1
  <2>1. CASE UpdateCron(h) /\ UNCHANGED faults
    <3>1. PICK s \in NextSlots : SetSlot(h, s) /\ status' = [status EXCEPT ![h] = "active"]
      BY <2>1 DEF UpdateCron
    <3>2. nextRun[h] <= now
      BY <1>2 DEF SlotInv
    <3>3. s # nextRun[h]
      BY <1>2, <3>2, SlotTypes, BoundsAssumption DEF NextSlots
    <3>4. slotRuns' = [slotRuns EXCEPT ![h] = 0] /\ nextRun' = [nextRun EXCEPT ![h] = s]
      BY <3>1, <3>3 DEF SetSlot
    <3>5. Troubles' = Troubles
      BY <1>1, <2>1 DEF Troubles
    <3> QED
      BY <1>2, <3>1, <3>4, <3>5, SlotTypes
  <2>2. CASE status' = [status EXCEPT ![h] = "completed"] /\ UNCHANGED <<nextRun, slotRuns, faults>>
    <3>1. Troubles' = Troubles
      BY <1>1, <2>2 DEF Troubles
    <3> QED
      BY <1>2, <2>2, <3>1, SlotTypes
  <2>3. CASE h \notin Row /\ UNCHANGED <<status, nextRun, slotRuns, faults>>
    <3>1. status[h] # "none"
      BY <1>2 DEF ExclusiveInv, HeldCreated
    <3>2. status[h] = "deleted"
      BY <1>2, <2>3, <3>1 DEF Row
    <3>3. Troubles' = Troubles
      BY <1>1, <2>3 DEF Troubles
    <3> QED
      BY <2>3, <3>2, <3>3
  <2>4. CASE UNCHANGED <<status, nextRun, slotRuns>> /\ faults' = faults + 1
    <3>1. Troubles' = Troubles + 1
      BY <1>1, <2>4, SlotTypes DEF Troubles
    <3> QED
      BY <2>4, <3>1
  <2> QED
    BY <1>1, <2>1, <2>2, <2>3, <2>4
<1>7. /\ Troubles \in Nat /\ slotRuns \in [Tasks -> Nat] /\ \A t \in Tasks : slotRuns[t] <= 1 + Troubles
  BY SlotTypes DEF SlotInv, SlotRunsOnce, Troubles
<1>8. \A t \in Tasks : slotRuns'[t] <= 1 + Troubles'
  BY <1>2, <1>6, <1>7
<1>9. SlotRunsOnce'
  <2>1. crashes' \in Nat /\ faults' \in Nat /\ slotRuns' \in [Tasks -> Nat]
    BY DEF TypeOK
  <2> QED
    BY <1>8, <2>1 DEF SlotRunsOnce, Troubles
<1>10. \A q \in Procs : \A i \in DOMAIN batch'[q] :
         /\ slotRuns'[batch'[q][i]] <= Troubles'
         /\ nextRun'[batch'[q][i]] <= now'
         /\ \A j \in DOMAIN batch'[q] : batch'[q][i] = batch'[q][j] => i = j
  <2> SUFFICES ASSUME NEW i \in DOMAIN Tail(batch[p])
      PROVE  /\ slotRuns'[Tail(batch[p])[i]] <= Troubles'
             /\ nextRun'[Tail(batch[p])[i]] <= now'
             /\ \A j \in DOMAIN Tail(batch[p]) : Tail(batch[p])[i] = Tail(batch[p])[j] => i = j
    BY <1>3
  <2> DEFINE u == Tail(batch[p])[i]
  <2>1. u \in Tasks \ {h} /\ slotRuns[u] <= Troubles /\ nextRun[u] <= now
    BY <1>5
  <2>2. slotRuns'[u] = slotRuns[u] /\ nextRun'[u] = nextRun[u]
    BY <1>6, <2>1
  <2>3. slotRuns'[u] <= Troubles' /\ nextRun'[u] <= now'
    BY <1>1, <1>6, <1>7, <2>1, <2>2
  <2> QED
    BY <1>5, <2>3
<1>11. ASSUME NEW t \in Tasks \ Held', status'[t] \in {"none", "active", "running"} PROVE slotRuns'[t] <= Troubles'
  <2>1. CASE t = h
    BY <1>2, <1>6, <1>7, <1>11, <2>1
  <2>2. CASE t # h
    <3>1. t \notin Held /\ status'[t] = status[t] /\ slotRuns'[t] = slotRuns[t]
      BY <1>2, <1>4, <1>6, <2>2
    <3>2. slotRuns[t] <= Troubles
      BY <1>1, <1>11, <3>1, LoopAlive DEF SlotInv
    <3> QED
      BY <1>6, <1>7, <3>1, <3>2
  <2> QED
    BY <2>1, <2>2
<1> QED
  BY <1>9, <1>10, <1>11 DEF SlotInv

\* The steps that leave the batches and the counts of begun runs as they are.
LEMMA OtherSlots ==
  ASSUME TypeOK, TypeOK', OneProcess, ExclusiveInv, SlotInv, ReplayPast, [Next]_vars,
         \A p \in Procs : ~Claim(p) /\ ~BeginRun(p) /\ ~UpdateAfterRun(p) /\ ~Panic(p) /\ ~Crash(p)
  PROVE  SlotInv'
<1> USE DEF tables, loops, replay, bounds, hist
<1>t. /\ status \in [Tasks -> Statuses] /\ nextRun \in [Tasks -> Nat] /\ slotRuns \in [Tasks -> Nat]
      /\ now \in Nat /\ crashes \in Nat /\ faults \in Nat /\ rnow \in [Procs -> Nat]
      /\ pc \in [Procs -> {"down", "recover", "poll", "exec", "agent", "dlq", "update", "dead"}]
  BY SlotTypes
<1>h. \A t \in Held : status[t] # "none"
  BY DEF Held, Elems, ExclusiveInv, HeldCreated
<1>1. CASE Tick \/ UNCHANGED vars
  <2>1. UNCHANGED <<batch, pc, status, nextRun, slotRuns, crashes, faults>> /\ now <= now'
    BY <1>1, <1>t DEF Tick, vars
  <2> QED
    BY <1>t, <2>1, KeepsSlots DEF Troubles, LoopDead
<1>2. ASSUME NEW p \in Procs, Start(p) \/ EndRun(p) \/ InsertDlq(p) \/ Recover(p) PROVE SlotInv'
  <2>1. UNCHANGED <<batch, now, nextRun, slotRuns, crashes>> /\ (faults' = faults \/ faults' = faults + 1)
    BY <1>2 DEF Start, EndRun, InsertDlq, Recover, DbFault
  <2>2. /\ \A q \in Procs : pc'[q] = "exec" => pc[q] = "exec"
        /\ LoopDead => LoopDead'
    BY <1>2, <1>t DEF Start, EndRun, InsertDlq, Recover, LoopDead
  <2>3. \A t \in Tasks : status'[t] \in {"none", "active", "running"} => status[t] \in {"none", "active", "running"}
    BY <1>2, <1>t DEF Start, EndRun, InsertDlq, Recover
  <2>4. Troubles <= Troubles'
    BY <1>t, <2>1 DEF Troubles
  <2> QED
    BY <1>t, <2>1, <2>2, <2>3, <2>4, KeepsSlots
<1>3. ASSUME NEW p \in Procs, Replay(p) PROVE SlotInv'
  <2> DEFINE u == ReplayTask(p)
  <2>1. UNCHANGED <<batch, pc, now, crashes>> /\ (faults' = faults \/ faults' = faults + 1)
    BY <1>3 DEF Replay, ReplayList, ReplayCheck, ReplayRequeue, ReplayMark, DbFault
  <2>2. \/ UNCHANGED <<status, nextRun, slotRuns>>
        \/ /\ status' = [status EXCEPT ![u] = "active"] /\ nextRun' = [nextRun EXCEPT ![u] = rnow[p]]
           /\ slotRuns' = [slotRuns EXCEPT ![u] = 0]
    BY <1>3 DEF Replay, ReplayList, ReplayCheck, ReplayRequeue, ReplayMark
  <2>3. Troubles <= Troubles'
    BY <1>t, <2>1 DEF Troubles
  <2> HIDE DEF u
  <2>4. rnow[p] <= now
    BY DEF ReplayPast
  <2>5. \A t \in Tasks : /\ slotRuns'[t] \in {0, slotRuns[t]}
                         /\ status'[t] = status[t] \/ slotRuns'[t] = 0
                         /\ nextRun'[t] = nextRun[t] \/ nextRun'[t] <= now
    BY <1>t, <2>2, <2>4
  <2>6. Held \subseteq Tasks
    BY SlotTypes DEF Held, Elems
  <2> QED
    BY <1>t, <2>1, <2>3, <2>5, <2>6, KeepsSlots DEF LoopDead
<1>4. CASE Tools
  <2>1. UNCHANGED <<batch, pc, now, crashes, faults>>
    BY <1>4 DEF Tools, Schedule, Pause, Resume, Cancel, SetStatus, Reset, DeleteChat
  <2>2. Troubles' = Troubles /\ Troubles \in Nat
    BY <1>t, <2>1 DEF Troubles
  <2>3. CASE Reset \/ DeleteChat
    <3>1. UNCHANGED <<nextRun, slotRuns>> /\ \A t \in Tasks : status'[t] \in {status[t], "deleted"}
      BY <1>t, <2>3 DEF Reset, DeleteChat
    <3> QED
      BY <1>t, <2>1, <2>2, <3>1, KeepsSlots DEF LoopDead
  <2>4. ASSUME NEW u \in Tasks, NEW k \in {"cron", "once"}, NEW s \in 0 .. MaxTime, Schedule(u, k, s) PROVE SlotInv'
    <3>1. status[u] = "none" /\ UNCHANGED slotRuns
          /\ status' = [status EXCEPT ![u] = "active"] /\ nextRun' = [nextRun EXCEPT ![u] = s]
      BY <2>4 DEF Schedule
    <3>2. u \notin Held
      BY <1>h, <3>1
    <3>3. \A t \in Tasks : status'[t] \in {"none", "active", "running"} => status[t] \in {"none", "active", "running"}
      BY <1>t, <3>1
    <3>4. \A t \in Held : nextRun'[t] = nextRun[t]
      BY <1>t, <3>1, <3>2
    <3> QED
      BY <1>t, <2>1, <2>2, <3>1, <3>3, <3>4, KeepsSlots DEF LoopDead
  <2>5. ASSUME NEW u \in Tasks, Pause(u) \/ Cancel(u) PROVE SlotInv'
    <3>1. UNCHANGED <<nextRun, slotRuns>> /\ \A t \in Tasks : status'[t] \in {status[t], "paused", "cancelled"}
      BY <1>t, <2>5 DEF Pause, Cancel, SetStatus
    <3> QED
      BY <1>t, <2>1, <2>2, <3>1, KeepsSlots DEF LoopDead
  <2>6. ASSUME NEW u \in Tasks, Resume(u) PROVE SlotInv'
    <3>1. UNCHANGED nextRun /\ status' = [status EXCEPT ![u] = "active"]
          /\ slotRuns' = IF u \in Held THEN slotRuns ELSE [slotRuns EXCEPT ![u] = 0]
      BY <2>6 DEF Resume, SetStatus
    <3>2. \A t \in Tasks : slotRuns'[t] \in {0, slotRuns[t]}
      BY <1>t, <3>1
    <3>3. \A t \in Tasks \ Held : status'[t] = status[t] \/ slotRuns'[t] = 0
      BY <1>t, <3>1
    <3> QED
      BY <1>t, <2>1, <2>2, <3>1, <3>2, <3>3, KeepsSlots DEF LoopDead
  <2> QED
    BY <1>4, <2>3, <2>4, <2>5, <2>6 DEF Tools
<1> QED
  BY <1>1, <1>2, <1>3, <1>4 DEF Next, Loop

\* With one process a slot of a task runs once, and once more for each crash and failing
\* call at most, however its tools interleave with the loop: what is paused, resumed or
\* replayed during a run has a new slot, or a new count, when the run has ended.
THEOREM SlotRunsOnceCorrect == OneProcess /\ Spec => []SlotRunsOnce
<1>1. Init => SlotInv
  <2> SUFFICES ASSUME Init PROVE SlotInv
    OBVIOUS
  <2>1. \A p \in Procs : batch[p] = << >>
    BY DEF Init
  <2>2. \A p \in Procs : \A i \in DOMAIN batch[p] : FALSE
    BY <2>1
  <2>3. \A t \in Tasks : slotRuns[t] = 0 /\ crashes = 0 /\ faults = 0
    BY DEF Init
  <2>4. SlotRunsOnce /\ \A t \in Tasks : slotRuns[t] <= Troubles
    BY <2>3 DEF SlotRunsOnce, Troubles
  <2> QED
    BY <2>2, <2>4 DEF SlotInv
<1>2. OneProcess /\ TypeOK /\ TypeOK' /\ ExclusiveInv /\ ReplayPast /\ SlotInv /\ [Next]_vars => SlotInv'
  <2> SUFFICES ASSUME OneProcess, TypeOK, TypeOK', ExclusiveInv, ReplayPast, SlotInv, [Next]_vars PROVE SlotInv'
    OBVIOUS
  <2>1. ASSUME NEW p \in Procs, Claim(p) \/ BeginRun(p) \/ UpdateAfterRun(p) \/ Panic(p) \/ Crash(p)
        PROVE  SlotInv'
    BY <2>1, ClaimSlots, BeginSlots, UpdateSlots, PanicSlots, CrashSlots
  <2>2. CASE \A p \in Procs : ~Claim(p) /\ ~BeginRun(p) /\ ~UpdateAfterRun(p) /\ ~Panic(p) /\ ~Crash(p)
    BY <2>2, OtherSlots
  <2> QED
    BY <2>1, <2>2
<1>3. SlotInv => SlotRunsOnce
  BY DEF SlotInv
<1>4. Init => ReplayPast
  BY DEF Init, ReplayPast
<1>5. OneProcess => OneProcess'
  BY DEF OneProcess
<1> QED
  BY <1>1, <1>2, <1>3, <1>4, <1>5, ReplayPastStep, TypeCorrect, ExclusiveInvariant, PTL DEF Spec

=============================================================================
