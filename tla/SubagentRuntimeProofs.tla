----------------------- MODULE SubagentRuntimeProofs -----------------------
(***************************************************************************)
(* Proofs about SubagentRuntime, for any runs, agent turns and limits:     *)
(* type correctness, the width of the lane, the limit on active runs, the  *)
(* effect of a kill, and that the runtime implements SubagentLifecycle.    *)
(***************************************************************************)
EXTENDS SubagentRuntime, FiniteSetTheorems, TLAPS

\* Where the executor of a row is follows from, and limits, what the row says; a row
\* whose executor is about to be started is one call's.
Rows ==
  /\ \A r \in Runs : status[r] = "none" => ph[r] = "none"
  /\ \A r \in Runs : ph[r] = "none" => status[r] \in {"none", "accepted"}
  /\ \A r \in Runs : ph[r] = "spawned" => status[r] = "accepted"
  /\ \A r \in Runs : ph[r] \in {"acquire", "permit"} => status[r] \in {"accepted", "queued"}
  /\ \A r \in Runs : ph[r] \in {"check", "send", "turn", "wait", "finish"} => status[r] \in Open
  /\ \A c \in Callers : cnew[c] # NoRun => status[cnew[c]] = "accepted" /\ ph[cnew[c]] = "none"
  /\ \A c, d \in Callers : cnew[c] = cnew[d] /\ cnew[c] # NoRun => c = d

\* Only tasks that wait are in the semaphore's queue, each once.
Queue ==
  /\ \A i \in DOMAIN waitq : ph[waitq[i]] = "acquire"
  /\ \A i, j \in DOMAIN waitq : waitq[i] = waitq[j] => i = j

\* A run that has begun a turn after its cancellation begins no other.
LastTurn ==
  \A r \in Runs : late[r] # 0 =>
    late[r] = 1 /\ r \in cancelReq /\ ph[r] \in {"check", "turn", "wait", "finish", "flush", "done"}

Lane == Cardinality(Holders) <= MaxConcurrent

Base == TypeOK /\ Rows /\ Queue
IInv == Base /\ LastTurn /\ Lane /\ ActiveNearLimit

LEMMA Finite ==
  /\ IsFiniteSet(Callers) /\ \A S \in SUBSET Runs : IsFiniteSet(S) /\ Cardinality(S) \in Nat
  /\ \A S \in SUBSET Callers : IsFiniteSet(S) /\ Cardinality(S) \in Nat /\ Cardinality(S) <= Cardinality(Callers)
<1>1. IsFiniteSet(Callers)
  BY IdsAssumption, FS_Union DEF Callers
<1> QED
  BY <1>1, IdsAssumption, FS_Subset, FS_CardinalityType

LEMMA InitIInv == Init => IInv
<1> SUFFICES ASSUME Init PROVE IInv
  OBVIOUS
<1> USE IdsAssumption, LimitsAssumption DEF Init
<1>1. TypeOK
  BY DEF TypeOK, Holds, Open, Terminal
<1>2. Rows /\ Queue /\ LastTurn
  BY DEF Rows, Queue, LastTurn
<1>3. Holders = {} /\ Active = {} /\ Creating = {}
  BY DEF Holders, Holds, Active, Open, Creating
<1>4. Cardinality(Callers) \in Nat
  BY Finite
<1>5. Lane /\ ActiveNearLimit
  BY <1>3, <1>4, FS_EmptySet DEF Lane, ActiveNearLimit
<1> QED
  BY <1>1, <1>2, <1>5 DEF IInv, Base

-----------------------------------------------------------------------------
(* Types, rows and the queue *)

LEMMA CallBase ==
  ASSUME Base, NEW c \in Callers, Call(c)
  PROVE  Base'
<1> USE IdsAssumption
<1>b. TypeOK /\ Rows /\ Queue
  BY DEF Base
<1>1. CASE CountActive(c) \/ CountChildren(c)
  <2>1. /\ UNCHANGED <<rows, exec, cancel, cnew, late, bounds>> /\ cpc[c] \in {"idle", "children"}
        /\ \E p \in {"idle", "children", "create"} : cpc' = [cpc EXCEPT ![c] = p]
    BY <1>1 DEF CountActive, CountChildren, Goto
  <2>2. TypeOK'
    BY <1>b, <2>1 DEF TypeOK, rows, exec, cancel, bounds
  <2>3. Rows' /\ Queue'
    BY <1>b, <2>1 DEF Rows, Queue, rows, exec
  <2> QED
    BY <2>2, <2>3 DEF Base
<1>2. CASE Create(c)
  <2>1. CASE DbFault /\ Goto(c, "idle") /\ UNCHANGED <<status, parent, depth, cnew>>
    <3>1. /\ UNCHANGED <<rows, exec, cancel, cnew, late, kills, crashes, drops>> /\ faults' = faults + 1
          /\ cpc[c] = "create" /\ cpc' = [cpc EXCEPT ![c] = "idle"]
      BY <1>2, <2>1 DEF Create, Goto, DbFault, rows
    <3>2. TypeOK'
      BY <1>b, <3>1 DEF TypeOK, rows, exec, cancel
    <3> QED
      BY <1>b, <3>1, <3>2 DEF Base, Rows, Queue, rows, exec
  <2>2. ASSUME NEW r \in Runs, status[r] = "none",
               status' = [status EXCEPT ![r] = "accepted"],
               parent' = [parent EXCEPT ![r] = IF c \in Runs THEN c ELSE NoRun],
               depth' = [depth EXCEPT ![r] = IF c \in Runs THEN depth[c] + 1 ELSE 1],
               cnew' = [cnew EXCEPT ![c] = r], cpc' = [cpc EXCEPT ![c] = "spawn"], UNCHANGED faults
        PROVE  Base'
    <3>1. UNCHANGED <<cancelReq, exec, cancel, late, kills, crashes, drops>>
      BY <1>2 DEF Create
    <3>2. TypeOK'
      BY <1>b, <2>2, <3>1 DEF TypeOK, exec, cancel, Open
    <3>3. \A d \in Callers : cnew[d] # r
      BY <1>b, <2>2 DEF Rows
    <3>4. Rows' /\ Queue'
      BY <1>b, <2>2, <3>1, <3>3 DEF TypeOK, Rows, Queue, exec, Open
    <3> QED
      BY <3>2, <3>4 DEF Base
  <2> QED
    BY <1>2, <2>1, <2>2 DEF Create, Goto
<1>3. CASE Spawn(c)
  <2>1. PICK r \in Runs : r = cnew[c]
    BY <1>b, <1>3 DEF Spawn, TypeOK
  <2>2. /\ ph' = [ph EXCEPT ![r] = "spawned"] /\ flags' = flags \cup {r}
        /\ cnew' = [cnew EXCEPT ![c] = NoRun] /\ cpc' = [cpc EXCEPT ![c] = "idle"]
        /\ UNCHANGED <<rows, outcome, turns, waitq, flagged, toFlag, late, bounds>>
    BY <1>3, <2>1 DEF Spawn, Goto
  <2>3. r # NoRun /\ status[r] = "accepted" /\ ph[r] = "none" /\ \A d \in Callers : d # c => cnew[d] # r
    BY <1>b, <2>1 DEF Rows
  <2>4. TypeOK'
    BY <1>b, <2>2 DEF TypeOK, rows, bounds
  <2>5. Rows'
    BY <1>b, <2>2, <2>3 DEF TypeOK, Rows, rows
  <2>6. Queue'
    BY <1>b, <2>2, <2>3 DEF TypeOK, Queue
  <2> QED
    BY <2>4, <2>5, <2>6 DEF Base
<1>4. CASE DropCall(c)
  <2>1. /\ cpc' = [cpc EXCEPT ![c] = "idle"] /\ cnew' = [cnew EXCEPT ![c] = NoRun]
        /\ UNCHANGED <<rows, exec, cancel, late, kills, crashes, faults>> /\ drops' = drops + 1
    BY <1>4 DEF DropCall, Goto
  <2>2. TypeOK'
    BY <1>b, <2>1 DEF TypeOK, rows, exec, cancel
  <2>3. Rows' /\ Queue'
    BY <1>b, <2>1 DEF TypeOK, Rows, Queue, rows, exec
  <2> QED
    BY <2>2, <2>3 DEF Base
<1> QED
  BY <1>1, <1>2, <1>3, <1>4 DEF Call

\* An executor moves on, between places that ask the same of the row.
LEMMA MoveBase ==
  ASSUME Base, NEW r \in Runs, NEW p, ph' = [ph EXCEPT ![r] = p],
         UNCHANGED <<parent, depth, cancelReq, flags, flagged, toFlag, kills, crashes, drops>>,
         p \in {"check", "send", "turn", "wait", "finish", "flush", "done"},
         ph[r] \in {"permit", "check", "send", "turn", "wait", "finish", "flush"},
         p \notin {"flush", "done"} => ph[r] \notin {"finish", "flush"},
         \/ status' = status
         \/ \E s \in Open \cup Terminal :
              status' = [status EXCEPT ![r] = s] /\ (p \notin {"flush", "done"} => s \in Open),
         outcome' \in [Runs -> Terminal], turns' \in [Runs -> Nat], late' \in [Runs -> Nat],
         UNCHANGED waitq, faults' \in Nat,
         UNCHANGED calls \/ \A c \in Callers : (cpc'[c] = cpc[c] /\ cnew'[c] = cnew[c]) \/ (cpc'[c] = "idle" /\ cnew'[c] = NoRun),
         cpc' \in [Callers -> {"idle", "children", "create", "spawn"}], cnew' \in [Callers -> Runs \cup {NoRun}]
  PROVE  Base'
<1> USE IdsAssumption
<1>b. TypeOK /\ Rows /\ Queue
  BY DEF Base
<1>1. \A c \in Callers : cnew'[c] # NoRun => cnew'[c] = cnew[c] /\ cpc'[c] = cpc[c] /\ cnew'[c] # r
  BY <1>b DEF Rows, calls
<1>2. \A c \in Callers : cpc'[c] = "spawn" <=> cnew'[c] # NoRun
  BY <1>b DEF TypeOK, calls
<1>3. status' \in [Runs -> {"none"} \cup Open \cup Terminal] /\ ph' \in [Runs -> {"none", "spawned", "acquire", "done"} \cup Holds]
  <2>1. status' \in [Runs -> {"none"} \cup Open \cup Terminal]
    <3>1. status \in [Runs -> {"none"} \cup Open \cup Terminal]
      BY <1>b DEF TypeOK
    <3>2. status' = status \/ \E s \in Open \cup Terminal : status' = [status EXCEPT ![r] = s]
      OBVIOUS
    <3> QED
      BY <3>1, <3>2
  <2>2. p \in {"none", "spawned", "acquire", "done"} \cup Holds
    BY DEF Holds
  <2> QED
    BY <1>b, <2>1, <2>2 DEF TypeOK
<1>4. TypeOK'
  BY <1>b, <1>2, <1>3 DEF TypeOK
<1>5. \A x \in Runs : x # r => status'[x] = status[x] /\ ph'[x] = ph[x]
  BY <1>b DEF TypeOK
<1>6. ph'[r] = p /\ status'[r] \in Open \cup Terminal /\ (p \notin {"flush", "done"} => status'[r] \in Open)
  <2>1. status[r] \in Open \cup Terminal
    BY <1>b DEF TypeOK, Rows
  <2>2. p \notin {"flush", "done"} => status[r] \in Open
    BY <1>b DEF Rows, Open
  <2> QED
    BY <1>b, <2>1, <2>2 DEF TypeOK
<1>7. "none" \notin Open \cup Terminal
  BY DEF Open, Terminal
<1>8. Rows'
  BY <1>b, <1>1, <1>5, <1>6, <1>7 DEF Rows
<1>9. Queue'
  <2>1. \A i \in DOMAIN waitq : waitq[i] \in Runs
    BY <1>b DEF TypeOK
  <2> QED
    BY <1>b, <1>5, <2>1 DEF Queue
<1> QED
  BY <1>4, <1>8, <1>9 DEF Base

LEMMA WaitBase ==
  ASSUME Base, NEW r \in Runs, MarkQueued(r) \/ Acquire(r)
  PROVE  Base'
<1> USE IdsAssumption
<1>b. TypeOK /\ Rows /\ Queue
  BY DEF Base
<1>1. CASE MarkQueued(r)
  <2>1. /\ ph[r] = "spawned" /\ ph' = [ph EXCEPT ![r] = "acquire"] /\ waitq' = Append(waitq, r)
        /\ UNCHANGED <<parent, depth, cancelReq, outcome, turns, cancel, calls, late, kills, crashes, drops>>
        /\ status' = status \/ status' = [status EXCEPT ![r] = "queued"]
        /\ faults' \in Nat
    BY <1>b, <1>1 DEF MarkQueued, GotoPh, DbFault, TypeOK, Rows
  <2>2. waitq \in Seq(Runs) /\ waitq' \in Seq(Runs)
    BY <1>b, <2>1 DEF TypeOK
  <2>3. TypeOK'
    BY <1>b, <2>1, <2>2 DEF TypeOK, cancel, calls, Open
  <2>4. Rows'
    BY <1>b, <2>1 DEF TypeOK, Rows, calls, Open
  <2>5. \A i \in DOMAIN waitq' : (i \in DOMAIN waitq /\ waitq'[i] = waitq[i]) \/ (i = Len(waitq) + 1 /\ waitq'[i] = r)
    BY <2>1, <2>2
  <2>6. \A i \in DOMAIN waitq : waitq[i] # r /\ waitq[i] \in Runs
    BY <1>b, <2>1, <2>2 DEF Queue
  <2>7. Queue'
    <3>1. ph \in [Runs -> {"none", "spawned", "acquire", "done"} \cup Holds]
      BY <1>b DEF TypeOK
    <3>2. \A i \in DOMAIN waitq' : ph'[waitq'[i]] = "acquire"
      BY <1>b, <2>1, <2>5, <2>6, <3>1 DEF Queue
    <3>3. Len(waitq) + 1 \notin DOMAIN waitq
      BY <2>2
    <3>4. \A i, j \in DOMAIN waitq' : waitq'[i] = waitq'[j] => i = j
      BY <1>b, <2>5, <2>6, <3>3 DEF Queue
    <3> QED
      BY <3>2, <3>4 DEF Queue
  <2> QED
    BY <2>3, <2>4, <2>7 DEF Base
<1>2. CASE Acquire(r)
  <2>1. /\ waitq # << >> /\ Head(waitq) = r /\ waitq' = Tail(waitq) /\ ph' = [ph EXCEPT ![r] = "permit"]
        /\ UNCHANGED <<rows, outcome, turns, cancel, calls, late, bounds>>
    BY <1>2 DEF Acquire, GotoPh
  <2>2. waitq \in Seq(Runs) /\ waitq' \in Seq(Runs) /\ 1 \in DOMAIN waitq /\ waitq[1] = r
    BY <1>b, <2>1 DEF TypeOK
  <2>3. ph[r] = "acquire"
    BY <1>b, <2>2 DEF Queue
  <2>4. TypeOK'
    BY <1>b, <2>1, <2>2 DEF TypeOK, rows, cancel, calls, bounds, Holds
  <2>5. Rows'
    BY <1>b, <2>1, <2>3 DEF TypeOK, Rows, rows, calls
  <2>6. \A i \in DOMAIN waitq' : i \in Int /\ i + 1 \in DOMAIN waitq /\ i + 1 # 1 /\ waitq'[i] = waitq[i + 1]
    <3>1. /\ DOMAIN waitq' = 1 .. Len(waitq) - 1 /\ DOMAIN waitq = 1 .. Len(waitq) /\ Len(waitq) \in Nat
          /\ \A i \in 1 .. Len(waitq) - 1 : waitq'[i] = waitq[i + 1]
      BY <2>1, <2>2
    <3> QED
      BY <3>1
  <2>7. \A i \in DOMAIN waitq' : waitq'[i] # r /\ waitq'[i] \in Runs
    BY <1>b, <2>2, <2>6 DEF Queue
  <2>8. \A i, j \in DOMAIN waitq' : waitq'[i] = waitq'[j] => i = j
    <3> TAKE i, j \in DOMAIN waitq'
    <3> HAVE waitq'[i] = waitq'[j]
    <3>1. i + 1 = j + 1 /\ i \in Int /\ j \in Int
      BY <1>b, <2>6 DEF Queue
    <3> QED
      BY <3>1
  <2>9. Queue'
    BY <1>b, <2>1, <2>6, <2>7, <2>8 DEF TypeOK, Queue
  <2> QED
    BY <2>4, <2>5, <2>9 DEF Base
<1> QED
  BY <1>1, <1>2

LEMMA ExecuteBase ==
  ASSUME Base, NEW r \in Runs, Execute(r)
  PROVE  Base'
<1> USE IdsAssumption
<1>b. TypeOK /\ Rows /\ Queue
  BY DEF Base
<1>t. /\ outcome \in [Runs -> Terminal] /\ turns \in [Runs -> Nat] /\ late \in [Runs -> Nat] /\ faults \in Nat
      /\ cpc \in [Callers -> {"idle", "children", "create", "spawn"}] /\ cnew \in [Callers -> Runs \cup {NoRun}]
      /\ status \in [Runs -> {"none"} \cup Open \cup Terminal]
  BY <1>b DEF TypeOK
<1>1. CASE MarkQueued(r) \/ Acquire(r)
  BY <1>1, WaitBase
<1>2. CASE MarkRunning(r)
  <2>1. /\ ph[r] = "permit" /\ ph' = [ph EXCEPT ![r] = "check"]
        /\ UNCHANGED <<parent, depth, cancelReq, outcome, turns, waitq, cancel, calls, late, kills, crashes, drops>>
        /\ faults' \in Nat
        /\ status' = status \/ \E s \in Open \cup Terminal : status' = [status EXCEPT ![r] = s]
             /\ ("check" \notin {"flush", "done"} => s \in Open)
    BY <1>t, <1>2 DEF MarkRunning, GotoPh, DbFault, Open
  <2> QED
    BY <1>t, <2>1, MoveBase DEF cancel, calls
<1>3. CASE Check(r)
  <2>1. /\ ph[r] = "check" /\ UNCHANGED <<rows, turns, waitq, cancel, calls, late, kills, crashes, drops>>
        /\ faults' \in Nat /\ outcome' \in [Runs -> Terminal]
        /\ \E p \in {"finish", "send"} : ph' = [ph EXCEPT ![r] = p]
    BY <1>t, <1>3 DEF Check, EndWith, GotoPh, DbFault, Terminal
  <2> QED
    BY <1>t, <2>1, MoveBase DEF rows, cancel, calls
<1>4. CASE SendMessage(r)
  <2>1. /\ ph[r] = "send" /\ UNCHANGED <<rows, outcome, waitq, cancel, calls, bounds>>
        /\ turns' \in [Runs -> Nat] /\ late' \in [Runs -> Nat]
        /\ ph' = [ph EXCEPT ![r] = "turn"]
    BY <1>t, <1>4 DEF SendMessage, GotoPh
  <2> QED
    BY <1>t, <2>1, MoveBase DEF rows, cancel, calls, bounds
<1>5. CASE EndTurn(r) \/ StartWait(r) \/ EndWait(r)
  <2>1. /\ ph[r] \in {"turn", "wait"} /\ UNCHANGED <<rows, turns, waitq, cancel, calls, late, bounds>>
        /\ outcome' \in [Runs -> Terminal]
        /\ \E p \in {"finish", "check", "wait", "turn"} : ph' = [ph EXCEPT ![r] = p]
    BY <1>t, <1>5 DEF EndTurn, StartWait, EndWait, EndWith, GotoPh, Terminal
  <2> QED
    BY <1>t, <2>1, MoveBase DEF rows, cancel, calls, bounds
<1>6. CASE Timeout(r)
  <2>1. /\ ph[r] \in {"check", "send", "turn", "wait"} /\ UNCHANGED <<rows, turns, waitq, cancel, late, bounds>>
        /\ outcome' \in [Runs -> Terminal] /\ ph' = [ph EXCEPT ![r] = "finish"]
        /\ cpc' = [c \in Callers |-> IF c = r THEN "idle" ELSE cpc[c]]
        /\ cnew' = [c \in Callers |-> IF c = r THEN NoRun ELSE cnew[c]]
    BY <1>t, <1>6 DEF Timeout, EndWith, GotoPh, Terminal
  <2>2. /\ \A c \in Callers : (cpc'[c] = cpc[c] /\ cnew'[c] = cnew[c]) \/ (cpc'[c] = "idle" /\ cnew'[c] = NoRun)
        /\ cpc' \in [Callers -> {"idle", "children", "create", "spawn"}] /\ cnew' \in [Callers -> Runs \cup {NoRun}]
    BY <1>t, <2>1
  <2> QED
    BY <1>t, <2>1, <2>2, MoveBase DEF rows, cancel, bounds
<1>7. CASE Finish(r)
  <2>1. /\ ph[r] = "finish" /\ ph' = [ph EXCEPT ![r] = "flush"]
        /\ UNCHANGED <<parent, depth, cancelReq, outcome, turns, waitq, toFlag, calls, late, kills, crashes, drops>>
        /\ faults' \in Nat /\ flags' = flags \ {r} /\ flagged' = flagged \ {r}
        /\ status' = status \/ \E s \in Terminal : status' = [status EXCEPT ![r] = s]
    BY <1>t, <1>7 DEF Finish, GotoPh, DbFault
  <2>2. TypeOK'
    <3>1. status' \in [Runs -> {"none"} \cup Open \cup Terminal]
      BY <1>t, <2>1
    <3>2. ph' \in [Runs -> {"none", "spawned", "acquire", "done"} \cup Holds]
      BY <1>b, <2>1 DEF TypeOK, Holds
    <3> QED
      BY <1>b, <2>1, <3>1, <3>2 DEF TypeOK, calls
  <2>3. \A c \in Callers : cnew[c] # r
    BY <1>b, <2>1 DEF Rows
  <2>4. "none" \notin Terminal
    BY DEF Terminal
  <2>5. Rows'
    BY <1>b, <1>t, <2>1, <2>3, <2>4 DEF TypeOK, Rows, Open, calls
  <2>6. Queue'
    BY <1>b, <2>1 DEF TypeOK, Queue
  <2> QED
    BY <2>2, <2>5, <2>6 DEF Base
<1>8. CASE Flush(r)
  <2>1. /\ ph[r] = "flush" /\ ph' = [ph EXCEPT ![r] = "done"]
        /\ UNCHANGED <<rows, outcome, turns, waitq, cancel, calls, late, bounds>>
    BY <1>8 DEF Flush, GotoPh
  <2> QED
    BY <1>t, <2>1, MoveBase DEF rows, cancel, calls, bounds
<1> QED
  BY <1>1, <1>2, <1>3, <1>4, <1>5, <1>6, <1>7, <1>8 DEF Execute

LEMMA OtherBase ==
  ASSUME Base, (\E r \in Runs : Kill(r) \/ SetFlag(r)) \/ Crash \/ UNCHANGED vars
  PROVE  Base'
<1> USE IdsAssumption
<1>b. TypeOK /\ Rows /\ Queue
  BY DEF Base
<1>1. ASSUME NEW r \in Runs, Kill(r) \/ SetFlag(r) PROVE Base'
  <2>1. UNCHANGED <<status, parent, depth, exec, calls, late>>
    BY <1>1 DEF Kill, SetFlag, rows, bounds
  <2>2. TypeOK'
    BY SMTT(30), <1>b, <1>1, <2>1 DEF Kill, SetFlag, TypeOK, rows, exec, calls, bounds
  <2> QED
    BY <1>b, <2>1, <2>2 DEF Base, Rows, Queue, exec, calls
<1>2. CASE Crash
  <2>1. TypeOK'
    BY <1>b, <1>2 DEF Crash, TypeOK, rows
  <2>2. Rows' /\ Queue'
    BY <1>b, <1>2 DEF Crash, TypeOK, Rows, Queue, rows, Open
  <2> QED
    BY <2>1, <2>2 DEF Base
<1>3. CASE UNCHANGED vars
  BY <1>b, <1>3 DEF Base, TypeOK, Rows, Queue, vars, rows, exec, cancel, calls, bounds
<1> QED
  BY <1>1, <1>2, <1>3

LEMMA BaseStep == Base /\ [Next]_vars => Base'
BY CallBase, ExecuteBase, OtherBase DEF Next

-----------------------------------------------------------------------------
(* The effect of a kill *)

\* A turn is begun by SendMessage alone, out of "send", which only a check of a run
\* not yet cancelled leads to.
LEMMA LastTurnStep == Base /\ Base' /\ LastTurn /\ [Next]_vars => LastTurn'
<1> SUFFICES ASSUME Base, Base', LastTurn, [Next]_vars PROVE LastTurn'
  OBVIOUS
<1> USE IdsAssumption
<1>t. /\ ph \in [Runs -> {"none", "spawned", "acquire", "done"} \cup Holds] /\ late \in [Runs -> Nat]
      /\ Rows /\ Queue /\ waitq \in Seq(Runs) /\ \A c \in Callers : cnew[c] # NoRun => cnew[c] \in Runs
  BY DEF Base, TypeOK
<1>1. ASSUME NEW c \in Callers, Call(c) PROVE LastTurn'
  <2>1. UNCHANGED <<late, cancelReq>> /\ \A r \in Runs : ph'[r] = ph[r] \/ ph[r] = "none"
    <3>1. CASE Spawn(c)
      <4>1. cnew[c] # NoRun
        BY <3>1 DEF Base, TypeOK, Spawn
      <4>2. ph[cnew[c]] = "none"
        BY <1>t, <4>1 DEF Rows
      <4> QED
        BY <1>t, <3>1, <4>2 DEF Spawn, rows
    <3> QED
      BY <1>1, <3>1 DEF Call, CountActive, CountChildren, Create, DropCall, rows, exec
  <2> QED
    BY <2>1 DEF LastTurn
<1>2. ASSUME NEW r \in Runs, Execute(r) PROVE LastTurn'
  <2>1. UNCHANGED cancelReq /\ \A x \in Runs : x # r => ph'[x] = ph[x] /\ late'[x] = late[x]
    BY <1>t, <1>2 DEF Execute, MarkQueued, Acquire, MarkRunning, Check, SendMessage, EndTurn, StartWait,
                      EndWait, Timeout, Finish, Flush, EndWith, GotoPh, rows
  <2>2. CASE SendMessage(r)
    <3>1. late[r] = 0 /\ ph'[r] = "turn" /\ late'[r] = IF r \in cancelReq THEN late[r] + 1 ELSE late[r]
      BY <1>t, <2>2 DEF SendMessage, GotoPh, LastTurn
    <3> QED
      BY <2>1, <3>1 DEF LastTurn
  <2>3. CASE Check(r)
    <3>1. UNCHANGED late /\ ph'[r] \in {"finish", "send"} /\ (r \in cancelReq => ph'[r] = "finish")
      BY <1>t, <2>3 DEF Check, EndWith, GotoPh
    <3> QED
      BY <2>1, <3>1 DEF LastTurn
  <2>4. CASE MarkQueued(r) \/ Acquire(r)
    <3>1. UNCHANGED late /\ ph[r] \in {"spawned", "acquire"}
      BY <1>t, <2>4 DEF MarkQueued, Acquire, Queue
    <3> QED
      BY <2>1, <3>1 DEF LastTurn
  <2>5. CASE MarkRunning(r) \/ EndTurn(r) \/ StartWait(r) \/ EndWait(r) \/ Timeout(r) \/ Finish(r) \/ Flush(r)
    <3>1. UNCHANGED late /\ ph'[r] \in {"check", "turn", "wait", "finish", "flush", "done"}
      BY <1>t, <2>5 DEF MarkRunning, EndTurn, StartWait, EndWait, Timeout, Finish, Flush, EndWith, GotoPh
    <3> QED
      BY <2>1, <3>1 DEF LastTurn
  <2> QED
    BY <1>2, <2>2, <2>3, <2>4, <2>5 DEF Execute
<1>3. ASSUME NEW r \in Runs, Kill(r) \/ SetFlag(r) PROVE LastTurn'
  BY <1>3 DEF Kill, SetFlag, LastTurn, rows, exec
<1>4. CASE Crash
  <2>1. UNCHANGED <<late, cancelReq>> /\ \A r \in Runs : late[r] # 0 => ph'[r] = "done"
    BY <1>t, <1>4 DEF Crash, LastTurn, rows
  <2> QED
    BY <2>1 DEF LastTurn
<1>5. CASE UNCHANGED vars
  BY <1>5 DEF LastTurn, vars, rows, exec
<1> QED
  BY <1>1, <1>2, <1>3, <1>4, <1>5 DEF Next

-----------------------------------------------------------------------------
(* The lane *)

\* How a step changes the set of the runs with a permit.
LEMMA HoldersStep ==
  ASSUME Base, [Next]_vars
  PROVE  \/ Holders' \subseteq Holders
         \/ \E r \in Runs : Acquire(r) /\ r \notin Holders /\ Holders' = Holders \cup {r}
<1> USE IdsAssumption
<1>t. /\ ph \in [Runs -> {"none", "spawned", "acquire", "done"} \cup Holds]
      /\ Rows /\ Queue /\ waitq \in Seq(Runs) /\ \A c \in Callers : cnew[c] # NoRun => cnew[c] \in Runs
  BY DEF Base, TypeOK
<1>1. ASSUME NEW c \in Callers, Call(c) PROVE Holders' \subseteq Holders
  <2>1. UNCHANGED ph \/ ph' = [ph EXCEPT ![cnew[c]] = "spawned"]
    BY <1>1 DEF Call, CountActive, CountChildren, Create, Spawn, DropCall, exec
  <2> QED
    BY <1>t, <2>1 DEF Holders, Holds
<1>2. ASSUME NEW r \in Runs, Execute(r)
      PROVE  Holders' \subseteq Holders \/ (Acquire(r) /\ r \notin Holders /\ Holders' = Holders \cup {r})
  <2>1. CASE Acquire(r)
    <3>1. ph[r] = "acquire" /\ ph' = [ph EXCEPT ![r] = "permit"]
      BY <1>t, <2>1 DEF Acquire, Queue, GotoPh
    <3> QED
      BY <1>t, <2>1, <3>1 DEF Holders, Holds
  <2>2. CASE ~Acquire(r)
    <3>1. \E p : ph' = [ph EXCEPT ![r] = p] /\ (p \in Holds => ph[r] \in Holds)
      BY <1>2, <2>2 DEF Execute, MarkQueued, MarkRunning, Check, SendMessage, EndTurn, StartWait,
                        EndWait, Timeout, Finish, Flush, EndWith, GotoPh, Holds
    <3> QED
      BY <1>t, <3>1 DEF Holders
  <2> QED
    BY <2>1, <2>2
<1>3. CASE (\E r \in Runs : Kill(r) \/ SetFlag(r)) \/ UNCHANGED vars
  BY <1>3 DEF Kill, SetFlag, Holders, exec, vars
<1>4. CASE Crash
  BY <1>t, <1>4 DEF Crash, Holders, Holds
<1> QED
  BY <1>1, <1>2, <1>3, <1>4 DEF Next

LEMMA LaneStep == Base /\ Lane /\ [Next]_vars => Lane'
<1> SUFFICES ASSUME Base, Lane, [Next]_vars PROVE Lane'
  OBVIOUS
<1> USE IdsAssumption, LimitsAssumption
<1>1. IsFiniteSet(Holders) /\ Cardinality(Holders) \in Nat /\ Cardinality(Holders') \in Nat
  BY Finite DEF Holders
<1>2. CASE Holders' \subseteq Holders
  BY <1>1, <1>2, FS_Subset DEF Lane
<1>3. ASSUME NEW r \in Runs, Acquire(r), r \notin Holders, Holders' = Holders \cup {r} PROVE Lane'
  <2>1. Cardinality(Holders') = Cardinality(Holders) + 1
    BY <1>1, <1>3, FS_AddElement
  <2>2. Cardinality(Holders) < MaxConcurrent
    BY <1>3 DEF Acquire
  <2> QED
    BY <1>1, <2>1, <2>2 DEF Lane
<1> QED
  BY <1>2, <1>3, HoldersStep

-----------------------------------------------------------------------------
(* The limit on active runs *)

\* A step that counts the active runs puts one more call on its way to Create; Create
\* turns a call on its way into an active run; no other step adds to either set.
LEMMA CountsStep ==
  ASSUME Base, [Next]_vars
  PROVE  \/ Active' \subseteq Active /\ Creating' \subseteq Creating
         \/ Cardinality(Active) < MaxActive /\ Active' = Active
         \/ \E c \in Creating, r \in Runs : r \notin Active /\ Active' = Active \cup {r} /\ Creating' = Creating \ {c}
<1> USE IdsAssumption
<1>t. /\ status \in [Runs -> {"none"} \cup Open \cup Terminal] /\ outcome \in [Runs -> Terminal]
      /\ cpc \in [Callers -> {"idle", "children", "create", "spawn"}]
      /\ Rows /\ Queue
  BY DEF Base, TypeOK
<1>n. Open \cap Terminal = {} /\ "none" \notin Open
  BY DEF Open, Terminal
<1>1. ASSUME NEW c \in Callers, Call(c)
      PROVE  \/ Active' \subseteq Active /\ Creating' \subseteq Creating
             \/ Cardinality(Active) < MaxActive /\ Active' = Active
             \/ \E r \in Runs : c \in Creating /\ r \notin Active /\ Active' = Active \cup {r} /\ Creating' = Creating \ {c}
  <2>1. CASE CountActive(c)
    BY <2>1 DEF CountActive, Active, rows
  <2>2. CASE Create(c)
    <3>1. c \in Creating /\ cpc'[c] \notin {"children", "create"} /\ \A d \in Callers : d # c => cpc'[d] = cpc[d]
      BY <1>t, <2>2 DEF Create, Creating, Goto
    <3>2. Creating' = Creating \ {c}
      BY <3>1 DEF Creating
    <3>3. UNCHANGED status \/ \E r \in Runs : status[r] = "none" /\ status' = [status EXCEPT ![r] = "accepted"]
      BY <2>2 DEF Create
    <3>4. CASE UNCHANGED status
      BY <3>2, <3>4 DEF Active
    <3>5. ASSUME NEW r \in Runs, status[r] = "none", status' = [status EXCEPT ![r] = "accepted"]
          PROVE  r \notin Active /\ Active' = Active \cup {r}
      BY <1>t, <3>5 DEF Active, Open
    <3> QED
      BY <3>1, <3>2, <3>3, <3>4, <3>5
  <2>3. CASE CountChildren(c)
    <3>1. cpc[c] = "children" /\ UNCHANGED status /\ \A d \in Callers : d # c => cpc'[d] = cpc[d]
      BY <1>t, <2>3 DEF CountChildren, Goto, rows
    <3> QED
      BY <3>1 DEF Active, Creating
  <2>4. CASE Spawn(c) \/ DropCall(c)
    <3>1. UNCHANGED status /\ \A d \in Callers : cpc'[d] = cpc[d] \/ cpc'[d] = "idle"
      BY <1>t, <2>4 DEF Spawn, DropCall, Goto, rows
    <3> QED
      BY <3>1 DEF Active, Creating
  <2> QED
    BY <1>1, <2>1, <2>2, <2>3, <2>4 DEF Call
<1>2. ASSUME NEW r \in Runs, Execute(r) PROVE Active' \subseteq Active /\ Creating' \subseteq Creating
  <2>1. \A c \in Callers : cpc'[c] = cpc[c] \/ cpc'[c] = "idle"
    BY <1>t, <1>2 DEF Execute, MarkQueued, Acquire, MarkRunning, Check, SendMessage, EndTurn, StartWait,
                      EndWait, Timeout, Finish, Flush, calls
  <2>2. \A x \in Runs : status'[x] \in Open => status[x] \in Open
    <3>1. CASE MarkQueued(r) \/ MarkRunning(r)
      <4>1. status[r] \in Open /\ \A x \in Runs : x # r => status'[x] = status[x]
        BY <1>t, <3>1 DEF MarkQueued, MarkRunning, Rows, Open
      <4> QED
        BY <4>1
    <3>2. CASE Finish(r)
      BY <1>t, <1>n, <3>2 DEF Finish
    <3>3. CASE ~(MarkQueued(r) \/ MarkRunning(r) \/ Finish(r))
      BY <1>2, <3>3 DEF Execute, Acquire, Check, SendMessage, EndTurn, StartWait, EndWait, Timeout, Flush, rows
    <3> QED
      BY <3>1, <3>2, <3>3
  <2> QED
    BY <2>1, <2>2 DEF Active, Creating
<1>3. CASE (\E r \in Runs : Kill(r) \/ SetFlag(r)) \/ UNCHANGED vars
  <2>1. UNCHANGED <<status, cpc>>
    BY <1>3 DEF Kill, SetFlag, rows, calls, vars
  <2> QED
    BY <2>1 DEF Active, Creating
<1>4. CASE Crash
  <2>1. UNCHANGED status /\ \A c \in Callers : cpc'[c] = "idle"
    BY <1>4 DEF Crash, rows
  <2> QED
    BY <2>1 DEF Active, Creating
<1> QED
  BY <1>1, <1>2, <1>3, <1>4 DEF Next

LEMMA ActiveNearLimitStep == Base /\ ActiveNearLimit /\ [Next]_vars => ActiveNearLimit'
<1> SUFFICES ASSUME Base, ActiveNearLimit, [Next]_vars PROVE ActiveNearLimit'
  OBVIOUS
<1> USE IdsAssumption, LimitsAssumption
<1>1. /\ IsFiniteSet(Active) /\ Cardinality(Active) \in Nat /\ Cardinality(Active') \in Nat
      /\ IsFiniteSet(Creating) /\ Cardinality(Creating) \in Nat /\ Cardinality(Creating') \in Nat
      /\ Cardinality(Creating') <= Cardinality(Callers) /\ Cardinality(Callers) \in Nat
  <2>1. Active \subseteq Runs /\ Active' \subseteq Runs /\ Creating \subseteq Callers /\ Creating' \subseteq Callers
    BY DEF Active, Creating
  <2> QED
    BY <2>1, Finite, FS_CardinalityType
<1>2. CASE Active' \subseteq Active /\ Creating' \subseteq Creating
  <2>1. Cardinality(Active') <= Cardinality(Active) /\ Cardinality(Creating') <= Cardinality(Creating)
    BY <1>1, <1>2, FS_Subset
  <2> QED
    BY <1>1, <2>1 DEF ActiveNearLimit
<1>3. CASE Cardinality(Active) < MaxActive /\ Active' = Active
  BY <1>1, <1>3 DEF ActiveNearLimit
<1>4. ASSUME NEW c \in Creating, NEW r \in Runs, r \notin Active, Active' = Active \cup {r}, Creating' = Creating \ {c}
      PROVE  ActiveNearLimit'
  <2>1. Cardinality(Active') = Cardinality(Active) + 1
    BY <1>1, <1>4, FS_AddElement
  <2>2. Cardinality(Creating') = Cardinality(Creating) - 1
    BY <1>1, <1>4, FS_RemoveElement
  <2> QED
    BY <1>1, <2>1, <2>2 DEF ActiveNearLimit
<1> QED
  BY <1>2, <1>3, <1>4, CountsStep

LEMMA IInvStep == IInv /\ [Next]_vars => IInv'
BY BaseStep, LastTurnStep, LaneStep, ActiveNearLimitStep DEF IInv

-----------------------------------------------------------------------------
(* The theorems *)

THEOREM Invariant == Spec => []IInv
BY InitIInv, IInvStep, PTL DEF Spec

\* Every variable keeps its type; in particular a call is about to start an executor
\* exactly when it has inserted a row (SessionsSpawnTool::execute).
THEOREM TypeCorrect == Spec => []TypeOK
<1>1. IInv => TypeOK
  BY DEF IInv, Base
<1> QED
  BY Invariant, <1>1, PTL

\* However spawn calls, executors, kills and crashes interleave, no more rows say
\* 'running' and are executed than the semaphore has permits.
THEOREM RunningWithinLaneCorrect == Spec => []RunningWithinLane
<1>1. IInv => RunningWithinLane
  <2> SUFFICES ASSUME IInv PROVE RunningWithinLane
    OBVIOUS
  <2> DEFINE R == {r \in Runs : status[r] = "running" /\ ph[r] # "done"}
  <2>1. R \subseteq Holders
    BY DEF IInv, Base, Rows, TypeOK, Holders, Holds
  <2>2. IsFiniteSet(Holders) /\ Cardinality(Holders) \in Nat /\ Cardinality(R) \in Nat
    BY Finite DEF Holders
  <2>3. Cardinality(R) <= Cardinality(Holders)
    BY <2>1, <2>2, FS_Subset
  <2> QED
    BY <2>2, <2>3, LimitsAssumption DEF IInv, Lane, RunningWithinLane
<1> QED
  BY Invariant, <1>1, PTL

\* The count and the insert of a spawn call are separate steps, so the limit on active
\* runs can be exceeded, by as many runs as there are other callers and no more.
THEOREM ActiveNearLimitCorrect == Spec => []ActiveNearLimit
<1>1. IInv => ActiveNearLimit
  BY DEF IInv
<1> QED
  BY Invariant, <1>1, PTL

\* A run whose cancellation has been requested begins one more model turn at most, also
\* when the kill's flag comes too early or too late to be seen.
THEOREM OneLateTurnCorrect == Spec => []OneLateTurn
<1>1. IInv => OneLateTurn
  <2> SUFFICES ASSUME IInv, NEW r \in Runs PROVE late[r] <= 1
    BY DEF OneLateTurn
  <2>1. late[r] \in Nat
    BY DEF IInv, Base, TypeOK
  <2>2. late[r] # 0 => late[r] = 1
    BY DEF IInv, LastTurn
  <2> QED
    BY <2>1, <2>2
<1> QED
  BY Invariant, <1>1, PTL

-----------------------------------------------------------------------------
(* The refinement *)

LEMMA LifeInit == Init => Life!Init
BY DEF Init, Life!Init, Holders, Holds

LEMMA LifeExecute ==
  ASSUME Base, NEW r \in Runs, Execute(r)
  PROVE  Life!Next \/ UNCHANGED Life!vars
<1> USE IdsAssumption
<1>t. /\ status \in [Runs -> {"none"} \cup Open \cup Terminal] /\ outcome \in [Runs -> Terminal]
      /\ ph \in [Runs -> {"none", "spawned", "acquire", "done"} \cup Holds]
      /\ waitq \in Seq(Runs) /\ Rows /\ Queue
  BY DEF Base, TypeOK
<1>s. \A p, q : ph[r] = q /\ ph' = [ph EXCEPT ![r] = p] /\ (p \in Holds <=> q \in Holds) => UNCHANGED Holders
  BY <1>t DEF Holders
<1>1. CASE MarkQueued(r)
  <2>1. ph[r] = "spawned" /\ ph' = [ph EXCEPT ![r] = "acquire"]
        /\ status[r] = "accepted" /\ (status' = [status EXCEPT ![r] = "queued"] \/ UNCHANGED status)
    BY <1>1, <1>t DEF MarkQueued, GotoPh, Rows
  <2>2. r \notin Holders /\ UNCHANGED Holders
    BY <1>s, <2>1 DEF Holders, Holds
  <2> QED
    BY <2>1, <2>2 DEF Life!Next, Life!Queue, Life!SetTo, Life!vars
<1>2. CASE Acquire(r)
  <2>1. ph[r] = "acquire" /\ ph' = [ph EXCEPT ![r] = "permit"] /\ UNCHANGED status /\ Cardinality(Holders) < MaxConcurrent
    BY <1>2, <1>t DEF Acquire, GotoPh, Queue, rows
  <2>2. r \notin Holders /\ Holders' = Holders \cup {r} /\ status[r] \in {"accepted", "queued"}
    BY <1>t, <2>1 DEF Holders, Holds, Rows
  <2>3. Life!Cardinality(Holders) = Cardinality(Holders)
    BY DEF Life!Cardinality, Cardinality
  <2>4. Life!Enter(r)
    BY <2>1, <2>2, <2>3 DEF Life!Enter, Life!Waiting
  <2> QED
    BY <2>4 DEF Life!Next
<1>3. CASE MarkRunning(r)
  <2>1. ph[r] = "permit" /\ ph' = [ph EXCEPT ![r] = "check"]
        /\ status[r] \in {"accepted", "queued"} /\ (status' = [status EXCEPT ![r] = "running"] \/ UNCHANGED status)
    BY <1>3, <1>t DEF MarkRunning, GotoPh, Rows
  <2>2. r \in Holders /\ UNCHANGED Holders
    BY <1>s, <2>1 DEF Holders, Holds
  <2>3. CASE UNCHANGED status
    BY <2>2, <2>3 DEF Life!vars
  <2>4. CASE status' = [status EXCEPT ![r] = "running"]
    <3>1. Life!Begin(r)
      BY <2>1, <2>2, <2>4 DEF Life!Begin, Life!SetTo, Life!Waiting
    <3> QED
      BY <3>1 DEF Life!Next
  <2> QED
    BY <2>1, <2>3, <2>4
<1>4. CASE Check(r) \/ SendMessage(r) \/ EndTurn(r) \/ StartWait(r) \/ EndWait(r) \/ Timeout(r)
  <2>1. UNCHANGED status /\ ph[r] \in Holds /\ \E p \in Holds : ph' = [ph EXCEPT ![r] = p]
    BY <1>4 DEF Check, SendMessage, EndTurn, StartWait, EndWait, Timeout, EndWith, GotoPh, rows, Holds
  <2> QED
    BY <1>s, <2>1 DEF Life!vars
<1>5. CASE Finish(r)
  <2>1. ph[r] = "finish" /\ ph' = [ph EXCEPT ![r] = "flush"]
        /\ status[r] \in Open /\ (status' = [status EXCEPT ![r] = outcome[r]] \/ UNCHANGED status)
    BY <1>5, <1>t DEF Finish, GotoPh, Rows
  <2>2. r \in Holders /\ UNCHANGED Holders /\ outcome[r] \in Terminal
    BY <1>s, <1>t, <2>1 DEF Holders, Holds
  <2>3. CASE UNCHANGED status
    BY <2>2, <2>3 DEF Life!vars
  <2>4. CASE status' = [status EXCEPT ![r] = outcome[r]]
    <3>1. Life!End(r)
      BY <2>1, <2>2, <2>4 DEF Life!End, Life!SetTo, Life!Waiting, Life!Final, Open, Terminal
    <3> QED
      BY <3>1 DEF Life!Next
  <2> QED
    BY <2>1, <2>3, <2>4
<1>6. CASE Flush(r)
  <2>1. ph[r] = "flush" /\ ph' = [ph EXCEPT ![r] = "done"] /\ UNCHANGED status
    BY <1>6 DEF Flush, GotoPh, rows
  <2>2. r \in Holders /\ Holders' = Holders \ {r}
    BY <1>t, <2>1 DEF Holders, Holds
  <2> QED
    BY <2>1, <2>2 DEF Life!Next, Life!Leave
<1> QED
  BY <1>1, <1>2, <1>3, <1>4, <1>5, <1>6 DEF Execute

LEMMA LifeStep == Base /\ [Next]_vars => [Life!Next]_(Life!vars)
<1> SUFFICES ASSUME Base, [Next]_vars PROVE Life!Next \/ UNCHANGED Life!vars
  OBVIOUS
<1> USE IdsAssumption
<1>t. /\ ph \in [Runs -> {"none", "spawned", "acquire", "done"} \cup Holds] /\ Rows
      /\ \A c \in Callers : cpc[c] = "spawn" <=> cnew[c] # NoRun
  BY DEF Base, TypeOK
<1>1. ASSUME NEW c \in Callers, Call(c) PROVE Life!Next \/ UNCHANGED Life!vars
  <2>1. CASE Spawn(c)
    <3>1. ph[cnew[c]] = "none" /\ ph' = [ph EXCEPT ![cnew[c]] = "spawned"] /\ UNCHANGED status
      BY <1>t, <2>1 DEF Spawn, Rows, rows
    <3>2. UNCHANGED Holders
      BY <1>t, <3>1 DEF Holders, Holds
    <3> QED
      BY <3>1, <3>2 DEF Life!vars
  <2>2. CASE ~Spawn(c)
    <3>1. UNCHANGED ph /\ (UNCHANGED status \/ \E r \in Runs : status[r] = "none" /\ status' = [status EXCEPT ![r] = "accepted"])
      BY <1>1, <2>2 DEF Call, CountActive, CountChildren, Create, DropCall, rows, exec
    <3>2. UNCHANGED Holders
      BY <3>1 DEF Holders
    <3> QED
      BY <3>1, <3>2 DEF Life!Next, Life!Accept, Life!SetTo, Life!vars
  <2> QED
    BY <2>1, <2>2
<1>2. CASE (\E r \in Runs : Kill(r) \/ SetFlag(r)) \/ UNCHANGED vars
  BY <1>2 DEF Kill, SetFlag, Life!vars, Holders, rows, exec, vars
<1>3. CASE Crash
  <2>1. Holders' = {} /\ UNCHANGED status
    BY <1>t, <1>3 DEF Crash, Holders, Holds, rows
  <2> QED
    BY <2>1 DEF Life!Next, Life!Lose
<1> QED
  BY <1>1, <1>2, <1>3, LifeExecute DEF Next

\* The runtime does what SubagentLifecycle promises: rows go forward only, 'running' is
\* written with a permit in hand, and an ended row is touched by nothing any more.
THEOREM ImplementsLifecycleCorrect == Spec => ImplementsLifecycle
<1>1. IInv => Base
  BY DEF IInv
<1> QED
  BY Invariant, LifeInit, LifeStep, <1>1, PTL DEF Spec, ImplementsLifecycle, Life!Spec

=============================================================================
