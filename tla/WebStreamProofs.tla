-------------------------- MODULE WebStreamProofs --------------------------
(***************************************************************************)
(* Proofs about WebStream, for any requests, sessions, actors, viewers and *)
(* limits: type correctness, what the quotas count, and that the turns of  *)
(* a session exclude one another.                                          *)
(***************************************************************************)
EXTENDS WebStream, FiniteSetTheorems, TLAPS

\* The requests that a quota counts, and where they are.
OwingAt  == Counted \cup {"gone"}
Owing(b) == {q \in Requests : pc[q] \in OwingAt /\ b \in QuotasOf(q)}

\* A request that waits for a lock, or holds it, refers to the lock of its session
\* that is in the map.
RefsInMap ==
  \A q \in Requests :
    pc[q] \in {"lock"} \cup Holding => ref[q] # 0 /\ ref[q] = entry[KeyOf[q]]

\* A viewer that is connected watches a run.
Watching == \A v \in Viewers : vpc[v] # "idle" => watch[v] \in Streams

\* The life of a run: its channel is open while its task works, its last event is
\* published once, when the turn has ended, and before the channel is removed.
Phases ==
  \A q \in Streams :
    /\ pc[q] \in {"named", "lock", "turn", "drain", "panicked", "end", "timer"} => channel[q] = "open"
    /\ pc[q] \in {"drain", "end", "timer"} \/ channel[q] = "removed" => last[q] # 0
    /\ last[q] # 0 => pc[q] \in {"drain", "end", "timer", "done"}
    /\ last[q] <= published[q]

\* What a client has got is the beginning of the run, what waits for it in its
\* replay and its receiver continues that, and the last event is still to come as
\* long as the client is not through.
Follows(v) ==
  LET n == Len(seen[v]) w == watch[v] m == Len(backlog[v]) IN
  /\ \A i \in 1 .. n : seen[v][i] = i
  /\ w = NoRun => n = 0
  /\ w # NoRun => n <= published[w]
  /\ w # NoRun /\ vpc[v] \in {"idle", "replay", "live"} => last[w] = 0 \/ n < last[w]
  /\ vpc[v] = "replay" =>
       /\ \A i \in 1 .. m : backlog[v][i] = n + i
       /\ next[v] = n + m + 1 /\ next[v] <= published[w] + 1
       /\ ended[v] => last[w] # 0 /\ last[w] < next[v]
  /\ vpc[v] = "live" => next[v] = n + 1
  /\ vpc[v] = "over" => last[w] # 0 /\ n = last[w]

Followed == \A v \in Viewers : ~excused[v] => Follows(v)

IInv == TypeOK /\ Watching /\ Phases /\ Followed /\ InflightAccounted /\ RefsInMap /\ SessionMutex

LEMMA OwingFinite == \A b : IsFiniteSet(Owing(b))
<1>1. IsFiniteSet(Requests)
  BY RequestsAssumption, FS_Union DEF Requests
<1>2. \A b : Owing(b) \in SUBSET Requests
  BY DEF Owing
<1> QED
  BY <1>1, <1>2, FS_Subset

LEMMA InitIInv == Init => IInv
<1> SUFFICES ASSUME Init PROVE IInv
  OBVIOUS
<1>1. TypeOK
  BY DEF Init, TypeOK, Counted
<1>2. InflightAccounted
  <2>1. \A b \in Quotas : {q \in Requests : pc[q] \in Counted \cup {"gone"} /\ b \in QuotasOf(q)} = {}
    BY DEF Init, Counted
  <2> QED
    BY <2>1, FS_EmptySet DEF Init, InflightAccounted
<1>3. Watching /\ RefsInMap /\ SessionMutex
  BY DEF Init, Watching, RefsInMap, SessionMutex, Holding
<1>4. Phases /\ Followed
  BY RequestsAssumption DEF Init, Phases, Followed, Follows, Requests
<1> QED
  BY <1>1, <1>2, <1>3, <1>4 DEF IInv

-----------------------------------------------------------------------------
(* The quotas *)

\* A step that leaves the counters alone, and every request on its side, keeps them.
LEMMA SameOwing ==
  ASSUME InflightAccounted, UNCHANGED inflight,
         \A r \in Requests : pc'[r] \in OwingAt <=> pc[r] \in OwingAt
  PROVE  InflightAccounted'
<1>1. \A b \in Quotas : Owing(b)' = Owing(b)
  BY DEF Owing, QuotasOf
<1>2. \A b \in Quotas : inflight[b] = Cardinality(Owing(b))
  BY DEF InflightAccounted, Owing, OwingAt
<1>3. \A b \in Quotas : inflight'[b] = Cardinality(Owing(b)')
  BY <1>1, <1>2
<1> QED
  BY <1>3 DEF InflightAccounted, Owing, OwingAt

LEMMA QuotaStep ==
  TypeOK /\ InflightAccounted /\ [Next]_vars
    => inflight' \in [Quotas -> Nat] /\ InflightAccounted'
<1> SUFFICES ASSUME TypeOK, InflightAccounted, [Next]_vars
             PROVE  inflight' \in [Quotas -> Nat] /\ InflightAccounted'
  OBVIOUS
<1>c. \A b \in Quotas : inflight[b] = Cardinality(Owing(b))
  BY DEF InflightAccounted, Owing, OwingAt
<1>0. ASSUME UNCHANGED inflight, \A r \in Requests : pc'[r] \in OwingAt <=> pc[r] \in OwingAt
      PROVE  inflight' \in [Quotas -> Nat] /\ InflightAccounted'
  BY <1>0, SameOwing DEF TypeOK
<1>1. ASSUME NEW q \in Requests, Begin(q)
      PROVE  inflight' \in [Quotas -> Nat] /\ InflightAccounted'
  <2>1. /\ inflight' = [b \in Quotas |-> IF b \in QuotasOf(q) THEN inflight[b] + 1 ELSE inflight[b]]
        /\ pc[q] = "new" /\ pc' = [pc EXCEPT ![q] = "begun"]
    BY <1>1 DEF Begin, Count, Goto
  <2>2. \A b \in Quotas : Owing(b)' = IF b \in QuotasOf(q) THEN Owing(b) \cup {q} ELSE Owing(b)
    BY <2>1 DEF Owing, OwingAt, Counted, QuotasOf, TypeOK
  <2>3. \A b \in Quotas : q \notin Owing(b)
    BY <2>1 DEF Owing, OwingAt, Counted
  <2>4. \A b \in Quotas : Cardinality(Owing(b) \cup {q}) = Cardinality(Owing(b)) + 1
    BY <2>3, OwingFinite, FS_AddElement
  <2>5. \A b \in Quotas : inflight'[b] = Cardinality(Owing(b)')
    BY <1>c, <2>1, <2>2, <2>4
  <2>6. inflight' \in [Quotas -> Nat]
    BY <2>1 DEF TypeOK
  <2> QED
    BY <2>5, <2>6 DEF InflightAccounted, Owing, OwingAt
<1>2. ASSUME NEW q \in Requests, End(q)
      PROVE  inflight' \in [Quotas -> Nat] /\ InflightAccounted'
  <2>1. /\ inflight' = [b \in Quotas |-> IF b \in QuotasOf(q) THEN inflight[b] + (-1) ELSE inflight[b]]
        /\ pc[q] = "end" /\ pc' = [pc EXCEPT ![q] = IF q \in Streams THEN "timer" ELSE "done"]
    BY <1>2 DEF End, Count, Goto
  <2>2. \A b \in Quotas : Owing(b)' = IF b \in QuotasOf(q) THEN Owing(b) \ {q} ELSE Owing(b)
    BY <2>1 DEF Owing, OwingAt, Counted, QuotasOf, TypeOK
  <2>3. \A b \in Quotas : b \in QuotasOf(q) => q \in Owing(b)
    BY <2>1 DEF Owing, OwingAt, Counted
  <2>4. \A b \in Quotas : b \in QuotasOf(q) => Cardinality(Owing(b) \ {q}) = Cardinality(Owing(b)) - 1
    BY <2>3, OwingFinite, FS_RemoveElement
  <2>5. \A b \in Quotas : inflight[b] \in Nat
    BY DEF TypeOK
  <2>6. \A b \in Quotas : inflight'[b] = Cardinality(Owing(b)')
    BY <1>c, <2>1, <2>2, <2>4, <2>5
  <2>7. \A b \in Quotas : Cardinality(Owing(b)') \in Nat
    BY <2>2, OwingFinite, FS_CardinalityType, FS_RemoveElement
  <2>8. inflight' \in [Quotas -> Nat]
    BY <2>1, <2>6, <2>7
  <2> QED
    BY <2>6, <2>8 DEF InflightAccounted, Owing, OwingAt
<1>3. ASSUME NEW q \in Requests, Refuse(q) \/ LockFor(q) \/ Start(q) \/ Release(q) \/ Abandon(q)
      PROVE  inflight' \in [Quotas -> Nat] /\ InflightAccounted'
  <2>1. UNCHANGED inflight
    BY <1>3 DEF Refuse, LockFor, Start, Release, Abandon
  <2>2. \A r \in Requests : pc'[r] \in OwingAt <=> pc[r] \in OwingAt
    BY <1>3 DEF Refuse, LockFor, Start, Release, Abandon, Goto, OwingAt, Counted, TypeOK
  <2> QED
    BY <1>0, <2>1, <2>2
<1>4. ASSUME NEW q \in Streams, Task(q)
      PROVE  inflight' \in [Quotas -> Nat] /\ InflightAccounted'
  <2>1. UNCHANGED inflight
    BY <1>4 DEF Task, Create, Emit, Forward, Finish, Panic, PublishError, Remove
  <2>2. \A r \in Requests : pc'[r] \in OwingAt <=> pc[r] \in OwingAt
    BY <1>4 DEF Task, Create, Emit, Forward, Finish, Panic, PublishError, Remove, Goto,
                OwingAt, Counted, TypeOK
  <2> QED
    BY <1>0, <2>1, <2>2
<1>5. ASSUME NEW v \in Viewers, View(v) \/ \E q \in Streams : Subscribe(v, q)
      PROVE  inflight' \in [Quotas -> Nat] /\ InflightAccounted'
  BY <1>0, <1>5 DEF View, Subscribe, SendReplay, EndReplay, Receive, Lag, Closed, Hangup
<1>6. CASE UNCHANGED vars
  BY <1>0, <1>6 DEF vars
<1> QED
  BY <1>1, <1>2, <1>3, <1>4, <1>5, <1>6 DEF Next, Serve

-----------------------------------------------------------------------------
(* Types *)

LEMMA PublishType ==
  ASSUME TypeOK, NEW q \in Streams, Publish(q)
  PROVE  published' \in [Streams -> Nat]
<1>1. published[q] \in Nat /\ published[q] + 1 \in Nat
  BY DEF TypeOK
<1> QED
  BY <1>1 DEF TypeOK, Publish

LEMMA RequestTypes ==
  ASSUME TypeOK, inflight' \in [Quotas -> Nat], NEW q \in Requests, Serve(q)
  PROVE  TypeOK'
<1> USE RequestsAssumption, LimitsAssumption
    DEF TypeOK, Goto, Counted, Drop, Unref, locks, run, viewer
<1>1. CASE Begin(q) BY <1>1 DEF Begin
<1>2. CASE Refuse(q) BY <1>2 DEF Refuse
<1>3. CASE LockFor(q)
  <2>1. KeyOf[q] \in Quotas
    OBVIOUS
  <2>2. made' \in Nat /\ made <= made'
    BY <1>3 DEF LockFor
  <2>3. ref' \in [Requests -> 0 .. made'] /\ entry' \in [Quotas -> 0 .. made']
    BY <1>3, <2>1, <2>2 DEF LockFor
  <2> QED
    BY <1>3, <2>2, <2>3 DEF LockFor
<1>4. CASE Start(q)
  <2>1. published' \in [Streams -> Nat]
    BY <1>4, PublishType DEF Start
  <2> QED
    BY <1>4, <2>1 DEF Start
<1>5. CASE Release(q) BY SMTT(30), <1>5 DEF Release
<1>6. CASE End(q) BY <1>6 DEF End
<1>7. CASE Abandon(q) BY <1>7 DEF Abandon
<1> QED
  BY <1>1, <1>2, <1>3, <1>4, <1>5, <1>6, <1>7 DEF Serve

LEMMA TaskTypes ==
  ASSUME TypeOK, NEW q \in Streams, Task(q)
  PROVE  TypeOK'
<1>0. Publish(q) => published' \in [Streams -> Nat]
  BY PublishType
<1>n. published[q] + 1 \in Nat /\ emitted[q] + 1 \in Nat /\ queued[q] + 1 \in Nat
  BY DEF TypeOK
<1> USE RequestsAssumption, LimitsAssumption
    DEF TypeOK, Goto, Counted, Drop, Unref, locks, viewer, Requests
<1>1. CASE Create(q) BY <1>1 DEF Create
<1>2. CASE Emit(q) BY <1>2, <1>n DEF Emit
<1>3. CASE Forward(q)
  <2>1. queued[q] - 1 \in Nat
    BY <1>3 DEF Forward
  <2> QED
    BY <1>3, <1>0, <2>1 DEF Forward
<1>4. CASE Finish(q) BY <1>4, <1>0, <1>n DEF Finish
<1>5. CASE Panic(q) BY <1>5 DEF Panic, run
<1>6. CASE PublishError(q) BY <1>6, <1>0, <1>n DEF PublishError
<1>7. CASE Remove(q) BY <1>7 DEF Remove
<1> QED
  BY <1>1, <1>2, <1>3, <1>4, <1>5, <1>6, <1>7 DEF Task

\* A replay is a sequence of event numbers, and a client's last one is a number.
LEMMA ReplayType ==
  ASSUME TypeOK, NEW q \in Streams, NEW n \in Nat
  PROVE  Replay(q, n) \in Seq(Nat)
<1> DEFINE from == IF Oldest(q) > n THEN Oldest(q) ELSE n + 1
           len  == IF published[q] < from THEN 0 ELSE published[q] - from + 1
<1>1. Oldest(q) \in Nat /\ published[q] \in Nat
  BY LimitsAssumption DEF Oldest, TypeOK
<1>2. from \in Nat
  BY <1>1
<1>3. len \in Nat
  BY <1>1, <1>2
<1>4. \A i \in 1 .. len : from + i - 1 \in Nat
  BY <1>2, <1>3
<1>5. Replay(q, n) = [i \in 1 .. len |-> from + i - 1]
  BY DEF Replay
<1> HIDE DEF from, len
<1> QED
  BY <1>3, <1>4, <1>5

LEMMA GotType ==
  ASSUME TypeOK, NEW v \in Viewers
  PROVE  Got(v) \in Nat
<1>1. seen[v] \in Seq(Nat)
  BY DEF TypeOK
<1>2. CASE seen[v] = << >>
  BY <1>2 DEF Got
<1>3. CASE seen[v] # << >>
  <2>1. Len(seen[v]) \in 1 .. Len(seen[v])
    BY <1>1, <1>3
  <2> QED
    BY <1>1, <1>3, <2>1 DEF Got
<1> QED
  BY <1>2, <1>3

LEMMA ViewTypes ==
  ASSUME TypeOK, Watching, NEW v \in Viewers, View(v) \/ \E q \in Streams : Subscribe(v, q)
  PROVE  TypeOK'
<1> USE RequestsAssumption, LimitsAssumption
    DEF TypeOK, Drop, Give, locks, run, viewer, Requests
<1>1. ASSUME NEW q \in Streams, Subscribe(v, q) PROVE TypeOK'
  <2>1. Replay(q, Got(v)) \in Seq(Nat)
    BY ReplayType, GotType
  <2>2. published[q] + 1 \in Nat /\ (Oldest(q) > Got(v) + 1) \in BOOLEAN
    OBVIOUS
  <2>3. backlog' \in [Viewers -> Seq(Nat)] /\ next' \in [Viewers -> Nat]
    BY <1>1, <2>1, <2>2 DEF Subscribe
  <2>4. excused' \in [Viewers -> BOOLEAN] /\ ended' \in [Viewers -> BOOLEAN]
    <3>1. ended' \in [Viewers -> BOOLEAN]
      BY <1>1 DEF Subscribe
    <3>2. excused' \in [Viewers -> BOOLEAN]
      BY <1>1, Zenon DEF Subscribe
    <3> QED BY <3>1, <3>2
  <2>5. vpc' \in [Viewers -> {"idle", "replay", "live", "over", "cut"}]
        /\ watch' \in [Viewers -> Streams \cup {NoRun}]
    BY <1>1 DEF Subscribe
  <2> QED
    BY <1>1, <2>3, <2>4, <2>5 DEF Subscribe
<1>2. CASE SendReplay(v)
  <2>1. Head(backlog[v]) \in Nat /\ Tail(backlog[v]) \in Seq(Nat)
    BY <1>2 DEF SendReplay
  <2>2. Append(seen[v], Head(backlog[v])) \in Seq(Nat)
    BY <2>1
  <2> QED
    BY <1>2, <2>1, <2>2 DEF SendReplay
<1>3. CASE EndReplay(v) BY <1>3 DEF EndReplay
<1>4. CASE Receive(v)
  <2>1. Append(seen[v], next[v]) \in Seq(Nat) /\ next[v] + 1 \in Nat
    OBVIOUS
  <2> QED
    BY <1>4, <2>1 DEF Receive
<1>5. CASE Lag(v)
  <2>1. watch[v] \in Streams
    BY <1>5 DEF Lag, Watching
  <2>2. published[watch[v]] - next[v] + 1 > Capacity
    BY <1>5 DEF Lag, Behind
  <2>3. published[watch[v]] - Capacity + 1 \in Nat
    BY <2>1, <2>2
  <2> QED
    BY <1>5, <2>3 DEF Lag
<1>6. CASE Closed(v) BY <1>6 DEF Closed
<1>7. CASE Hangup(v) BY <1>7 DEF Hangup
<1> QED
  BY <1>1, <1>2, <1>3, <1>4, <1>5, <1>6, <1>7 DEF View

LEMMA TypeStep ==
  TypeOK /\ Watching /\ InflightAccounted /\ [Next]_vars => TypeOK' /\ Watching'
<1> SUFFICES ASSUME TypeOK, Watching, InflightAccounted, [Next]_vars PROVE TypeOK' /\ Watching'
  OBVIOUS
<1>0. inflight' \in [Quotas -> Nat]
  BY QuotaStep
<1>1. ASSUME NEW q \in Requests, Serve(q) PROVE TypeOK' /\ Watching'
  <2>1. UNCHANGED <<vpc, watch>>
    BY <1>1 DEF Serve, Begin, Refuse, LockFor, Start, Release, End, Abandon, viewer
  <2> QED
    BY <1>0, <1>1, <2>1, RequestTypes DEF Watching
<1>2. ASSUME NEW q \in Streams, Task(q) PROVE TypeOK' /\ Watching'
  <2>1. UNCHANGED <<vpc, watch>>
    BY <1>2 DEF Task, Create, Emit, Forward, Finish, Panic, PublishError, Remove, viewer
  <2> QED
    BY <1>2, <2>1, TaskTypes DEF Watching
<1>3. ASSUME NEW v \in Viewers, View(v) \/ \E q \in Streams : Subscribe(v, q)
      PROVE  TypeOK' /\ Watching'
  <2>1. Watching'
    BY SMTT(30), <1>3 DEF Watching, View, Subscribe, SendReplay, EndReplay, Receive, Lag, Closed, Hangup,
                Give, TypeOK
  <2> QED
    BY <1>3, <2>1, ViewTypes
<1>4. CASE UNCHANGED vars
  BY <1>4 DEF vars, TypeOK, Watching, locks, run, viewer
<1> QED
  BY <1>1, <1>2, <1>3, <1>4 DEF Next

-----------------------------------------------------------------------------
(* The turns of a session exclude one another *)

\* A lock that is waited for or held is not pruned.
LEMMA KeptInMap ==
  ASSUME TypeOK, RefsInMap, NEW q \in Requests, LockFor(q),
         NEW r \in Requests, pc[r] \in {"lock"} \cup Holding
  PROVE  entry'[KeyOf[r]] = entry[KeyOf[r]]
<1>1. ref[r] # 0 /\ ref[r] = entry[KeyOf[r]]
  BY DEF RefsInMap
<1>2. KeyOf[r] \in Quotas
  BY RequestsAssumption
<1>3. \A k : KeyOf[r] \notin Prunable(k)
  BY <1>1 DEF Prunable, InUse
<1> QED
  BY <1>1, <1>2, <1>3 DEF LockFor

LEMMA MutexStep ==
  TypeOK /\ RefsInMap /\ SessionMutex /\ [Next]_vars => RefsInMap' /\ SessionMutex'
<1> SUFFICES ASSUME TypeOK, RefsInMap, SessionMutex, [Next]_vars
             PROVE  RefsInMap' /\ SessionMutex'
  OBVIOUS
<1> USE DEF TypeOK, RefsInMap, SessionMutex, Holding, Goto, Unref, locks
<1>1. ASSUME NEW q \in Requests, Serve(q) PROVE RefsInMap' /\ SessionMutex'
  <2>1. CASE Begin(q) BY <2>1 DEF Begin
  <2>2. CASE Refuse(q) BY <2>2 DEF Refuse
  <2>3. CASE LockFor(q)
    <3>1. entry'[KeyOf[q]] # 0 /\ ref' = [ref EXCEPT ![q] = entry'[KeyOf[q]]]
      <4> DEFINE mine == IF entry[KeyOf[q]] = 0 THEN made + 1 ELSE entry[KeyOf[q]]
      <4>1. KeyOf[q] \in Quotas
        BY RequestsAssumption
      <4>2. entry'[KeyOf[q]] = mine /\ ref' = [ref EXCEPT ![q] = mine]
        BY <2>3, <4>1 DEF LockFor
      <4>3. mine # 0
        OBVIOUS
      <4> QED
        BY <4>2, <4>3
    <3>2. pc' = [pc EXCEPT ![q] = "lock"]
      BY <2>3 DEF LockFor
    <3>3. \A r \in Requests \ {q} : pc[r] \in {"lock"} \cup Holding => entry'[KeyOf[r]] = entry[KeyOf[r]]
      BY <2>3, KeptInMap
    <3> QED
      BY ZenonT(30), <3>1, <3>2, <3>3
  <2>4. CASE Start(q)
    <3>1. \A r \in Requests : KeyOf[r] = KeyOf[q] => pc[r] \notin Holding
      BY <2>4 DEF Start, LockFree
    <3> QED
      BY <2>4, <3>1 DEF Start
  <2>5. CASE Release(q) BY <2>5 DEF Release
  <2>6. CASE End(q) BY <2>6 DEF End
  <2>7. CASE Abandon(q) BY <2>7 DEF Abandon
  <2> QED
    BY <1>1, <2>1, <2>2, <2>3, <2>4, <2>5, <2>6, <2>7 DEF Serve
<1>2. ASSUME NEW q \in Streams, Task(q) PROVE RefsInMap' /\ SessionMutex'
  <2>0. q \in Requests
    BY DEF Requests
  <2>1. CASE Create(q) BY <2>0, <2>1 DEF Create
  <2>2. CASE Emit(q) BY <2>2 DEF Emit
  <2>3. CASE Forward(q) BY <2>3 DEF Forward
  <2>4. CASE Finish(q) BY <2>0, <2>4 DEF Finish
  <2>5. CASE Panic(q) BY <2>0, <2>5 DEF Panic
  <2>6. CASE PublishError(q) BY <2>0, <2>6 DEF PublishError
  <2>7. CASE Remove(q) BY <2>0, <2>7 DEF Remove
  <2> QED
    BY <1>2, <2>1, <2>2, <2>3, <2>4, <2>5, <2>6, <2>7 DEF Task
<1>3. ASSUME NEW v \in Viewers, View(v) \/ \E q \in Streams : Subscribe(v, q)
      PROVE  RefsInMap' /\ SessionMutex'
  BY <1>3 DEF View, Subscribe, SendReplay, EndReplay, Receive, Lag, Closed, Hangup
<1>4. CASE UNCHANGED vars
  BY <1>4 DEF vars
<1> QED
  BY <1>1, <1>2, <1>3, <1>4 DEF Next

-----------------------------------------------------------------------------
(* What a client gets *)

\* Publishing gives an open run one more event, and takes none from any run.
LEMMA PublishAdds ==
  ASSUME TypeOK, NEW q \in Streams, Publish(q)
  PROVE  /\ \A r \in Streams : published[r] \in Nat /\ published'[r] \in Nat /\ published[r] <= published'[r]
         /\ channel[q] = "open" => published'[q] = published[q] + 1
BY DEF TypeOK, Publish

\* A step that does not touch the channel or the last event of a run, and whose
\* request stays before its turn's end, or after it, keeps the phases.
LEMMA PhasesKept ==
  ASSUME TypeOK, Phases, UNCHANGED <<channel, last>>,
         \A r \in Streams : published'[r] \in Nat /\ published[r] <= published'[r],
         \A r \in Streams :
           \/ pc'[r] = pc[r]
           \/ pc[r] \in {"new", "begun", "named"} /\ pc'[r] \in {"begun", "done", "gone"}
           \/ pc[r] \in {"named", "lock", "turn"} /\ pc'[r] \in {"lock", "turn", "panicked"}
           \/ pc[r] \in {"drain", "end"} /\ pc'[r] \in {"end", "timer"}
  PROVE  Phases'
<1> SUFFICES ASSUME NEW r \in Streams
             PROVE  /\ pc'[r] \in {"named", "lock", "turn", "drain", "panicked", "end", "timer"}
                         => channel[r] = "open"
                    /\ pc'[r] \in {"drain", "end", "timer"} \/ channel[r] = "removed" => last[r] # 0
                    /\ last[r] # 0 => pc'[r] \in {"drain", "end", "timer", "done"}
                    /\ last[r] <= published'[r]
  BY DEF Phases
<1>1. last[r] \in Nat /\ published[r] \in Nat
  BY DEF TypeOK
<1> QED
  BY <1>1 DEF Phases

LEMMA PhasesStep == TypeOK /\ Phases /\ [Next]_vars => Phases'
<1> SUFFICES ASSUME TypeOK, Phases, [Next]_vars PROVE Phases'
  OBVIOUS
<1>n. \A r \in Streams : published[r] \in Nat /\ last[r] \in Nat
  BY DEF TypeOK
<1>r. Streams \subseteq Requests /\ \A q \in Sends : q \notin Streams
  BY RequestsAssumption DEF Requests
<1>1. ASSUME NEW q \in Requests, Serve(q), ~Start(q) PROVE Phases'
  <2>1. UNCHANGED <<channel, last, published>>
    BY <1>1 DEF Serve, Begin, Refuse, LockFor, Release, End, Abandon, run
  <2>2. \A r \in Streams :
           \/ pc'[r] = pc[r]
           \/ pc[r] \in {"new", "begun", "named"} /\ pc'[r] \in {"begun", "done", "gone"}
           \/ pc[r] \in {"named", "lock", "turn"} /\ pc'[r] \in {"lock", "turn", "panicked"}
           \/ pc[r] \in {"drain", "end"} /\ pc'[r] \in {"end", "timer"}
    BY <1>1, <1>r DEF TypeOK, Serve, Begin, Refuse, LockFor, Release, End, Abandon, Goto
  <2> QED
    BY <1>n, <2>1, <2>2, PhasesKept
<1>2. ASSUME NEW q \in Requests, Start(q) PROVE Phases'
  <2>1. UNCHANGED <<channel, last>> /\ pc[q] = "lock" /\ pc' = [pc EXCEPT ![q] = "turn"]
    BY <1>2 DEF Start, Goto
  <2>2. \A r \in Streams : published'[r] \in Nat /\ published[r] <= published'[r]
    <3>1. CASE q \in Streams
      <4>1. Publish(q) BY <1>2, <3>1 DEF Start
      <4> QED BY <3>1, <4>1, PublishAdds
    <3>2. CASE q \notin Streams
      BY <1>2, <1>n, <3>2 DEF Start
    <3> QED BY <3>1, <3>2
  <2>3. \A r \in Streams : pc'[r] = pc[r] \/ (pc[r] = "lock" /\ pc'[r] = "turn")
    BY <1>r, <2>1 DEF TypeOK
  <2> QED
    BY <2>1, <2>2, <2>3, PhasesKept
<1>3. ASSUME NEW q \in Streams, Emit(q) \/ Forward(q) \/ Panic(q) PROVE Phases'
  <2>1. UNCHANGED <<channel, last>>
    BY <1>3 DEF Emit, Forward, Panic, run
  <2>2. \A r \in Streams : published'[r] \in Nat /\ published[r] <= published'[r]
    <3>1. CASE Publish(q) BY <3>1, PublishAdds
    <3>2. CASE UNCHANGED published BY <1>n, <3>2
    <3> QED BY <1>3, <3>1, <3>2 DEF Emit, Forward, Panic, run
  <2>3. \A r \in Streams : pc'[r] = pc[r] \/ (pc[r] = "turn" /\ pc'[r] = "panicked")
    BY <1>3, <1>r DEF TypeOK, Emit, Forward, Panic, Goto
  <2> QED
    BY <2>1, <2>2, <2>3, PhasesKept
<1>4. ASSUME NEW q \in Streams, Finish(q) \/ PublishError(q) PROVE Phases'
  <2>1. /\ Publish(q) /\ UNCHANGED channel /\ last' = [last EXCEPT ![q] = published[q] + 1]
        /\ pc[q] \in {"turn", "panicked"}
        /\ \E p \in {"drain", "end"} : pc' = [pc EXCEPT ![q] = p]
    BY <1>4 DEF Finish, PublishError, Goto
  <2>2. channel[q] = "open"
    BY <2>1 DEF Phases
  <2>3. /\ \A r \in Streams : published'[r] \in Nat /\ published[r] <= published'[r]
        /\ published'[q] = published[q] + 1
    BY <2>1, <2>2, PublishAdds
  <2>4. \A r \in Streams : IF r = q THEN last'[r] = published[r] + 1 /\ pc'[r] \in {"drain", "end"}
                                   ELSE last'[r] = last[r] /\ pc'[r] = pc[r]
    BY <1>r, <2>1 DEF TypeOK
  <2> QED
    BY <1>n, <2>1, <2>2, <2>3, <2>4 DEF Phases
<1>5. ASSUME NEW q \in Streams, Create(q) PROVE Phases'
  BY <1>5, <1>r DEF Create, Phases, Goto, TypeOK
<1>6. ASSUME NEW q \in Streams, Remove(q) PROVE Phases'
  BY <1>6, <1>r DEF Remove, Phases, Goto, TypeOK
<1>7. ASSUME NEW v \in Viewers, View(v) \/ \E q \in Streams : Subscribe(v, q) PROVE Phases'
  BY <1>7 DEF View, Subscribe, SendReplay, EndReplay, Receive, Lag, Closed, Hangup, run, Phases
<1>8. CASE UNCHANGED vars
  BY <1>8 DEF vars, run, Phases
<1> QED
  BY <1>1, <1>2, <1>3, <1>4, <1>5, <1>6, <1>7, <1>8 DEF Next, Serve, Task

\* A step publishes more events of a run or none, and names the last one once, as
\* one that is new.
LEMMA RunGrows ==
  ASSUME TypeOK, Phases, [Next]_vars, NEW q \in Streams
  PROVE  /\ published[q] <= published'[q]
         /\ last'[q] = last[q] \/ (last[q] = 0 /\ last'[q] > published[q])
<1>n. published[q] \in Nat /\ last[q] \in Nat
  BY DEF TypeOK
<1>p. \A r \in Streams : Publish(r) => published[q] <= published'[q]
  BY PublishAdds
<1>1. published[q] <= published'[q]
  <2>1. CASE UNCHANGED published BY <1>n, <2>1
  <2>2. ASSUME NEW r \in Streams, Publish(r) PROVE published[q] <= published'[q]
    BY <1>p, <2>2
  <2>3. UNCHANGED published \/ \E r \in Streams : Publish(r)
    BY DEF Next, Serve, Task, View, Begin, Refuse, LockFor, Start, Release, End, Abandon,
           Create, Emit, Forward, Finish, Panic, PublishError, Remove,
           Subscribe, SendReplay, EndReplay, Receive, Lag, Closed, Hangup, run, vars
  <2> QED BY <2>1, <2>2, <2>3
<1>2. ASSUME NEW r \in Streams, Finish(r) \/ PublishError(r)
      PROVE  last'[q] = last[q] \/ (last[q] = 0 /\ last'[q] > published[q])
  <2>1. last' = [last EXCEPT ![r] = published[r] + 1] /\ pc[r] \in {"turn", "panicked"}
    BY <1>2 DEF Finish, PublishError
  <2>2. last[r] = 0
    BY <2>1 DEF Phases
  <2> QED
    BY <1>n, <2>1, <2>2 DEF TypeOK
<1>3. UNCHANGED last \/ \E r \in Streams : Finish(r) \/ PublishError(r)
  BY DEF Next, Serve, Task, View, Begin, Refuse, LockFor, Start, Release, End, Abandon,
         Create, Emit, Forward, Panic, Remove,
         Subscribe, SendReplay, EndReplay, Receive, Lag, Closed, Hangup, run, vars
<1> QED
  BY <1>1, <1>2, <1>3

\* What happens to the runs leaves every client with the beginning of its run.
LEMMA KeepsFollowing ==
  ASSUME TypeOK, TypeOK', Watching, Phases, Followed, [Next]_vars, UNCHANGED viewer
  PROVE  Followed'
<1> SUFFICES ASSUME NEW v \in Viewers, ~excused[v] PROVE Follows(v)'
  BY DEF Followed, viewer
<1>0. Follows(v)
  BY DEF Followed
<1>v. UNCHANGED <<seen, watch, backlog, next, ended, vpc>>
  BY DEF viewer
<1>1. CASE watch[v] = NoRun
  <2>1. vpc[v] = "idle"
    BY <1>1, RequestsAssumption DEF Watching, Requests
  <2> QED
    BY <1>0, <1>1, <1>v, <2>1 DEF Follows
<1>2. CASE watch[v] \in Streams
  <2> DEFINE w == watch[v] n == Len(seen[v])
  <2>1. /\ published[w] <= published'[w]
        /\ last'[w] = last[w] \/ (last[w] = 0 /\ last'[w] > published[w])
    BY <1>2, RunGrows
  <2>2. /\ published[w] \in Nat /\ published'[w] \in Nat /\ last[w] \in Nat /\ last'[w] \in Nat
        /\ next[v] \in Nat /\ n \in Nat
    BY <1>2 DEF TypeOK
  <2>3. w # NoRun /\ n <= published[w]
    BY <1>0, <1>2, RequestsAssumption DEF Follows, Requests
  <2>4. vpc[v] \in {"idle", "replay", "live"} => last'[w] = 0 \/ n < last'[w]
    BY <1>0, <2>1, <2>2, <2>3 DEF Follows
  <2>5. vpc[v] = "replay" =>
          next[v] <= published'[w] + 1 /\ (ended[v] => last'[w] # 0 /\ last'[w] < next[v])
    BY <1>0, <2>1, <2>2 DEF Follows
  <2>6. vpc[v] = "over" => last'[w] # 0 /\ n = last'[w]
    BY <1>0, <2>1, <2>2 DEF Follows
  <2>7. n <= published'[w]
    BY <2>1, <2>2, <2>3
  <2> QED
    BY <1>0, <1>v, <2>3, <2>4, <2>5, <2>6, <2>7 DEF Follows
<1> QED
  BY <1>1, <1>2 DEF TypeOK

\* A client that has got the beginning of a run is at its end.
LEMMA GotAll ==
  ASSUME TypeOK, NEW v \in Viewers, Follows(v)
  PROVE  Got(v) = Len(seen[v])
<1>1. seen[v] \in Seq(Nat)
  BY DEF TypeOK
<1>2. CASE seen[v] = << >>
  BY <1>2 DEF Got
<1>3. CASE seen[v] # << >>
  <2>1. Len(seen[v]) \in 1 .. Len(seen[v])
    BY <1>1, <1>3
  <2> QED
    BY <1>3, <2>1 DEF Got, Follows
<1> QED
  BY <1>2, <1>3

\* The replay of a run whose history has not lost what comes next is all the rest.
LEMMA ReplayIsRest ==
  ASSUME TypeOK, NEW q \in Streams, NEW n \in Nat, n <= published[q], Oldest(q) <= n + 1
  PROVE  /\ Len(Replay(q, n)) = published[q] - n
         /\ \A i \in 1 .. published[q] - n : Replay(q, n)[i] = n + i
<1> DEFINE from == IF Oldest(q) > n THEN Oldest(q) ELSE n + 1
           len  == IF published[q] < from THEN 0 ELSE published[q] - from + 1
<1>1. Oldest(q) \in Nat /\ published[q] \in Nat
  BY LimitsAssumption DEF Oldest, TypeOK
<1>2. from = n + 1
  BY <1>1
<1>3. len = published[q] - n /\ len \in Nat
  BY <1>1, <1>2
<1>4. Replay(q, n) = [i \in 1 .. len |-> from + i - 1]
  BY DEF Replay
<1> HIDE DEF from, len
<1>5. Replay(q, n) = [i \in 1 .. len |-> n + i]
  BY <1>2, <1>3, <1>4
<1>6. Len(Replay(q, n)) = len
  BY <1>3, <1>5
<1> QED
  BY <1>3, <1>5, <1>6

\* Giving a client the event after its last one.
LEMMA GiveNext ==
  ASSUME TypeOK, NEW v \in Viewers, Follows(v), watch[v] \in Streams,
         vpc[v] \in {"replay", "live"}, NEW where, NEW n \in Nat, n = Len(seen[v]) + 1,
         n <= published[watch[v]], Give(v, n, where)
  PROVE  /\ Len(seen'[v]) = n /\ \A i \in 1 .. n : seen'[v][i] = i
         /\ n = last[watch[v]] => vpc'[v] = "over"
         /\ n # last[watch[v]] => vpc'[v] = where /\ (last[watch[v]] = 0 \/ n < last[watch[v]])
<1>1. seen[v] \in Seq(Nat) /\ last[watch[v]] \in Nat
  BY DEF TypeOK
<1>2. seen'[v] = Append(seen[v], n)
  BY DEF Give, TypeOK
<1>3. vpc'[v] = IF n = last[watch[v]] THEN "over" ELSE where
  BY DEF Give, TypeOK
<1>4. Len(seen'[v]) = n /\ \A i \in 1 .. n : seen'[v][i] = IF i = n THEN n ELSE seen[v][i]
  BY <1>1, <1>2
<1>5. last[watch[v]] = 0 \/ Len(seen[v]) < last[watch[v]]
  BY RequestsAssumption DEF Follows, Requests
<1>6. \A i \in 1 .. n : seen'[v][i] = i
  <2>1. \A i \in 1 .. Len(seen[v]) : seen[v][i] = i
    BY DEF Follows
  <2>2. \A i \in 1 .. n : i = n \/ i \in 1 .. Len(seen[v])
    BY <1>1
  <2> QED
    BY <1>4, <2>1, <2>2
<1> QED
  BY <1>1, <1>3, <1>4, <1>5, <1>6

\* The steps of a viewer concern no other.
LEMMA OthersFollow ==
  ASSUME TypeOK, NEW v \in Viewers, View(v) \/ \E q \in Streams : Subscribe(v, q),
         NEW u \in Viewers, u # v, ~excused'[u], Followed
  PROVE  Follows(u)'
<1>1. /\ seen'[u] = seen[u] /\ watch'[u] = watch[u] /\ backlog'[u] = backlog[u] /\ next'[u] = next[u]
      /\ ended'[u] = ended[u] /\ vpc'[u] = vpc[u] /\ excused'[u] = excused[u]
  BY DEF TypeOK, View, Subscribe, SendReplay, EndReplay, Receive, Lag, Closed, Hangup, Give
<1>2. UNCHANGED <<published, last>>
  BY DEF View, Subscribe, SendReplay, EndReplay, Receive, Lag, Closed, Hangup, run
<1>3. Follows(u)
  BY <1>1 DEF Followed
<1> QED
  BY <1>1, <1>2, <1>3 DEF Follows

\* With one event of a client's replay sent on, as many are before its receiver.
LEMMA Counting ==
  ASSUME NEW a \in Nat, NEW b \in Nat, NEW c \in Nat, NEW d \in Nat,
         d = a + b + 1, d <= c + 1, b >= 1
  PROVE  a + 1 <= c /\ d = (a + 1) + (b - 1) + 1
OBVIOUS

LEMMA ViewFollows ==
  ASSUME TypeOK, TypeOK', Watching, Phases, Followed, NEW v \in Viewers,
         View(v) \/ \E q \in Streams : Subscribe(v, q)
  PROVE  Followed'
<1> SUFFICES ASSUME ~excused'[v] PROVE Follows(v)'
  BY OthersFollow DEF Followed
<1> DEFINE n == Len(seen[v]) w == watch[v]
<1>s. seen[v] \in Seq(Nat) /\ backlog[v] \in Seq(Nat)
  BY DEF TypeOK
<1>n. /\ n \in Nat /\ next[v] \in Nat /\ Len(backlog[v]) \in Nat
      /\ \A q \in Streams : published[q] \in Nat /\ last[q] \in Nat /\ last[q] <= published[q]
  BY DEF TypeOK, Phases
<1>r. \A q \in Streams : q # NoRun
  BY RequestsAssumption DEF Requests
<1>1. ASSUME NEW q \in Streams, Subscribe(v, q) PROVE Follows(v)'
  <2>1. /\ vpc[v] = "idle" /\ w \in {NoRun, q} /\ seen' = seen /\ UNCHANGED <<published, last>>
        /\ watch'[v] = q /\ backlog'[v] = Replay(q, Got(v)) /\ next'[v] = published[q] + 1
        /\ vpc'[v] = "replay"
    BY <1>1 DEF Subscribe, TypeOK, run
  <2>0. ended \in [Viewers -> BOOLEAN] /\ excused \in [Viewers -> BOOLEAN]
    BY DEF TypeOK
  <2>2. ended'[v] => last[q] # 0
    <3>1. ended' = [ended EXCEPT ![v] = last[q] # 0]
      BY <1>1 DEF Subscribe
    <3> QED BY <2>0, <3>1, Zenon
  <2>3. ~excused[v] /\ ~(Oldest(q) > Got(v) + 1)
    <3>1. excused' = [excused EXCEPT ![v] = excused[v] \/ Oldest(q) > Got(v) + 1]
      BY <1>1 DEF Subscribe
    <3>2. excused'[v] = (excused[v] \/ Oldest(q) > Got(v) + 1)
      BY <2>0, <3>1, Zenon
    <3> QED BY <3>2, Zenon
  <2>4. Follows(v)
    BY <2>3 DEF Followed
  <2>5. Got(v) = n
    BY <2>4, GotAll
  <2>6. n <= published[q] /\ (last[q] = 0 \/ n < last[q])
    BY <1>n, <1>r, <2>1, <2>4 DEF Follows
  <2>7. Oldest(q) \in Nat
    BY <1>n, LimitsAssumption DEF Oldest
  <2>8. /\ Len(backlog'[v]) = published[q] - n
        /\ \A i \in 1 .. published[q] - n : backlog'[v][i] = n + i
    <3>1. n <= published[q] /\ Oldest(q) <= n + 1
      BY <1>n, <2>3, <2>5, <2>6, <2>7
    <3>2. backlog'[v] = Replay(q, n)
      BY <2>1, <2>5
    <3> QED
      BY <1>n, <3>1, <3>2, ReplayIsRest
  <2>9. ended'[v] => last[q] # 0 /\ last[q] < next'[v]
    BY <1>n, <2>1, <2>2
  <2>10. \A i \in 1 .. n : seen[v][i] = i
    BY <2>4 DEF Follows
  <2>11. next'[v] = n + Len(backlog'[v]) + 1
    BY <1>n, <2>1, <2>8
  <2>12. next'[v] <= published[q] + 1
    BY <1>n, <2>1
  <2> QED
    BY <1>r, <2>1, <2>6, <2>8, <2>9, <2>10, <2>11, <2>12 DEF Follows
<1>2. CASE SendReplay(v)
  <2>1. /\ vpc[v] = "replay" /\ backlog[v] # << >> /\ Give(v, Head(backlog[v]), "replay")
        /\ backlog'[v] = Tail(backlog[v])
        /\ UNCHANGED <<watch, next, ended, excused, published, last>>
    BY <1>2 DEF SendReplay, TypeOK, run
  <2>2. Follows(v) /\ w \in Streams
    BY <2>1 DEF Followed, Watching
  <2> DEFINE m == Len(backlog[v])
  <2>3. m >= 1 /\ Head(backlog[v]) = n + 1 /\ next[v] = n + m + 1 /\ next[v] <= published[w] + 1
    <3>1. m >= 1
      BY <1>n, <1>s, <2>1
    <3>2. /\ \A i \in 1 .. m : backlog[v][i] = n + i
          /\ next[v] = n + m + 1 /\ next[v] <= published[w] + 1
      BY <2>1, <2>2 DEF Follows
    <3>3. Head(backlog[v]) = backlog[v][1]
      BY <1>s, <2>1
    <3>4. 1 \in 1 .. m
      BY <1>n, <3>1
    <3> QED
      BY <3>1, <3>2, <3>3, <3>4
  <2>4. n + 1 <= published[w] /\ next[v] = (n + 1) + (m - 1) + 1
    <3>1. published[w] \in Nat
      BY <1>n, <2>2
    <3> QED
      BY <1>n, <2>3, <3>1, Counting
  <2>5. /\ Len(seen'[v]) = n + 1 /\ \A i \in 1 .. n + 1 : seen'[v][i] = i
        /\ n + 1 = last[w] => vpc'[v] = "over"
        /\ n + 1 # last[w] => vpc'[v] = "replay" /\ (last[w] = 0 \/ n + 1 < last[w])
    BY <1>n, <2>1, <2>2, <2>3, <2>4, GiveNext
  <2>6. /\ Len(backlog'[v]) = m - 1
        /\ \A i \in 1 .. m - 1 : backlog'[v][i] = backlog[v][i + 1]
    BY <1>n, <1>s, <2>1
  <2>7. \A i \in 1 .. m - 1 : backlog'[v][i] = (n + 1) + i
    <3>1. \A i \in 1 .. m : backlog[v][i] = n + i
      BY <2>1, <2>2 DEF Follows
    <3>2. \A i \in 1 .. m - 1 : i + 1 \in 1 .. m
      BY <1>n
    <3> QED
      BY <1>n, <2>6, <3>1, <3>2
  <2>9. ended[v] => last[w] # 0 /\ last[w] < next[v]
    BY <2>1, <2>2 DEF Follows
  <2>10. n + 1 = last[w] => last[w] # 0
    BY <1>n
  <2> QED
    BY <1>r, <2>1, <2>2, <2>3, <2>4, <2>5, <2>6, <2>7, <2>9, <2>10 DEF Follows
<1>3. CASE EndReplay(v)
  <2>1. /\ vpc[v] = "replay" /\ backlog[v] = << >>
        /\ vpc'[v] = IF ended[v] THEN "over" ELSE "live"
        /\ UNCHANGED <<watch, backlog, next, ended, seen, excused, published, last>>
    BY <1>3 DEF EndReplay, TypeOK, run
  <2>2. Follows(v) /\ w \in Streams
    BY <2>1 DEF Followed, Watching
  <2>3. next[v] = n + 1
    BY <1>n, <2>1, <2>2 DEF Follows
  <2>4. last[w] = 0 \/ n < last[w]
    BY <1>r, <2>1, <2>2 DEF Follows
  <2>5. ~ended[v]
    BY <1>n, <2>1, <2>2, <2>3, <2>4 DEF Follows
  <2> QED
    BY <2>1, <2>2, <2>3, <2>4, <2>5 DEF Follows
<1>4. CASE Receive(v)
  <2>1. /\ vpc[v] = "live" /\ Behind(v) \in 1 .. Capacity /\ Give(v, next[v], "live")
        /\ next'[v] = next[v] + 1
        /\ UNCHANGED <<watch, backlog, ended, excused, published, last>>
    BY <1>4 DEF Receive, TypeOK, run
  <2>2. Follows(v) /\ w \in Streams
    BY <2>1 DEF Followed, Watching
  <2>3. next[v] = n + 1
    BY <2>1, <2>2 DEF Follows
  <2>4. n + 1 <= published[w]
    BY <1>n, <2>1, <2>2, <2>3, LimitsAssumption DEF Behind
  <2>5. /\ Len(seen'[v]) = n + 1 /\ \A i \in 1 .. n + 1 : seen'[v][i] = i
        /\ n + 1 = last[w] => vpc'[v] = "over"
        /\ n + 1 # last[w] => vpc'[v] = "live" /\ (last[w] = 0 \/ n + 1 < last[w])
    <3>1. Give(v, n + 1, "live") /\ n + 1 \in Nat
      BY <1>n, <2>1, <2>3
    <3> QED
      BY <1>n, <2>1, <2>2, <2>4, <3>1, GiveNext
  <2>6. n + 1 = last[w] => last[w] # 0
    BY <1>n
  <2> QED
    BY <1>r, <2>1, <2>2, <2>3, <2>4, <2>5, <2>6 DEF Follows
<1>5. CASE Lag(v)
  BY <1>5 DEF Lag, TypeOK
<1>6. CASE Closed(v)
  <2>1. /\ vpc[v] = "live" /\ Behind(v) = 0 /\ channel[w] = "removed" /\ UNCHANGED excused
    BY <1>6 DEF Closed
  <2>2. Follows(v) /\ w \in Streams
    BY <2>1 DEF Followed, Watching
  <2>3. next[v] = n + 1 /\ (last[w] = 0 \/ n < last[w])
    BY <1>r, <2>1, <2>2 DEF Follows
  <2>4. n = published[w]
    BY <1>n, <2>1, <2>2, <2>3 DEF Behind
  <2>5. last[w] # 0
    BY <2>1, <2>2 DEF Phases
  <2> QED
    BY <1>n, <2>2, <2>3, <2>4, <2>5
<1>7. CASE Hangup(v)
  <2>1. /\ vpc[v] \in {"replay", "live"} /\ vpc'[v] \in {"idle", "cut"}
        /\ UNCHANGED <<watch, backlog, next, ended, seen, excused, published, last>>
    BY <1>7 DEF Hangup, TypeOK, run
  <2>2. Follows(v)
    BY <2>1 DEF Followed
  <2> QED
    BY <2>1, <2>2 DEF Follows
<1> QED
  BY <1>1, <1>2, <1>3, <1>4, <1>5, <1>6, <1>7 DEF View

LEMMA FollowStep ==
  TypeOK /\ TypeOK' /\ Watching /\ Phases /\ Followed /\ [Next]_vars => Followed'
<1> SUFFICES ASSUME TypeOK, TypeOK', Watching, Phases, Followed, [Next]_vars PROVE Followed'
  OBVIOUS
<1>1. CASE UNCHANGED viewer
  BY <1>1, KeepsFollowing
<1>2. ASSUME NEW v \in Viewers, View(v) \/ \E q \in Streams : Subscribe(v, q) PROVE Followed'
  BY <1>2, ViewFollows
<1>3. \/ UNCHANGED viewer
      \/ \E v \in Viewers : View(v) \/ \E q \in Streams : Subscribe(v, q)
  BY DEF Next, Serve, Task, Begin, Refuse, LockFor, Start, Release, End, Abandon,
         Create, Emit, Forward, Finish, Panic, PublishError, Remove, vars, viewer
<1> QED
  BY <1>1, <1>2, <1>3

-----------------------------------------------------------------------------
(* The theorems *)

LEMMA Inductive == Spec => []IInv
<1>1. Init => IInv
  BY InitIInv
<1>2. IInv /\ [Next]_vars => IInv'
  BY QuotaStep, TypeStep, MutexStep, PhasesStep, FollowStep DEF IInv
<1> QED
  BY <1>1, <1>2, PTL DEF Spec

\* The variables keep their types; in particular a receiver is never ahead of what
\* was published, and no quota falls below zero.
THEOREM TypeCorrect == Spec => []TypeOK
<1>1. IInv => TypeOK
  BY DEF IInv
<1> QED
  BY <1>1, Inductive, PTL

\* lock_for may forget locks, and still two turns of one session never overlap: a lock
\* that is waited for or held stays in the map.
THEOREM SessionMutexCorrect == Spec => []SessionMutex
<1>1. IInv => SessionMutex
  BY DEF IInv
<1> QED
  BY <1>1, Inductive, PTL

\* begin and end_with_limits count both quotas of a request, and each request once.
THEOREM InflightAccountedCorrect == Spec => []InflightAccounted
<1>1. IInv => InflightAccounted
  BY DEF IInv
<1> QED
  BY <1>1, Inductive, PTL

\* A client whose stream is over got every event once and in order, whatever it
\* missed in between, unless the history or the channel had lost it.
THEOREM SeenWholeCorrect == Spec => []SeenWhole
<1>1. IInv => SeenWhole
  <2> SUFFICES ASSUME IInv, NEW v \in Viewers, vpc[v] = "over", ~excused[v]
               PROVE  seen[v] = [i \in 1 .. last[watch[v]] |-> i]
    BY DEF SeenWhole
  <2>1. Follows(v) /\ seen[v] \in Seq(Nat)
    BY DEF IInv, Followed, TypeOK
  <2>2. Len(seen[v]) = last[watch[v]] /\ \A i \in 1 .. last[watch[v]] : seen[v][i] = i
    BY <2>1 DEF Follows
  <2>3. seen[v] = [i \in 1 .. Len(seen[v]) |-> seen[v][i]]
    BY <2>1
  <2> QED
    BY <2>2, <2>3
<1> QED
  BY <1>1, Inductive, PTL

=============================================================================
