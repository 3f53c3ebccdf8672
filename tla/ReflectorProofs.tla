-------------------------- MODULE ReflectorProofs --------------------------
(***************************************************************************)
(* Proofs about Reflector, for any processes, batches and bounds: that the *)
(* cursor passes over no message unread, that one process writes no fact   *)
(* twice to the store it reads, and that what a pass was given is kept.    *)
(***************************************************************************)
EXTENDS Reflector, FiniteSetTheorems, WellFoundedInduction, TLAPS

\* What the passes rely on: the cursor is a stored message, and a pass under way has
\* a batch of such messages.
InPass == {"list", "model", "apply", "cursor"}
Sound ==
  /\ clock \in 0 .. MaxMessages /\ stored \subseteq 1 .. clock
  /\ cursor \in stored \cup {0}
  /\ pc \in [Procs -> {"down", "idle", "read"} \cup InPass]
  /\ batch \in [Procs -> SUBSET stored]
  /\ \A p \in Procs : pc[p] \in InPass => batch[p] # {}

\* A pass leaves out no message before the end of its batch that needs one.
PassCovers ==
  \A p \in Procs : pc[p] \in InPass =>
    \A m \in stored : m <= Newest(batch[p]) => m \in batch[p] \cup handled \cup excused

IInv == Sound /\ PassCovers /\ CursorCovers

-----------------------------------------------------------------------------
(* The newest message of a batch *)

LEMMA LeastExists ==
  ASSUME NEW T, T \subseteq Nat, T # {}
  PROVE  \E x \in T : \A y \in T : x <= y
<1>1. \E x \in T : \A y \in T : ~(<<y, x>> \in OpToRel(<, Nat))
  BY NatLessThanWellFounded, WFMin
<1>2. PICK x \in T : \A y \in T : ~(<<y, x>> \in OpToRel(<, Nat))
  BY <1>1
<1>3. \A y \in T : ~(y < x)
  BY <1>2 DEF OpToRel
<1> QED
  BY <1>3

\* A batch that is not empty has a newest message.
LEMMA NewestExists ==
  ASSUME NEW T, T \subseteq Messages, T # {}
  PROVE  Newest(T) \in T /\ \A m \in T : m <= Newest(T)
<1> DEFINE Back == {MaxMessages - m : m \in T}
<1>0. \A m \in T : m \in Int /\ 1 <= m /\ m <= MaxMessages /\ MaxMessages - m \in Nat
  BY ReflectorAssumption DEF Messages
<1>1. Back \subseteq Nat /\ Back # {}
  <2>1. PICK t \in T : TRUE
    OBVIOUS
  <2>2. MaxMessages - t \in Back
    BY <2>1
  <2> QED
    BY <1>0, <2>2
<1>2. PICK b \in Back : \A c \in Back : b <= c
  BY <1>1, LeastExists
<1>3. PICK n \in T : b = MaxMessages - n
  BY <1>2
<1>4. \A m \in T : m <= n
  <2>1. \A m \in T : MaxMessages - n <= MaxMessages - m
    BY <1>2, <1>3
  <2> QED
    BY <1>0, <2>1, ReflectorAssumption
<1> QED
  BY <1>4 DEF Newest

\* The messages of the chat are few, and so are those of any part of it.
LEMMA StoredFinite ==
  ASSUME Sound, NEW T, T \subseteq stored
  PROVE  IsFiniteSet(T) /\ Cardinality(T) \in Nat /\ T \subseteq Messages
<1>1. stored \subseteq Messages
  BY ReflectorAssumption DEF Sound, Messages
<1>2. IsFiniteSet(Messages)
  BY ReflectorAssumption, FS_Interval DEF Messages
<1>3. IsFiniteSet(T)
  BY <1>1, <1>2, FS_Subset
<1> QED
  BY <1>1, <1>3, FS_CardinalityType

\* get_messages_since takes the oldest messages: none is left out before one that is in.
LEMMA UnreadIsOldest ==
  ASSUME Sound, cursor # 0, NEW x \in Unread, NEW m \in stored, m > cursor, m <= x
  PROVE  m \in Unread
<1> DEFINE Before(n) == {i \in stored : i > cursor /\ i < n}
<1>0. \A n \in stored : n \in Int
  BY DEF Sound
<1>1. x \in stored /\ Cardinality(Before(x)) < Batch
  BY DEF Unread
<1>2. Before(m) \subseteq Before(x)
  BY <1>0, <1>1
<1>3. Before(x) \subseteq stored /\ Before(m) \in SUBSET Before(x)
  BY <1>2
<1> HIDE DEF Before
<1>4. IsFiniteSet(Before(x)) /\ Cardinality(Before(x)) \in Nat /\ Cardinality(Before(m)) \in Nat
  BY <1>3, StoredFinite
<1>5. Cardinality(Before(m)) <= Cardinality(Before(x))
  BY <1>3, <1>4, FS_Subset
<1>6. Cardinality(Before(m)) < Batch
  BY <1>1, <1>4, <1>5, ReflectorAssumption
<1> QED
  BY <1>6 DEF Unread, Before

-----------------------------------------------------------------------------
(* The passes *)

LEMMA InitIInv == Init => IInv
BY ReflectorAssumption
   DEF Init, IInv, Sound, PassCovers, CursorCovers, InPass, Messages

\* Steps that touch neither the chat nor the cursor, and keep or end each pass.
LEMMA Untouched ==
  ASSUME IInv, UNCHANGED <<messages, cursor>>, handled \subseteq handled', excused \subseteq excused',
         pc' \in [Procs -> {"down", "idle", "read"} \cup InPass],
         batch' \in [Procs -> SUBSET stored],
         \A p \in Procs : pc'[p] \in InPass => pc[p] \in InPass /\ batch'[p] = batch[p]
  PROVE  IInv'
BY DEF IInv, Sound, PassCovers, CursorCovers, messages

LEMMA ChatStep ==
  ASSUME IInv, Receive \/ Quieten \/ \E m \in Messages : StoreMessage(m)
  PROVE  IInv'
<1> USE DEF IInv, Sound
<1>1. CASE Receive
  BY <1>1, ReflectorAssumption DEF Receive, PassCovers, CursorCovers, history, pass
<1>2. CASE Quieten
  BY <1>2 DEF Quieten, PassCovers, CursorCovers, history, pass
<1>3. ASSUME NEW m \in Messages, StoreMessage(m) PROVE IInv'
  <2>1. /\ m \in 1 .. clock /\ m \notin stored /\ stored' = stored \cup {m}
        /\ UNCHANGED <<clock, cursor, pc, batch, handled>>
    BY <1>3 DEF StoreMessage, Messages, pass
  <2>2. excused \subseteq excused' /\ (\A n \in stored : n > m => m \in excused')
    BY <1>3 DEF StoreMessage
  <2>3. Sound'
    BY <2>1
  <2>4. CursorCovers'
    <3>1. m <= cursor => m \in excused'
      BY <2>1, <2>2
    <3> QED
      BY <2>1, <2>2, <3>1 DEF CursorCovers
  <2>5. PassCovers'
    <3> SUFFICES ASSUME NEW p \in Procs, pc[p] \in InPass, NEW n \in stored \cup {m}, n <= Newest(batch[p])
                 PROVE  n \in batch[p] \cup handled \cup excused'
      BY <2>1 DEF PassCovers
    <3>1. batch[p] \subseteq stored /\ batch[p] # {}
      OBVIOUS
    <3>2. Newest(batch[p]) \in stored
      BY <3>1, StoredFinite, NewestExists
    <3>3. CASE n \in stored
      BY <2>2, <3>3 DEF PassCovers
    <3>4. CASE n = m
      <4>1. m <= Newest(batch[p]) /\ m # Newest(batch[p])
        BY <2>1, <3>2, <3>4
      <4>2. m \in Int /\ Newest(batch[p]) \in Int
        <5>1. stored \subseteq Int
          OBVIOUS
        <5>2. m \in Int
          BY <2>1
        <5>3. Newest(batch[p]) \in Int
          BY <3>2, <5>1
        <5> QED
          BY <5>2, <5>3
      <4>3. Newest(batch[p]) > m
        BY <4>1, <4>2
      <4> QED
        BY <2>2, <3>2, <3>4, <4>3
    <3> QED
      BY <3>3, <3>4
  <2> QED
    BY <2>3, <2>4, <2>5
<1> QED
  BY <1>1, <1>2, <1>3

\* What a pass reads has no gap before its end.
LEMMA ReadStep ==
  ASSUME IInv, NEW p \in Procs, Read(p)
  PROVE  IInv'
<1> USE DEF IInv, Sound
<1>0. Unread \subseteq stored
  BY DEF Unread
<1>1. /\ pc[p] = "read" /\ batch' = [batch EXCEPT ![p] = Unread]
      /\ pc' = [pc EXCEPT ![p] = IF Unread = {} THEN "idle" ELSE "list"]
      /\ UNCHANGED <<clock, stored, cursor, handled>>
  BY DEF Read, Goto, messages
<1>2. excused \subseteq excused' /\ (cursor = 0 => stored \ Unread \subseteq excused')
  BY DEF Read
<1>3. Sound'
  BY <1>0, <1>1 DEF InPass
<1>4. CursorCovers'
  BY <1>1, <1>2 DEF CursorCovers
<1>5. PassCovers'
  <2> SUFFICES ASSUME NEW q \in Procs, pc'[q] \in InPass, NEW m \in stored, m <= Newest(batch'[q])
               PROVE  m \in batch'[q] \cup handled \cup excused'
    BY <1>1 DEF PassCovers
  <2>1. CASE q # p
    BY <1>1, <1>2, <2>1 DEF PassCovers
  <2>2. CASE q = p
    <3>1. Unread # {} /\ batch'[q] = Unread
      BY <1>1, <2>2 DEF InPass
    <3>2. Newest(Unread) \in Unread
      BY <1>0, <3>1, StoredFinite, NewestExists
    <3>3. CASE cursor = 0
      BY <1>2, <3>1, <3>3
    <3>4. CASE cursor # 0 /\ m > cursor
      BY <3>1, <3>2, <3>4, UnreadIsOldest
    <3>5. CASE cursor # 0 /\ m <= cursor
      BY <1>2, <3>5 DEF CursorCovers
    <3>6. m \in Int /\ cursor \in Int
      OBVIOUS
    <3> QED
      BY <3>3, <3>4, <3>5, <3>6
  <2> QED
    BY <2>1, <2>2
<1> QED
  BY <1>3, <1>4, <1>5

\* The cursor moves to the end of a batch, whose messages are then handled.
LEMMA CursorStep ==
  ASSUME IInv, NEW p \in Procs, SetCursor(p)
  PROVE  IInv'
<1> USE DEF IInv, Sound
<1>1. /\ pc[p] = "cursor" /\ cursor' \in {cursor, Newest(batch[p])}
      /\ handled' = handled \cup batch[p] /\ pc' = [pc EXCEPT ![p] = "idle"]
      /\ batch' = [batch EXCEPT ![p] = {}] /\ UNCHANGED <<clock, stored, excused>>
  BY DEF SetCursor, Goto, Forget, messages
<1>2. batch[p] \subseteq stored /\ batch[p] # {} /\ pc[p] \in InPass
  BY <1>1 DEF InPass
<1>3. Newest(batch[p]) \in stored
  BY <1>2, StoredFinite, NewestExists
<1>4. Sound'
  BY <1>1, <1>3 DEF InPass
<1>5. CursorCovers'
  <2>1. CASE cursor' = cursor
    BY <1>1, <2>1 DEF CursorCovers
  <2>2. CASE cursor' = Newest(batch[p])
    BY <1>1, <1>2, <2>2 DEF CursorCovers, PassCovers
  <2> QED
    BY <1>1, <2>1, <2>2
<1>6. PassCovers'
  BY <1>1 DEF PassCovers, InPass
<1> QED
  BY <1>4, <1>5, <1>6

LEMMA IInvStep == IInv /\ [Next]_vars => IInv'
<1> SUFFICES ASSUME IInv, [Next]_vars PROVE IInv'
  OBVIOUS
<1>b. batch \in [Procs -> SUBSET stored] /\ pc \in [Procs -> {"down", "idle", "read"} \cup InPass]
  BY DEF IInv, Sound
<1>1. ASSUME NEW p \in Procs, StartProc(p) \/ Tick(p) \/ Foreground(p) \/ List(p) PROVE IInv'
  BY <1>1, <1>b, Untouched DEF StartProc, Tick, Foreground, List, ListFrom, Goto, pass, history, InPass
<1>2. ASSUME NEW p \in Procs, Crash(p) \/ ExtractFails(p) \/ Extract(p) PROVE IInv'
  BY <1>2, <1>b, Untouched DEF Crash, ExtractFails, Extract, Goto, Forget, history, InPass
<1>3. ASSUME NEW p \in Procs, Apply(p) PROVE IInv'
  <2>1. \E m \in todo[p] : Written(p, m)
    BY <1>3 DEF Apply
  <2>2. /\ pc[p] = "apply" /\ \E w \in {"cursor", "apply"} : pc' = [pc EXCEPT ![p] = w]
        /\ UNCHANGED <<messages, cursor, batch, handled, excused>>
    BY <1>3, <2>1 DEF Apply, Written, Goto
  <2> QED
    BY <1>b, <2>2, Untouched DEF InPass
<1>4. CASE UNCHANGED vars
  BY <1>4, <1>b, Untouched DEF vars, messages, pass, history
<1> QED
  BY <1>1, <1>2, <1>3, <1>4, ChatStep, ReadStep, CursorStep DEF Next, Reflect

\* The cursor passes over no message that no pass has carried through, but those that
\* were stored behind a newer one or were too old for the first pass: for any number
\* of processes, whose passes overlap and whose cursors are written over each other.
THEOREM CursorCoversCorrect == Spec => []CursorCovers
<1>1. Init => IInv
  BY InitIInv
<1>2. IInv /\ [Next]_vars => IInv'
  BY IInvStep
<1>3. IInv => CursorCovers
  BY DEF IInv
<1> QED
  BY <1>1, <1>2, <1>3, PTL DEF Spec

-----------------------------------------------------------------------------
(* The rows *)

RowsOf == [Stores -> [Messages -> Nat]]

\* A write leaves the rows of both stores counted.
LEMMA EffectType ==
  ASSUME NEW R \in RowsOf, NEW p, NEW m \in Messages, NEW s \in Stores, NEW Q \in Effect(R, p, m, s)
  PROVE  Q \in RowsOf
<1>0. \A t \in Stores : \A n \in Messages : R[t][n] \in Nat
  BY DEF RowsOf
<1>1. CASE Q = R
  BY <1>1
<1>2. CASE Q = [R EXCEPT ![s][m] = @ + 1]
  BY <1>0, <1>2 DEF RowsOf
<1>3. ASSUME NEW n \in Messages \ {m}, R[s][n] > 0, Q = [R EXCEPT ![s][n] = @ - 1, ![s][m] = @ + 1]
      PROVE  Q \in RowsOf
  <2>1. R[s][n] - 1 \in Nat /\ R[s][m] + 1 \in Nat
    BY <1>0, <1>3
  <2> QED
    BY <1>3, <2>1 DEF RowsOf
<1> QED
  BY <1>1, <1>2, <1>3 DEF Effect

\* The types of what a pass writes by.
RowTypes ==
  /\ rows \in RowsOf
  /\ todo \in [Procs -> SUBSET Messages] /\ known \in [Procs -> SUBSET Messages]
  /\ from \in [Procs -> Stores]

\* A process that is alone, and whose lists came from the primary store, knows every
\* fact that has a row there, and does not write one again.
RowsKnown ==
  Cardinality(Procs) = 1 /\ ~fellBack =>
    \A p \in Procs :
      /\ pc[p] \in {"model", "apply"} => from[p] = Primary
      /\ pc[p] = "model" => \A m \in Messages \ known[p] : rows[Primary][m] = 0
      /\ pc[p] = "apply" => \A m \in todo[p] \ known[p] : rows[Primary][m] = 0

RInv == Sound /\ RowTypes /\ RowsKnown /\ OneRow

LEMMA TwoStores == Stores = {"mcp", "db"} /\ Primary \in Stores
BY DEF Stores, Primary

LEMMA InitRInv == Init => RInv
<1> SUFFICES ASSUME Init PROVE RInv
  OBVIOUS
<1>1. Sound
  BY InitIInv DEF IInv
<1>2. RowTypes
  BY TwoStores DEF Init, RowTypes, RowsOf
<1>3. RowsKnown
  BY DEF Init, RowsKnown
<1>4. OneRow
  BY TwoStores DEF Init, OneRow
<1> QED
  BY <1>1, <1>2, <1>3, <1>4 DEF RInv

\* What the writes of a list from the primary store do to its rows: only a fact that
\* is not in the list gets one, and no other is touched.
LEMMA EffectOnPrimary ==
  ASSUME NEW p \in Procs, from[p] = Primary, NEW R \in RowsOf, NEW m \in Messages, NEW s \in Stores,
         NEW Q \in Effect(R, p, m, s)
  PROVE  /\ \A n \in Messages \ {m} : Q[Primary][n] = R[Primary][n]
         /\ Q[Primary][m] = R[Primary][m] \/ (m \notin known[p] /\ s = Primary /\ Q[Primary][m] = R[Primary][m] + 1)
<1>0. Primary \in Stores
  BY TwoStores
<1>1. CASE Q = R
  BY <1>0, <1>1 DEF RowsOf
<1>2. CASE m \notin known[p] /\ Q = [R EXCEPT ![s][m] = @ + 1]
  BY <1>0, <1>2 DEF RowsOf
<1>3. CASE s # Primary /\ Q[Primary] = R[Primary]
  BY <1>3
<1>4. ASSUME s # Primary, NEW n \in Messages, Q = [R EXCEPT ![s][n] = @ - 1, ![s][m] = @ + 1]
      PROVE  Q[Primary] = R[Primary]
  BY <1>0, <1>4 DEF RowsOf
<1> QED
  BY <1>1, <1>2, <1>3, <1>4 DEF Effect

LEMMA ApplyRows ==
  ASSUME RInv, NEW p \in Procs, Apply(p)
  PROVE  /\ rows' \in RowsOf
         /\ \E m \in todo[p] :
              /\ Written(p, m)
              /\ from[p] = Primary =>
                   /\ \A n \in Messages \ {m} : rows'[Primary][n] = rows[Primary][n]
                   /\ \/ rows'[Primary][m] = rows[Primary][m]
                      \/ m \notin known[p] /\ rows'[Primary][m] = rows[Primary][m] + 1
<1>0. rows \in RowsOf /\ todo[p] \subseteq Messages /\ {"mcp", "db"} \subseteq Stores
  BY TwoStores DEF RInv, RowTypes
<1>1. PICK m \in todo[p] :
        /\ Written(p, m)
        /\ \/ rows' \in Effect(rows, p, m, "mcp")
           \/ \E R \in {rows} \cup (IF External THEN Effect(rows, p, m, "mcp") ELSE {}) :
                rows' \in Effect(R, p, m, "db") \cup {R}
  BY DEF Apply
<1>2. CASE rows' \in Effect(rows, p, m, "mcp")
  BY <1>0, <1>1, <1>2, EffectType, EffectOnPrimary
<1>3. ASSUME NEW R \in {rows} \cup (IF External THEN Effect(rows, p, m, "mcp") ELSE {}),
             rows' \in Effect(R, p, m, "db") \cup {R}
      PROVE  /\ rows' \in RowsOf
             /\ from[p] = Primary =>
                  /\ \A n \in Messages \ {m} : rows'[Primary][n] = rows[Primary][n]
                  /\ \/ rows'[Primary][m] = rows[Primary][m]
                     \/ m \notin known[p] /\ rows'[Primary][m] = rows[Primary][m] + 1
  <2>1. R \in RowsOf
    BY <1>0, <1>3, EffectType
  <2>2. rows' \in RowsOf
    BY <1>0, <1>3, <2>1, EffectType
  <2>3. from[p] = Primary =>
          /\ \A n \in Messages \ {m} : R[Primary][n] = rows[Primary][n]
          /\ \/ R[Primary][m] = rows[Primary][m]
             \/ External /\ m \notin known[p] /\ R[Primary][m] = rows[Primary][m] + 1
    BY <1>0, <1>3, EffectOnPrimary
  <2>4. from[p] = Primary =>
          /\ \A n \in Messages \ {m} : rows'[Primary][n] = R[Primary][n]
          /\ \/ rows'[Primary][m] = R[Primary][m]
             \/ Primary = "db" /\ m \notin known[p] /\ rows'[Primary][m] = R[Primary][m] + 1
    BY <1>0, <1>3, <2>1, EffectOnPrimary
  <2>5. External => Primary # "db"
    BY DEF Primary
  <2> QED
    BY <2>2, <2>3, <2>4, <2>5
<1> QED
  BY <1>1, <1>2, <1>3

\* Steps that write no row, and neither begin nor widen what a pass writes.
LEMMA RowsUntouched ==
  ASSUME RInv, Sound', RowTypes', UNCHANGED rows, ~fellBack' => ~fellBack,
         \A p \in Procs : pc'[p] \in {"model", "apply"} =>
           /\ pc[p] = pc'[p] \/ (pc[p] = "model" /\ pc'[p] = "apply")
           /\ from'[p] = from[p] /\ known'[p] = known[p] /\ (pc[p] = "apply" => todo'[p] = todo[p])
  PROVE  RInv'
<1>1. OneRow'
  BY DEF RInv, OneRow
<1>2. RowsKnown'
  <2> SUFFICES ASSUME Cardinality(Procs) = 1, ~fellBack', NEW p \in Procs, pc'[p] \in {"model", "apply"}
               PROVE  /\ from'[p] = Primary
                      /\ pc'[p] = "model" => \A m \in Messages \ known'[p] : rows[Primary][m] = 0
                      /\ pc'[p] = "apply" => \A m \in todo'[p] \ known'[p] : rows[Primary][m] = 0
    BY DEF RowsKnown
  <2>1. todo'[p] \subseteq Messages
    BY DEF RowTypes
  <2> QED
    BY <2>1 DEF RInv, RowsKnown
<1> QED
  BY <1>1, <1>2 DEF RInv

LEMMA RInvStep == RInv /\ IInv /\ [Next]_vars => RInv'
<1> SUFFICES ASSUME RInv, IInv, [Next]_vars PROVE RInv'
  OBVIOUS
<1>s. Sound'
  BY IInvStep DEF IInv
<1>m. stored \subseteq Messages
  BY StoredFinite DEF RInv
<1>t. /\ todo \in [Procs -> SUBSET Messages] /\ known \in [Procs -> SUBSET Messages]
      /\ from \in [Procs -> Stores] /\ rows \in RowsOf
      /\ batch \in [Procs -> SUBSET stored]
      /\ pc \in [Procs -> {"down", "idle", "read"} \cup InPass]
  BY DEF RInv, RowTypes, Sound
<1>1. ASSUME Receive \/ Quieten \/ \E m \in Messages : StoreMessage(m) PROVE RInv'
  <2>1. UNCHANGED <<rows, pc, pass, fellBack>>
    BY <1>1 DEF Receive, Quieten, StoreMessage, history
  <2> QED
    BY <1>s, <1>t, <2>1, RowsUntouched DEF RInv, RowTypes, pass
<1>2. ASSUME NEW p \in Procs, StartProc(p) \/ Foreground(p) \/ Tick(p) PROVE RInv'
  <2>1. /\ UNCHANGED <<rows, todo, known, from, fellBack>>
        /\ pc' = pc \/ \E w \in {"idle", "read"} : pc' = [pc EXCEPT ![p] = w]
    BY <1>2 DEF StartProc, Foreground, Tick, Goto, pass, history
  <2> QED
    BY <1>s, <1>t, <2>1, RowsUntouched DEF RInv, RowTypes
<1>3. ASSUME NEW p \in Procs, Read(p) PROVE RInv'
  <2>1. /\ UNCHANGED <<rows, todo, known, from, fellBack>>
        /\ \E w \in {"idle", "list"} : pc' = [pc EXCEPT ![p] = w]
    BY <1>3 DEF Read, Goto
  <2> QED
    BY <1>s, <1>t, <2>1, RowsUntouched DEF RInv, RowTypes
<1>4. ASSUME NEW p \in Procs, Crash(p) \/ ExtractFails(p) \/ SetCursor(p) PROVE RInv'
  <2>1. /\ UNCHANGED <<rows, fellBack>>
        /\ todo' = [todo EXCEPT ![p] = {}] /\ known' = [known EXCEPT ![p] = {}]
        /\ from' = [from EXCEPT ![p] = "db"]
        /\ \E w \in {"idle", "down"} : pc' = [pc EXCEPT ![p] = w]
    BY <1>4 DEF Crash, ExtractFails, SetCursor, Goto, Forget, history
  <2>2. RowTypes'
    BY <1>t, <2>1, TwoStores DEF RowTypes
  <2> QED
    BY <1>s, <1>t, <2>1, <2>2, RowsUntouched
<1>5. ASSUME NEW p \in Procs, Extract(p) PROVE RInv'
  <2>1. CASE pc' = [pc EXCEPT ![p] = "idle"] /\ Forget(p)
    <3>1. UNCHANGED <<rows, fellBack>>
      BY <1>5 DEF Extract, history
    <3>2. RowTypes'
      BY <1>t, <2>1, <3>1, TwoStores DEF RowTypes, Forget
    <3> QED
      BY <1>s, <1>t, <2>1, <3>1, <3>2, RowsUntouched DEF Forget
  <2>2. ASSUME NEW F \in SUBSET batch[p], todo' = [todo EXCEPT ![p] = F], UNCHANGED <<known, from>>,
               \E w \in {"cursor", "apply"} : pc' = [pc EXCEPT ![p] = w]
        PROVE  RInv'
    <3>1. UNCHANGED <<rows, fellBack>> /\ pc[p] = "model"
      BY <1>5 DEF Extract, history
    <3>2. RowTypes'
      BY <1>m, <1>t, <2>2, <3>1 DEF RowTypes
    <3> QED
      BY <1>s, <1>t, <2>2, <3>1, <3>2, RowsUntouched
  <2> QED
    BY <1>5, <2>1, <2>2 DEF Extract, Goto
<1>6. ASSUME NEW p \in Procs, List(p) PROVE RInv'
  <2>1. PICK s \in Stores :
          /\ known' = [known EXCEPT ![p] = {m \in Messages : rows[s][m] > 0}]
          /\ from' = [from EXCEPT ![p] = s]
          /\ s = Primary \/ fellBack' = TRUE
    BY <1>6, TwoStores DEF List, ListFrom, Primary
  <2>2. /\ UNCHANGED <<rows, todo>> /\ pc' = [pc EXCEPT ![p] = "model"]
        /\ fellBack' = TRUE \/ fellBack' = fellBack
    BY <1>6 DEF List, Goto
  <2>3. RowTypes'
    BY <1>t, <2>1, <2>2 DEF RowTypes
  <2>4. OneRow'
    BY <2>2 DEF RInv, OneRow
  <2>5. RowsKnown'
    <3> SUFFICES ASSUME Cardinality(Procs) = 1, ~fellBack', NEW q \in Procs
                 PROVE  /\ pc'[q] \in {"model", "apply"} => from'[q] = Primary
                        /\ pc'[q] = "model" => \A m \in Messages \ known'[q] : rows[Primary][m] = 0
                        /\ pc'[q] = "apply" => \A m \in todo[q] \ known'[q] : rows[Primary][m] = 0
      BY <2>2 DEF RowsKnown
    <3>1. ~fellBack /\ s = Primary
      BY <2>1, <2>2
    <3>2. CASE q # p
      BY <1>t, <2>1, <2>2, <3>1, <3>2 DEF RInv, RowsKnown
    <3>3. CASE q = p
      <4>1. \A m \in Messages : rows[Primary][m] \in Nat
        BY <1>t, TwoStores DEF RowsOf
      <4> QED
        BY <1>t, <2>1, <2>2, <3>1, <3>3, <4>1
    <3> QED
      BY <3>2, <3>3
  <2> QED
    BY <1>s, <2>3, <2>4, <2>5 DEF RInv
<1>7. ASSUME NEW p \in Procs, Apply(p) PROVE RInv'
  <2>1. rows' \in RowsOf
    BY <1>7, ApplyRows
  <2>2. PICK m \in todo[p] :
          /\ Written(p, m)
          /\ from[p] = Primary =>
               /\ \A n \in Messages \ {m} : rows'[Primary][n] = rows[Primary][n]
               /\ \/ rows'[Primary][m] = rows[Primary][m]
                  \/ m \notin known[p] /\ rows'[Primary][m] = rows[Primary][m] + 1
    BY <1>7, ApplyRows
  <2>3. /\ pc[p] = "apply" /\ UNCHANGED <<known, from, fellBack>>
        /\ todo' = [todo EXCEPT ![p] = @ \ {m}]
        /\ \E w \in {"cursor", "apply"} : pc' = [pc EXCEPT ![p] = w]
    BY <1>7, <2>2 DEF Apply, Written, Goto
  <2>4. RowTypes'
    BY <1>t, <2>1, <2>3 DEF RowTypes
  <2>5. ASSUME Cardinality(Procs) = 1, ~fellBack
        PROVE  /\ \A n \in Messages : rows'[Primary][n] <= 1
               /\ \A n \in todo[p] \ {m} : rows'[Primary][n] = rows[Primary][n]
    <3>1. from[p] = Primary /\ (m \notin known[p] => rows[Primary][m] = 0)
      BY <2>3, <2>5 DEF RInv, RowsKnown
    <3>2. \A n \in Messages : rows[Primary][n] <= 1
      BY <2>5 DEF RInv, OneRow
    <3>3. todo[p] \subseteq Messages
      BY <1>t
    <3> QED
      BY <2>2, <3>1, <3>2, <3>3
  <2>6. OneRow'
    BY <2>3, <2>5 DEF OneRow
  <2>7. RowsKnown'
    <3> SUFFICES ASSUME Cardinality(Procs) = 1, ~fellBack, NEW q \in Procs
                 PROVE  /\ pc'[q] \in {"model", "apply"} => from[q] = Primary
                        /\ pc'[q] = "model" => \A n \in Messages \ known[q] : rows'[Primary][n] = 0
                        /\ pc'[q] = "apply" => \A n \in todo'[q] \ known[q] : rows'[Primary][n] = 0
      BY <2>3 DEF RowsKnown
    <3>1. q = p
      <4>1. PICK x : Procs = {x}
        BY ReflectorAssumption, FS_Singleton
      <4> QED
        BY <4>1
    <3> QED
      BY <1>t, <2>3, <2>5, <3>1 DEF RInv, RowsKnown
  <2> QED
    BY <1>s, <2>4, <2>6, <2>7 DEF RInv
<1>8. CASE UNCHANGED vars
  BY <1>s, <1>t, <1>8, RowsUntouched DEF vars, history, pass, RInv, RowTypes
<1> QED
  BY <1>1, <1>2, <1>3, <1>4, <1>5, <1>6, <1>7, <1>8 DEF Next, Reflect

\* Passes that are repeated, with or without an answer of the server, repeat no row:
\* what the list of a pass does not name has no row, until the pass writes it.
THEOREM OneRowCorrect == Spec => []OneRow
<1>1. Init => IInv /\ RInv
  BY InitIInv, InitRInv
<1>2. IInv /\ RInv /\ [Next]_vars => IInv' /\ RInv'
  BY IInvStep, RInvStep
<1>3. RInv => OneRow
  BY DEF RInv
<1> QED
  BY <1>1, <1>2, <1>3, PTL DEF Spec

-----------------------------------------------------------------------------
(* The facts *)

\* A store has the fact, or it is known to be lost.
Kept(m) == rows["mcp"][m] + rows["db"][m] > 0 \/ m \in lost

\* What a pass has dealt with is kept, and so is what its list names.
FInv ==
  /\ facts \in [Procs -> SUBSET Messages]
  /\ \A p \in Procs : \A m \in (facts[p] \ todo[p]) \cup known[p] : Kept(m)
  /\ \A p \in Procs : pc[p] = "cursor" => todo[p] = {}

LEMMA InitFInv == Init => FInv
BY DEF Init, FInv

\* A row that goes is counted among the lost.
LEMMA KeptStays ==
  ASSUME RowTypes, RowTypes', lost \cup Overwritten \subseteq lost', NEW m \in Messages, Kept(m)
  PROVE  Kept(m)'
<1>1. \A s \in Stores : rows[s][m] \in Nat /\ rows'[s][m] \in Nat
  BY DEF RowTypes, RowsOf
<1>2. CASE m \in Overwritten
  BY <1>2 DEF Kept
<1>3. CASE m \notin Overwritten
  <2>1. \A s \in Stores : ~(rows'[s][m] < rows[s][m])
    BY <1>3 DEF Overwritten
  <2>2. rows'["mcp"][m] >= rows["mcp"][m] /\ rows'["db"][m] >= rows["db"][m]
    BY <1>1, <2>1, TwoStores
  <2>3. /\ rows["mcp"][m] \in Nat /\ rows["db"][m] \in Nat
        /\ rows'["mcp"][m] \in Nat /\ rows'["db"][m] \in Nat
    BY <1>1, TwoStores
  <2> QED
    BY <2>2, <2>3 DEF Kept
<1> QED
  BY <1>2, <1>3

\* A write of a fact that the list does not name puts a row into its store.
LEMMA EffectInsert ==
  ASSUME NEW R \in RowsOf, NEW p, NEW m \in Messages \ known[p], NEW s \in Stores, NEW Q \in Effect(R, p, m, s)
  PROVE  Q[s][m] > 0
<1>1. Q = [R EXCEPT ![s][m] = @ + 1]
  BY DEF Effect
<1>2. R[s][m] \in Nat /\ Q[s][m] = R[s][m] + 1
  BY <1>1 DEF RowsOf
<1> QED
  BY <1>2

LEMMA ApplyKeeps ==
  ASSUME RInv, RowTypes', FInv, NEW p \in Procs, Apply(p)
  PROVE  /\ lost \cup Overwritten \subseteq lost'
         /\ \E m \in todo[p] : Written(p, m) /\ Kept(m)'
<1>0. rows \in RowsOf /\ rows' \in RowsOf /\ todo[p] \subseteq Messages /\ {"mcp", "db"} \subseteq Stores
  BY TwoStores DEF RInv, RowTypes
<1>1. PICK m \in todo[p] :
        /\ Written(p, m)
        /\ \/ rows' \in Effect(rows, p, m, "mcp") /\ lost' = lost \cup Overwritten
           \/ \E R \in {rows} \cup (IF External THEN Effect(rows, p, m, "mcp") ELSE {}) :
                \/ rows' \in Effect(R, p, m, "db") /\ lost' = lost \cup Overwritten
                \/ rows' = R /\ lost' = lost \cup Overwritten \cup {m}
  BY DEF Apply
<1>2. lost \cup Overwritten \subseteq lost'
  BY <1>1
<1>3. m \in lost' \/ \E s \in {"mcp", "db"} : \E R \in RowsOf : rows' \in Effect(R, p, m, s)
  BY <1>0, <1>1, EffectType
<1>4. CASE m \in lost'
  BY <1>1, <1>2, <1>4 DEF Kept
<1>5. CASE m \in known[p]
  <2>1. Kept(m)
    BY <1>5 DEF FInv
  <2>2. Kept(m)'
    BY <1>0, <1>2, <2>1, KeptStays DEF RInv
  <2> QED
    BY <1>1, <1>2, <2>2
<1>6. ASSUME m \notin known[p], NEW s \in {"mcp", "db"}, NEW R \in RowsOf, rows' \in Effect(R, p, m, s)
      PROVE  Kept(m)'
  <2>1. rows'[s][m] > 0
    BY <1>0, <1>6, EffectInsert
  <2>2. rows'["mcp"][m] \in Nat /\ rows'["db"][m] \in Nat
    BY <1>0 DEF RowsOf
  <2> QED
    BY <1>6, <2>1, <2>2 DEF Kept
<1> QED
  BY <1>1, <1>2, <1>3, <1>4, <1>5, <1>6

\* Steps that write no row: a pass goes on, or ends and is forgotten.
LEMMA FactsUntouched ==
  ASSUME FInv, UNCHANGED <<rows, lost>>, facts' \in [Procs -> SUBSET Messages],
         \A p \in Procs :
           /\ \/ facts'[p] = facts[p] /\ todo'[p] = todo[p] /\ known'[p] = known[p]
              \/ facts'[p] = {} /\ todo'[p] = {} /\ known'[p] = {}
           /\ pc'[p] = "cursor" => pc[p] = "cursor"
  PROVE  FInv'
BY DEF FInv, Kept

LEMMA FInvStep == RInv /\ RInv' /\ FInv /\ [Next]_vars => FInv'
<1> SUFFICES ASSUME RInv, RInv', FInv, [Next]_vars PROVE FInv'
  OBVIOUS
<1>t. /\ RowTypes /\ RowTypes' /\ rows \in RowsOf /\ pc \in [Procs -> {"down", "idle", "read"} \cup InPass]
      /\ facts \in [Procs -> SUBSET Messages] /\ known \in [Procs -> SUBSET Messages] /\ todo \in [Procs -> SUBSET Messages]
      /\ batch \in [Procs -> SUBSET Messages]
  <2>1. stored \subseteq Messages
    BY ReflectorAssumption DEF RInv, Sound, Messages
  <2>2. Sound /\ RowTypes /\ RowTypes'
    BY DEF RInv
  <2>3. facts \in [Procs -> SUBSET Messages]
    BY DEF FInv
  <2>4. rows \in RowsOf /\ known \in [Procs -> SUBSET Messages] /\ todo \in [Procs -> SUBSET Messages]
    BY <2>2 DEF RowTypes
  <2>5. pc \in [Procs -> {"down", "idle", "read"} \cup InPass] /\ batch \in [Procs -> SUBSET stored]
    BY <2>2 DEF Sound
  <2>6. batch \in [Procs -> SUBSET Messages]
    BY <2>1, <2>5
  <2> QED
    BY <2>2, <2>3, <2>4, <2>5, <2>6
<1>1. ASSUME Receive \/ Quieten \/ (\E m \in Messages : StoreMessage(m)) \/ UNCHANGED vars PROVE FInv'
  <2>1. UNCHANGED <<rows, lost, facts, todo, known, pc>>
    BY <1>1 DEF Receive, Quieten, StoreMessage, history, pass, vars
  <2> QED
    BY <1>t, <2>1, FactsUntouched
<1>2. ASSUME NEW p \in Procs, StartProc(p) \/ Foreground(p) \/ Tick(p) \/ Read(p) PROVE FInv'
  <2>1. UNCHANGED <<rows, lost, facts, todo, known>> /\ \A q \in Procs : pc'[q] = "cursor" => pc[q] = "cursor"
    BY <1>t, <1>2 DEF StartProc, Foreground, Tick, Read, Goto, history, pass
  <2> QED
    BY <1>t, <2>1, FactsUntouched
<1>f. ASSUME NEW p \in Procs, NEW c \in {"down", "idle"}, Forget(p), Goto(p, c), UNCHANGED <<rows, lost>> PROVE FInv'
  <2>1. facts' \in [Procs -> SUBSET Messages]
    BY <1>t, <1>f DEF Forget
  <2>2. \A q \in Procs :
          /\ \/ facts'[q] = facts[q] /\ todo'[q] = todo[q] /\ known'[q] = known[q]
             \/ facts'[q] = {} /\ todo'[q] = {} /\ known'[q] = {}
          /\ pc'[q] = "cursor" => pc[q] = "cursor"
    BY <1>t, <1>f DEF Forget, Goto
  <2> QED
    BY <1>f, <2>1, <2>2, FactsUntouched
<1>3. ASSUME NEW p \in Procs, Crash(p) \/ ExtractFails(p) \/ SetCursor(p) PROVE FInv'
  BY <1>3, <1>f DEF Crash, ExtractFails, SetCursor, history
<1>4. ASSUME NEW p \in Procs, List(p) PROVE FInv'
  <2>1. PICK s \in Stores : known' = [known EXCEPT ![p] = {m \in Messages : rows[s][m] > 0}]
    BY <1>4, TwoStores DEF List, ListFrom
  <2>2. UNCHANGED <<rows, lost, facts, todo>> /\ \A q \in Procs : pc'[q] = "cursor" => pc[q] = "cursor"
    BY <1>t, <1>4 DEF List, Goto
  <2>3. \A m \in Messages : rows[s][m] > 0 => Kept(m)
    <3> TAKE m \in Messages
    <3>1. rows["mcp"][m] \in Nat /\ rows["db"][m] \in Nat /\ s \in {"mcp", "db"}
      BY <1>t, TwoStores DEF RowsOf
    <3> QED
      BY <3>1 DEF Kept
  <2>4. \A q \in Procs : \A m \in (facts[q] \ todo[q]) \cup known'[q] : Kept(m)
    BY <1>t, <2>1, <2>3 DEF FInv
  <2> QED
    BY <2>2, <2>4 DEF FInv, Kept
<1>5. ASSUME NEW p \in Procs, Extract(p) PROVE FInv'
  <2>1. CASE Forget(p) /\ Goto(p, "idle")
    BY <1>5, <1>f, <2>1 DEF Extract, history
  <2>2. ASSUME NEW F \in SUBSET batch[p], facts' = [facts EXCEPT ![p] = F], todo' = [todo EXCEPT ![p] = F],
               Goto(p, IF F = {} THEN "cursor" ELSE "apply"), UNCHANGED known
        PROVE  FInv'
    <3>1. UNCHANGED <<rows, lost>>
      BY <1>5 DEF Extract, history
    <3>2. facts' \in [Procs -> SUBSET Messages]
      BY <1>t, <2>2
    <3>3. \A q \in Procs : \A m \in (facts'[q] \ todo'[q]) \cup known'[q] : Kept(m)
      BY <1>t, <2>2 DEF FInv
    <3>4. \A q \in Procs : pc'[q] = "cursor" => todo'[q] = {}
      BY <1>t, <2>2 DEF FInv, Goto
    <3> QED
      BY <3>1, <3>2, <3>3, <3>4 DEF FInv, Kept
  <2> QED
    BY <1>5, <2>1, <2>2 DEF Extract
<1>6. ASSUME NEW p \in Procs, Apply(p) PROVE FInv'
  <2>1. lost \cup Overwritten \subseteq lost'
    BY <1>t, <1>6, ApplyKeeps
  <2>2. PICK m \in todo[p] : Written(p, m) /\ Kept(m)'
    BY <1>t, <1>6, ApplyKeeps
  <2>3. UNCHANGED <<facts, known>>
    BY <1>6 DEF Apply
  <2>4. \A n \in Messages : Kept(n) => Kept(n)'
    BY <1>t, <2>1, KeptStays
  <2>5. \A q \in Procs : \A n \in (facts[q] \ todo'[q]) \cup known[q] : n = m \/ Kept(n)
    BY <1>t, <2>2 DEF FInv, Written
  <2>6. \A q \in Procs : \A n \in (facts[q] \ todo'[q]) \cup known[q] : n \in Messages
    BY <1>t
  <2>7. \A q \in Procs : \A n \in (facts[q] \ todo'[q]) \cup known[q] : Kept(n)'
    BY <2>2, <2>4, <2>5, <2>6
  <2>8. \A q \in Procs : pc'[q] = "cursor" => todo'[q] = {}
    BY <1>t, <2>2 DEF FInv, Written, Goto
  <2> QED
    BY <1>t, <2>3, <2>7, <2>8 DEF FInv
<1> QED
  BY <1>1, <1>2, <1>3, <1>4, <1>5, <1>6 DEF Next, Reflect

\* When a pass moves the cursor, each of its facts has a row in one of the stores, or both
\* stores refused it, or an update by an id of the other store has overwritten its row.
THEOREM FactsKeptCorrect == Spec => FactsKept
<1>1. Init => IInv /\ RInv /\ FInv
  BY InitIInv, InitRInv, InitFInv
<1>2. IInv /\ RInv /\ FInv /\ [Next]_vars => IInv' /\ RInv' /\ FInv'
  BY IInvStep, RInvStep, FInvStep
<1>3. FInv => [\A p \in Procs : SetCursor(p) =>
                 \A m \in facts[p] : rows["mcp"][m] + rows["db"][m] > 0 \/ m \in lost]_vars
  <2> SUFFICES ASSUME FInv, NEW p \in Procs, SetCursor(p), NEW m \in facts[p] PROVE Kept(m)
    BY DEF Kept
  <2> QED
    BY DEF FInv, SetCursor
<1> QED
  BY <1>1, <1>2, <1>3, PTL DEF Spec, FactsKept
=============================================================================
