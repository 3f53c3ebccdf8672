------------------------ MODULE AnnounceOutboxProofs ------------------------
(***************************************************************************)
(* Proofs about AnnounceOutbox, for any runs, relays and bounds: type      *)
(* correctness, that no announcement is given up early, and that none is   *)
(* sent again without a reason.                                            *)
(***************************************************************************)
EXTENDS AnnounceOutbox, FiniteSetTheorems, TLAPS

Entry == [run : Runs, attempts : 0 .. MaxAttempts]

\* A row that may still be listed has an attempt left, and so has every row that a
\* flush has read; a flush holds a row once, and only rows that exist.
Room ==
  /\ \A r \in Runs : row[r] \in {"none", "pending", "retry"} => attempts[r] < MaxAttempts
  /\ \A f \in Flushers : \A i \in DOMAIN batch[f] : batch[f][i].attempts < MaxAttempts
  /\ \A f \in Flushers : \A i, j \in DOMAIN batch[f] :
       batch[f][i].run = batch[f][j].run => i = j
  /\ \A f \in Flushers : \A i \in DOMAIN batch[f] : row[batch[f][i].run] # "none"

\* The counts that the table and the flushes have are never ahead of the deliveries
\* that failed, and a row about to be marked as sent was sent.
FlushCounts ==
  /\ \A f \in Flushers : \A i \in DOMAIN batch[f] :
       batch[f][i].attempts <= tries[batch[f][i].run]
  /\ \A f \in Flushers : fpc[f] = "err" =>
       batch[f][1].attempts + 1 <= tries[batch[f][1].run]
  /\ \A f \in Flushers : fpc[f] = "ok" => sent[batch[f][1].run] >= 1

Counts == FlushCounts /\ \A r \in Runs : attempts[r] <= tries[r]

\* The flushes that hold a row, and those among them that have not sent it.
Held(r)   == {f \in Flushers : Holding(f, r)}
Unsent(r) == {f \in Held(r) : ~(fpc[f] = "ok" /\ batch[f][1].run = r)}

\* What is still to be sent, by the flushes that hold a row or, when none does, by
\* one that will list it, has its excuse too.
Credit(r) ==
  /\ Held(r) = {} => sent[r] <= 1 + excuse[r]
  /\ Held(r) = {} /\ row[r] \notin {"sent", "failed"} => sent[r] <= excuse[r]
  /\ Held(r) # {} => sent[r] + Cardinality(Unsent(r)) <= 1 + excuse[r]

Credits == \A r \in Runs : Credit(r)

TInv == TypeOK /\ Room
IInv == TInv /\ Counts /\ GivenUpAfterTries /\ Credits

-----------------------------------------------------------------------------
(* What a flush lists *)

LEMMA BatchesListed ==
  ASSUME TypeOK, NEW b \in DueBatches
  PROVE  /\ b \in Seq(DueRows)
         /\ \A i, j \in DOMAIN b : b[i] = b[j] => i = j
<1>1. b \in Seq(DueRows)
  <2>1. PICK n \in 0 .. Batch : b \in [1 .. n -> DueRows]
    BY DEF DueBatches
  <2> QED
    BY <2>1, BoundsAssumption
<1>2. \A i, j \in DOMAIN b : i < j => Before(b[i], b[j])
  BY DEF DueBatches
<1>3. /\ queue \in Seq(Runs)
      /\ \A i, j \in DOMAIN queue : queue[i] = queue[j] => i = j
  BY DEF TypeOK, IsInjective
<1>4. \A r : ~Before(r, r)
  BY <1>3 DEF Before
<1>5. DOMAIN b \subseteq Int
  BY <1>1
<1> QED
  BY <1>1, <1>2, <1>4, <1>5

LEMMA FlushersFinite == IsFiniteSet(Flushers) /\ \A r : IsFiniteSet(Held(r)) /\ IsFiniteSet(Unsent(r))
<1>1. IsFiniteSet(Flushers)
  BY FlushersAssumption, FS_Union DEF Flushers
<1>2. \A r : Held(r) \in SUBSET Flushers /\ Unsent(r) \in SUBSET Flushers
  BY DEF Held, Unsent
<1> QED
  BY <1>1, <1>2, FS_Subset

LEMMA InitIInv == Init => IInv
<1> SUFFICES ASSUME Init PROVE IInv
  OBVIOUS
<1> USE FlushersAssumption, BoundsAssumption DEF Init
<1>1. TypeOK
  BY DEF TypeOK, ToSet, IsInjective
<1>2. Room /\ Counts /\ GivenUpAfterTries
  BY DEF Room, Counts, FlushCounts, GivenUpAfterTries
<1>3. \A r \in Runs : Held(r) = {}
  BY DEF Held, Holding, Flushers
<1> QED
  BY <1>1, <1>2, <1>3 DEF IInv, TInv, Credits, Credit

-----------------------------------------------------------------------------
(* The steps of a flush *)

\* What a flush holds is a sequence of entries; its first one is being handled.
LEMMA Handled ==
  ASSUME TypeOK, NEW f \in Flushers, fpc[f] # "idle"
  PROVE  /\ batch[f] \in Seq(Entry) /\ Len(batch[f]) > 0
         /\ Head(batch[f]) = batch[f][1] /\ batch[f][1] \in Entry
         /\ batch[f][1].run \in Runs /\ batch[f][1].attempts \in 0 .. MaxAttempts
         /\ Tail(batch[f]) \in Seq(Entry) /\ Len(Tail(batch[f])) = Len(batch[f]) - 1
         /\ \A i \in DOMAIN Tail(batch[f]) :
              i + 1 \in DOMAIN batch[f] /\ i + 1 # 1 /\ Tail(batch[f])[i] = batch[f][i + 1]
         /\ Tail(batch[f]) = << >> <=> Len(batch[f]) = 1
<1>1. batch[f] \in Seq(Entry) /\ batch[f] # << >>
  BY DEF TypeOK, Entry
<1>2. Len(batch[f]) > 0 /\ batch[f][1] \in Entry
  BY <1>1
<1>3. batch[f][1].run \in Runs /\ batch[f][1].attempts \in 0 .. MaxAttempts
  BY <1>2 DEF Entry
<1>4. ASSUME NEW s \in Seq(Entry), s # << >>
      PROVE  /\ Head(s) = s[1] /\ Tail(s) \in Seq(Entry) /\ Len(Tail(s)) = Len(s) - 1
             /\ \A i \in DOMAIN Tail(s) : i \in Nat /\ i >= 1 /\ i + 1 \in DOMAIN s /\ Tail(s)[i] = s[i + 1]
             /\ Tail(s) = << >> <=> Len(s) = 1
  <2>1. Head(s) = s[1] /\ Tail(s) \in Seq(Entry) /\ Len(Tail(s)) = Len(s) - 1 /\ Len(s) \in Nat
    BY <1>4
  <2>2. \A i \in 1 .. Len(s) - 1 : Tail(s)[i] = s[i + 1]
    BY <1>4
  <2>3. DOMAIN Tail(s) = 1 .. Len(s) - 1 /\ DOMAIN s = 1 .. Len(s)
    BY <2>1, <1>4
  <2>4. \A q \in Seq(Entry) : q = << >> <=> Len(q) = 0
    OBVIOUS
  <2>5. ASSUME NEW i \in DOMAIN Tail(s)
        PROVE  i \in Nat /\ i >= 1 /\ i + 1 \in DOMAIN s /\ Tail(s)[i] = s[i + 1]
    <3>1. i \in 1 .. Len(s) - 1
      BY <2>3
    <3>2. i \in Nat /\ i >= 1 /\ i + 1 \in DOMAIN s
      BY <3>1, <2>1, <2>3
    <3> QED
      BY <3>1, <3>2, <2>2
  <2>6. Tail(s) = << >> <=> Len(s) = 1
    <3>1. Tail(s) = << >> <=> Len(Tail(s)) = 0
      BY <2>1, <2>4, Zenon
    <3>2. \A n, k \in Int : n = k - 1 => (n = 0 <=> k = 1)
      OBVIOUS
    <3> QED
      BY <3>1, <3>2, <2>1
  <2> QED
    BY <2>1, <2>5, <2>6
<1>5. \A i \in Nat : i >= 1 => i + 1 # 1
  OBVIOUS
<1> QED
  BY <1>1, <1>2, <1>3, <1>4, <1>5

\* When a flush goes on to its next entry, nobody holds anything new.
LEMMA GoesOn ==
  ASSUME TInv, NEW f \in Flushers, fpc[f] # "idle", NextRow(f)
  PROVE  /\ batch' \in [Flushers -> Seq(Entry)] /\ fpc' \in [Flushers -> {"idle", "send", "ok", "err"}]
         /\ fpc'[f] \in {"idle", "send"}
         /\ \A g \in Flushers \ {f} : fpc'[g] = fpc[g] /\ batch'[g] = batch[g]
         /\ \A g \in Flushers : fpc'[g] = "idle" <=> batch'[g] = << >>
         /\ \A g \in Flushers : \A i \in DOMAIN batch'[g] :
              \E j \in DOMAIN batch[g] : batch'[g][i] = batch[g][j]
         /\ \A g \in Flushers : \A i, j \in DOMAIN batch'[g] :
              batch'[g][i].run = batch'[g][j].run => i = j
<1> DEFINE Rest == Tail(batch[f])
<1>1. /\ Rest \in Seq(Entry)
      /\ \A i \in DOMAIN Rest : i + 1 \in DOMAIN batch[f] /\ i + 1 # 1 /\ Rest[i] = batch[f][i + 1]
      /\ Rest = << >> <=> Len(batch[f]) = 1
  BY Handled DEF TInv
<1>2. /\ batch' = [batch EXCEPT ![f] = Rest]
      /\ fpc' = [fpc EXCEPT ![f] = IF Len(batch[f]) = 1 THEN "idle" ELSE "send"]
  BY DEF NextRow, Goto
<1>3. /\ batch \in [Flushers -> Seq(Entry)] /\ fpc \in [Flushers -> {"idle", "send", "ok", "err"}]
      /\ \A g \in Flushers : fpc[g] = "idle" <=> batch[g] = << >>
      /\ \A g \in Flushers : \A i, j \in DOMAIN batch[g] : batch[g][i].run = batch[g][j].run => i = j
  BY DEF TInv, TypeOK, Room, Entry
<1> QED
  <2> HIDE DEF Rest
  <2>1. DOMAIN Rest \subseteq Int
    BY <1>1
  <2>2. \A g \in Flushers : batch'[g] = IF g = f THEN Rest ELSE batch[g]
    BY <1>2, <1>3
  <2>3. \A i, j \in DOMAIN Rest : Rest[i].run = Rest[j].run => i = j
    <3> TAKE i, j \in DOMAIN Rest
    <3>1. i \in Int /\ j \in Int /\ (i + 1 = j + 1 => i = j)
      BY <2>1
    <3> QED
      BY <1>1, <1>3, <3>1
  <2> QED
    BY <1>1, <1>2, <1>3, <2>2, <2>3

\* Then the flush no longer holds the entry it handled, and nothing else changes hands.
LEMMA LetsGo ==
  ASSUME TInv, NEW f \in Flushers, fpc[f] # "idle", NextRow(f), NEW r
  PROVE  /\ Held(r)' = IF r = batch[f][1].run THEN Held(r) \ {f} ELSE Held(r)
         /\ Unsent(r)' = IF r = batch[f][1].run THEN Unsent(r) \ {f} ELSE Unsent(r)
         /\ f \in Held(batch[f][1].run)
<1> DEFINE Rest == Tail(batch[f])
<1>1. /\ \A i \in DOMAIN Rest : i + 1 \in DOMAIN batch[f] /\ i + 1 # 1 /\ Rest[i] = batch[f][i + 1]
      /\ Len(Rest) = Len(batch[f]) - 1 /\ Len(batch[f]) > 0 /\ batch[f] \in Seq(Entry) /\ Rest \in Seq(Entry)
  BY Handled DEF TInv
<1>2. /\ batch' = [batch EXCEPT ![f] = Rest]
      /\ fpc' = [fpc EXCEPT ![f] = IF Len(batch[f]) = 1 THEN "idle" ELSE "send"]
  BY DEF NextRow, Goto
<1>3. /\ batch \in [Flushers -> Seq(Entry)] /\ fpc \in [Flushers -> {"idle", "send", "ok", "err"}]
      /\ \A i, j \in DOMAIN batch[f] : batch[f][i].run = batch[f][j].run => i = j
  BY DEF TInv, TypeOK, Room, Entry
<1> HIDE DEF Rest
<1>4. 1 \in DOMAIN batch[f] /\ \A j \in DOMAIN batch[f] : j # 1 => j \in Int /\ j - 1 \in DOMAIN Rest /\ (j - 1) + 1 = j
  BY <1>1
<1>5. (\E i \in DOMAIN Rest : Rest[i].run = r)
        <=> \E j \in DOMAIN batch[f] : j # 1 /\ batch[f][j].run = r
  <2>1. ASSUME NEW i \in DOMAIN Rest, Rest[i].run = r
        PROVE  \E j \in DOMAIN batch[f] : j # 1 /\ batch[f][j].run = r
    <3>1. i + 1 \in DOMAIN batch[f] /\ i + 1 # 1 /\ batch[f][i + 1].run = r
      BY <1>1, <2>1
    <3> QED
      BY <3>1
  <2>2. ASSUME NEW j \in DOMAIN batch[f], j # 1, batch[f][j].run = r
        PROVE  \E i \in DOMAIN Rest : Rest[i].run = r
    <3>1. j - 1 \in DOMAIN Rest /\ Rest[j - 1] = batch[f][j]
      BY <1>1, <1>4, <2>2
    <3> QED
      BY <3>1, <2>2
  <2> QED
    BY <2>1, <2>2
<1>6. (\E i \in DOMAIN Rest : Rest[i].run = r) <=> Holding(f, r) /\ r # batch[f][1].run
  BY <1>3, <1>4, <1>5 DEF Holding
<1>7. Holding(f, r)' <=> Holding(f, r) /\ r # batch[f][1].run
  BY <1>2, <1>3, <1>6 DEF Holding
<1>8. \A g \in Flushers : g # f => (Holding(g, r)' <=> Holding(g, r))
  BY <1>2, <1>3 DEF Holding
<1>9. fpc'[f] # "ok" /\ \A g \in Flushers : g # f => fpc'[g] = fpc[g] /\ batch'[g] = batch[g]
  BY <1>2, <1>3
<1>10. Holding(f, batch[f][1].run)
  BY <1>4 DEF Holding
<1>11. Held(r)' = {g \in Flushers : Holding(g, r)'} /\ Held(r) = {g \in Flushers : Holding(g, r)}
  BY DEF Held
<1>12. Unsent(r)' = {g \in Held(r)' : ~(fpc'[g] = "ok" /\ batch'[g][1].run = r)}
  BY DEF Unsent
<1>13. Held(r)' = IF r = batch[f][1].run THEN Held(r) \ {f} ELSE Held(r)
  BY <1>7, <1>8, <1>11
<1>14. Unsent(r)' = IF r = batch[f][1].run THEN Unsent(r) \ {f} ELSE Unsent(r)
  <2>1. ASSUME NEW g \in Flushers, g # f PROVE g \in Unsent(r)' <=> g \in Unsent(r)
    BY <1>8, <1>9, <1>11, <1>12, <2>1 DEF Unsent
  <2>2. f \in Unsent(r)' <=> f \in Unsent(r) /\ r # batch[f][1].run
    BY <1>7, <1>9, <1>11, <1>12 DEF Unsent
  <2>3. Unsent(r)' \subseteq Flushers /\ Unsent(r) \subseteq Flushers
    BY <1>11, <1>12 DEF Unsent
  <2> QED
    BY <2>1, <2>2, <2>3
<1> QED
  BY <1>10, <1>13, <1>14 DEF Held

\* What the steps of a flush do with the entry they handle.
LEMMA Delivers ==
  ASSUME TInv, NEW f \in Flushers, Deliver(f), NEW r, r = batch[f][1].run
  PROVE  /\ r \in Runs /\ fpc[f] = "send" /\ UNCHANGED <<xpc, table, batch>>
         /\ sent' \in [Runs -> Nat] /\ tries' \in [Runs -> Nat] /\ excuse' \in [Runs -> Nat]
         /\ \/ /\ fpc' = [fpc EXCEPT ![f] = "ok"] /\ UNCHANGED <<tries, excuse>>
               /\ sent' = [sent EXCEPT ![r] = sent[r] + 1]
            \/ /\ fpc' = [fpc EXCEPT ![f] = "err"] /\ UNCHANGED <<sent, excuse>>
               /\ tries' = [tries EXCEPT ![r] = tries[r] + 1]
            \/ /\ fpc' = [fpc EXCEPT ![f] = "err"]
               /\ tries' = [tries EXCEPT ![r] = tries[r] + 1]
               /\ sent' = [sent EXCEPT ![r] = sent[r] + 1]
               /\ excuse' = [excuse EXCEPT ![r] = excuse[r] + 1]
<1>1. fpc[f] # "idle"
  BY DEF Deliver
<1>2. Head(batch[f]).run = r /\ r \in Runs
  BY <1>1, Handled DEF TInv
<1>3. /\ fpc[f] = "send" /\ UNCHANGED <<xpc, table, batch>>
      /\ \/ /\ fpc' = [fpc EXCEPT ![f] = "ok"] /\ UNCHANGED <<tries, excuse>>
            /\ sent' = [sent EXCEPT ![r] = sent[r] + 1]
         \/ /\ fpc' = [fpc EXCEPT ![f] = "err"] /\ UNCHANGED <<sent, excuse>>
            /\ tries' = [tries EXCEPT ![r] = tries[r] + 1]
         \/ /\ fpc' = [fpc EXCEPT ![f] = "err"]
            /\ tries' = [tries EXCEPT ![r] = tries[r] + 1]
            /\ sent' = [sent EXCEPT ![r] = sent[r] + 1]
            /\ excuse' = [excuse EXCEPT ![r] = excuse[r] + 1]
  BY <1>2 DEF Deliver, Goto
<1>4. sent \in [Runs -> Nat] /\ tries \in [Runs -> Nat] /\ excuse \in [Runs -> Nat]
  BY DEF TInv, TypeOK
<1>5. \A h \in [Runs -> Nat] : [h EXCEPT ![r] = h[r] + 1] \in [Runs -> Nat]
  BY <1>2
<1> QED
  BY <1>2, <1>3, <1>4, <1>5

LEMMA Marks ==
  ASSUME TInv, NEW f \in Flushers, NEW r, r = batch[f][1].run, NEW n, n = batch[f][1].attempts + 1
  PROVE  /\ MarkSent(f) =>
              /\ r \in Runs /\ fpc[f] = "ok" /\ NextRow(f)
              /\ UNCHANGED <<xpc, queue, attempts, due, sent, tries>>
              /\ \/ row' = [row EXCEPT ![r] = "sent"] /\ UNCHANGED excuse
                 \/ excuse' = [excuse EXCEPT ![r] = excuse[r] + 1] /\ UNCHANGED row
         /\ MarkRetry(f) =>
              /\ r \in Runs /\ fpc[f] = "err" /\ NextRow(f)
              /\ UNCHANGED <<xpc, queue, sent, tries, excuse>>
              /\ \/ UNCHANGED <<row, attempts, due>>
                 \/ /\ row' = [row EXCEPT ![r] = IF n >= MaxAttempts THEN "failed" ELSE "retry"]
                    /\ attempts' = [attempts EXCEPT ![r] = n]
                    /\ due' \subseteq due \cup {r}
<1>1. fpc[f] # "idle" => Head(batch[f]) = batch[f][1] /\ r \in Runs
  BY Handled DEF TInv
<1>2. MarkSent(f) => fpc[f] = "ok" /\ fpc[f] # "idle"
  BY DEF MarkSent
<1>3. MarkRetry(f) => fpc[f] = "err" /\ fpc[f] # "idle"
  BY DEF MarkRetry
<1> QED
  BY <1>1, <1>2, <1>3 DEF MarkSent, MarkRetry, past

-----------------------------------------------------------------------------
(* Types *)

LEMMA ExecutorTypes ==
  ASSUME TInv, NEW r \in Runs, Execute(r) \/ Elapse(r)
  PROVE  TInv'
<1>t. TypeOK /\ Room
  BY DEF TInv
<1>1. CASE Finish(r) \/ BuildPayload(r)
  <2>1. UNCHANGED <<table, flush, past>> /\ xpc' \in [Runs -> {"run", "payload", "enqueue", "flush", "done"}]
    BY <1>t, <1>1 DEF Finish, BuildPayload, Step, TypeOK
  <2> QED
    BY <1>t, <2>1 DEF TInv, TypeOK, Room, table, flush, past
<1>2. CASE Elapse(r)
  BY <1>t, <1>2 DEF Elapse, TInv, TypeOK, Room, flush, past
<1>3. CASE Enqueue(r)
  <2>1. /\ UNCHANGED <<attempts, flush, past>>
        /\ xpc' \in [Runs -> {"run", "payload", "enqueue", "flush", "done"}]
    BY <1>t, <1>3 DEF Enqueue, Step, TypeOK
  <2>2. CASE UNCHANGED <<queue, row, due>>
    BY <1>t, <2>1, <2>2 DEF TInv, TypeOK, Room, flush, past
  <2>3. CASE /\ row[r] = "none" /\ row' = [row EXCEPT ![r] = "pending"]
             /\ queue' = Append(queue, r) /\ due' = due \cup {r}
    <3>1. /\ queue \in Seq(Runs) /\ ToSet(queue) = {x \in Runs : row[x] # "none"}
          /\ \A i, j \in DOMAIN queue : queue[i] = queue[j] => i = j
          /\ row \in [Runs -> {"none", "pending", "retry", "sent", "failed"}]
      BY <1>t DEF TypeOK, IsInjective
    <3>2. /\ queue' \in Seq(Runs) /\ Len(queue') = Len(queue) + 1 /\ queue'[Len(queue) + 1] = r
          /\ \A i \in 1 .. Len(queue) : queue'[i] = queue[i]
          /\ DOMAIN queue' = 1 .. Len(queue) + 1 /\ DOMAIN queue = 1 .. Len(queue) /\ Len(queue) \in Nat
      BY <2>3, <3>1
    <3>3. \A i \in DOMAIN queue : queue[i] # r
      BY <2>3, <3>1 DEF ToSet
    <3>4. \A i \in DOMAIN queue' : i \in DOMAIN queue \/ i = Len(queue) + 1
      BY <3>2
    <3>5. IsInjective(queue')
      BY <3>1, <3>2, <3>3, <3>4 DEF IsInjective
    <3>6. ToSet(queue') = ToSet(queue) \cup {r}
      <4>1. Len(queue) + 1 \in DOMAIN queue' /\ DOMAIN queue \subseteq DOMAIN queue'
        BY <3>2
      <4> QED
        BY <3>2, <3>4, <4>1 DEF ToSet
    <3>7. ToSet(queue') = {x \in Runs : row'[x] # "none"}
      BY <2>3, <3>1, <3>6
    <3>8. Room' /\ row' \in [Runs -> {"none", "pending", "retry", "sent", "failed"}]
      BY <1>t, <2>1, <2>3, <3>1 DEF Room, flush
    <3> QED
      BY ZenonT(30), <1>t, <2>1, <2>3, <3>2, <3>5, <3>7, <3>8 DEF TInv, TypeOK, flush, past
  <2> QED
    BY <1>3, <2>2, <2>3 DEF Enqueue
<1> QED
  BY <1>1, <1>2, <1>3 DEF Execute

LEMMA ListTypes ==
  ASSUME TInv, NEW f \in Flushers, List(f)
  PROVE  TInv'
<1>t. TypeOK /\ Room
  BY DEF TInv
<1>1. PICK b \in DueBatches :
        /\ batch' = [batch EXCEPT ![f] = [i \in DOMAIN b |-> [run |-> b[i], attempts |-> attempts[b[i]]]]]
        /\ fpc' = [fpc EXCEPT ![f] = IF b = << >> THEN "idle" ELSE "send"]
        /\ excuse' = [r \in Runs |->
             IF r \in ToSet(b) /\ \E g \in Flushers \ {f} : Holding(g, r) THEN excuse[r] + 1 ELSE excuse[r]]
  BY DEF List
<1>2. /\ b \in Seq(DueRows) /\ \A i, j \in DOMAIN b : b[i] = b[j] => i = j
      /\ \A i \in DOMAIN b : b[i] \in Runs /\ row[b[i]] \in {"pending", "retry"}
  <2>1. b \in Seq(DueRows) /\ \A i, j \in DOMAIN b : b[i] = b[j] => i = j
    BY <1>t, BatchesListed
  <2> QED
    BY <2>1 DEF DueRows
<1> DEFINE New == [i \in DOMAIN b |-> [run |-> b[i], attempts |-> attempts[b[i]]]]
<1>3. New \in Seq(Entry) /\ DOMAIN New = DOMAIN b /\ (New = << >> <=> b = << >>)
  <2>1. \A i \in DOMAIN b : [run |-> b[i], attempts |-> attempts[b[i]]] \in Entry
    BY <1>t, <1>2 DEF TypeOK, Entry
  <2>2. DOMAIN b = 1 .. Len(b) /\ Len(b) \in Nat
    BY <1>2
  <2>3. New \in [1 .. Len(b) -> Entry]
    BY <2>1, <2>2
  <2>4. New \in Seq(Entry) /\ Len(New) = Len(b)
    BY <2>2, <2>3
  <2>5. \A S : \A q \in Seq(S) : q = << >> <=> Len(q) = 0
    OBVIOUS
  <2> HIDE DEF New
  <2>6. New = << >> <=> b = << >>
    BY <1>2, <2>4, <2>5
  <2> QED
    BY <2>2, <2>3, <2>4, <2>6
<1>4. \A i \in DOMAIN b : New[i].run = b[i] /\ New[i].attempts = attempts[b[i]] /\ New[i].attempts < MaxAttempts
  BY <1>t, <1>2 DEF Room
<1> HIDE DEF New
<1>5. batch' = [batch EXCEPT ![f] = New]
  BY <1>1 DEF New
<1>6. UNCHANGED <<table, sent, tries>> /\ xpc' \in [Runs -> {"run", "payload", "enqueue", "flush", "done"}]
  BY <1>t DEF List, Starts, Step, TypeOK
<1>7. excuse' \in [Runs -> Nat]
  BY <1>t, <1>1 DEF TypeOK
<1>8. /\ batch' \in [Flushers -> Seq(Entry)] /\ fpc' \in [Flushers -> {"idle", "send", "ok", "err"}]
      /\ \A g \in Flushers : fpc'[g] = "idle" <=> batch'[g] = << >>
  BY ZenonT(30), <1>t, <1>1, <1>3, <1>5 DEF TypeOK, Entry
<1>9. \A g \in Flushers : batch'[g] = IF g = f THEN New ELSE batch[g]
  BY <1>t, <1>5 DEF TypeOK
<1>10. Room'
  BY <1>t, <1>2, <1>3, <1>4, <1>6, <1>9 DEF Room, table
<1> QED
  BY <1>t, <1>6, <1>7, <1>8, <1>10 DEF TInv, TypeOK, Entry, table

LEMMA MarkTypes ==
  ASSUME TInv, NEW f \in Flushers, MarkSent(f) \/ MarkRetry(f)
  PROVE  TInv'
<1>t. TypeOK /\ Room
  BY DEF TInv
<1>1. fpc[f] # "idle" /\ NextRow(f)
  BY DEF MarkSent, MarkRetry
<1>2. /\ batch' \in [Flushers -> Seq(Entry)] /\ fpc' \in [Flushers -> {"idle", "send", "ok", "err"}]
      /\ \A g \in Flushers : fpc'[g] = "idle" <=> batch'[g] = << >>
      /\ \A g \in Flushers : \A i \in DOMAIN batch'[g] :
           \E j \in DOMAIN batch[g] : batch'[g][i] = batch[g][j]
      /\ \A g \in Flushers : \A i, j \in DOMAIN batch'[g] :
           batch'[g][i].run = batch'[g][j].run => i = j
  BY <1>1, GoesOn
<1>3. /\ Head(batch[f]) = batch[f][1] /\ batch[f][1].run \in Runs
      /\ batch[f][1].attempts \in Nat /\ batch[f][1].attempts < MaxAttempts
  <2>1. /\ Head(batch[f]) = batch[f][1] /\ batch[f][1].run \in Runs
        /\ batch[f][1].attempts \in 0 .. MaxAttempts
        /\ Len(batch[f]) > 0 /\ batch[f] \in Seq(Entry)
    BY <1>t, <1>1, Handled
  <2>2. 1 \in DOMAIN batch[f]
    BY <2>1
  <2> QED
    BY <1>t, <2>1, <2>2 DEF Room
<1>4. 1 \in DOMAIN batch[f] /\ row[batch[f][1].run] # "none"
  <2>1. Len(batch[f]) > 0 /\ batch[f] \in Seq(Entry)
    BY <1>t, <1>1, Handled
  <2>2. 1 \in DOMAIN batch[f]
    BY <2>1
  <2> QED
    BY <1>t, <2>2 DEF Room
<1>r. PICK r, n : r = batch[f][1].run /\ n = batch[f][1].attempts + 1
  OBVIOUS
<1>n. r \in Runs /\ row[r] # "none" /\ n \in 0 .. MaxAttempts /\ (~(n >= MaxAttempts) => n < MaxAttempts)
  BY <1>3, <1>4, <1>r, BoundsAssumption
<1>5. /\ UNCHANGED <<xpc, queue, sent, tries>>
      /\ row' \in [Runs -> {"none", "pending", "retry", "sent", "failed"}]
      /\ \A x \in Runs : row'[x] = "none" <=> row[x] = "none"
      /\ attempts' \in [Runs -> 0 .. MaxAttempts] /\ due' \subseteq Runs
      /\ excuse' \in [Runs -> Nat]
      /\ \A x \in Runs : row'[x] \in {"none", "pending", "retry"} => attempts'[x] < MaxAttempts
  <2>1. /\ row \in [Runs -> {"none", "pending", "retry", "sent", "failed"}]
        /\ attempts \in [Runs -> 0 .. MaxAttempts] /\ due \subseteq Runs /\ excuse \in [Runs -> Nat]
        /\ \A x \in Runs : row[x] \in {"none", "pending", "retry"} => attempts[x] < MaxAttempts
    BY <1>t DEF TypeOK, Room
  <2>2. CASE MarkSent(f)
    BY <1>r, <1>n, <2>1, <2>2, Marks
  <2>3. CASE MarkRetry(f)
    BY <1>r, <1>n, <2>1, <2>3, Marks
  <2> QED
    BY <2>2, <2>3
<1>6. Room'
  <2>1. ASSUME NEW g \in Flushers, NEW i \in DOMAIN batch'[g]
        PROVE  batch'[g][i].attempts < MaxAttempts /\ row'[batch'[g][i].run] # "none"
    <3>1. PICK j \in DOMAIN batch[g] : batch'[g][i] = batch[g][j]
      BY <1>2
    <3>2. batch[g] \in Seq(Entry)
      BY <1>t DEF TypeOK, Entry
    <3>3. batch[g][j] \in Entry
      BY <3>2
    <3>4. batch[g][j].run \in Runs
      BY <3>3 DEF Entry
    <3> QED
      BY <1>t, <1>5, <3>1, <3>4 DEF Room
  <2> QED
    BY <1>2, <1>5, <2>1 DEF Room
<1>7. ToSet(queue') = {x \in Runs : row'[x] # "none"}
  BY <1>t, <1>5 DEF TypeOK
<1> QED
  BY <1>t, <1>2, <1>5, <1>6, <1>7 DEF TInv, TypeOK, Entry

LEMMA OtherTypes ==
  ASSUME TInv, (\E f \in Flushers : ListFails(f) \/ Deliver(f)) \/ Crash \/ UNCHANGED vars
  PROVE  TInv'
<1>t. TypeOK /\ Room
  BY DEF TInv
<1>1. ASSUME NEW f \in Flushers, ListFails(f) PROVE TInv'
  <2>1. UNCHANGED <<table, flush, past>> /\ xpc' \in [Runs -> {"run", "payload", "enqueue", "flush", "done"}]
    BY <1>t, <1>1 DEF ListFails, Starts, Step, TypeOK
  <2> QED
    BY <1>t, <2>1 DEF TInv, TypeOK, Room, table, flush, past
<1>2. ASSUME NEW f \in Flushers, Deliver(f) PROVE TInv'
  <2>1. /\ fpc[f] = "send" /\ UNCHANGED <<xpc, table, batch>>
        /\ fpc' = [fpc EXCEPT ![f] = "ok"] \/ fpc' = [fpc EXCEPT ![f] = "err"]
        /\ sent' \in [Runs -> Nat] /\ tries' \in [Runs -> Nat] /\ excuse' \in [Runs -> Nat]
    BY <1>2, Delivers
  <2>2. /\ fpc' \in [Flushers -> {"idle", "send", "ok", "err"}]
        /\ \A g \in Flushers : fpc'[g] = "idle" <=> fpc[g] = "idle"
    BY <1>t, <2>1 DEF TypeOK
  <2>3. Room'
    BY <1>t, <2>1 DEF Room, table
  <2> QED
    BY <1>t, <2>1, <2>2, <2>3 DEF TInv, TypeOK, table
<1>3. CASE Crash
  <2>1. /\ batch' = [g \in Flushers |-> << >>] /\ fpc' = [g \in Flushers |-> "idle"]
        /\ UNCHANGED <<table, sent, tries>>
        /\ xpc' = [r \in Runs |-> IF xpc[r] = "run" THEN "run" ELSE "done"]
    BY <1>3 DEF Crash
  <2>2. excuse' \in [Runs -> Nat]
    <3> DEFINE Lost(r) == Cardinality({g \in Flushers : fpc[g] = "ok" /\ Head(batch[g]).run = r})
    <3>1. \A r : IsFiniteSet({g \in Flushers : fpc[g] = "ok" /\ Head(batch[g]).run = r})
      BY FlushersFinite, FS_Subset
    <3>2. \A r : Lost(r) \in Nat
      BY <3>1, FS_CardinalityType
    <3>3. excuse' = [r \in Runs |-> excuse[r] + Lost(r)]
      BY <1>3 DEF Crash
    <3> HIDE DEF Lost
    <3> QED
      BY <1>t, <3>2, <3>3 DEF TypeOK
  <2> QED
    BY <1>t, <2>1, <2>2 DEF TInv, TypeOK, Room, table
<1>4. CASE UNCHANGED vars
  BY <1>t, <1>4 DEF TInv, TypeOK, Room, vars, table, flush, past
<1> QED
  BY <1>1, <1>2, <1>3, <1>4

LEMMA TypeStep == TInv /\ [Next]_vars => TInv'
<1> SUFFICES ASSUME TInv, [Next]_vars PROVE TInv'
  OBVIOUS
<1>1. ASSUME NEW r \in Runs, Execute(r) \/ Elapse(r) PROVE TInv'
  BY <1>1, ExecutorTypes
<1>2. ASSUME NEW f \in Flushers, Flush(f) PROVE TInv'
  BY <1>2, ListTypes, MarkTypes, OtherTypes DEF Flush
<1>3. CASE Crash \/ UNCHANGED vars
  BY <1>3, OtherTypes
<1> QED
  BY <1>1, <1>2, <1>3 DEF Next

-----------------------------------------------------------------------------
(* Counts *)

\* What is said of the table, apart from the flushes.
TableCounts == (\A r \in Runs : attempts[r] <= tries[r]) /\ GivenUpAfterTries

LEMMA ListCounts ==
  ASSUME TInv, FlushCounts, TableCounts, NEW f \in Flushers, List(f)
  PROVE  FlushCounts' /\ TableCounts'
<1>t. TypeOK
  BY DEF TInv
<1>1. PICK b \in DueBatches :
        /\ batch' = [batch EXCEPT ![f] = [i \in DOMAIN b |-> [run |-> b[i], attempts |-> attempts[b[i]]]]]
        /\ fpc' = [fpc EXCEPT ![f] = IF b = << >> THEN "idle" ELSE "send"]
        /\ UNCHANGED <<table, sent, tries>>
  BY DEF List
<1>2. \A i \in DOMAIN b : b[i] \in Runs
  <2>1. b \in Seq(DueRows)
    BY <1>t, BatchesListed
  <2> QED
    BY <2>1 DEF DueRows
<1>3. \A g \in Flushers : batch'[g] =
        IF g = f THEN [i \in DOMAIN b |-> [run |-> b[i], attempts |-> attempts[b[i]]]] ELSE batch[g]
  BY <1>t, <1>1 DEF TypeOK
<1>4. fpc'[f] \notin {"ok", "err"} /\ \A g \in Flushers : g # f => fpc'[g] = fpc[g]
  BY <1>t, <1>1 DEF TypeOK
<1>5. ASSUME NEW g \in Flushers, NEW i \in DOMAIN batch'[g]
      PROVE  batch'[g][i].attempts <= tries[batch'[g][i].run]
  <2>1. CASE g = f
    <3>1. batch'[g] = [j \in DOMAIN b |-> [run |-> b[j], attempts |-> attempts[b[j]]]]
      BY <1>3, <2>1
    <3>2. i \in DOMAIN b
      BY <1>5, <3>1
    <3>3. batch'[g][i] = [run |-> b[i], attempts |-> attempts[b[i]]]
      BY <3>1, <3>2
    <3> QED
      BY <1>2, <3>2, <3>3 DEF TableCounts
  <2>2. CASE g # f
    BY <1>3, <1>5, <2>2 DEF FlushCounts
  <2> QED
    BY <2>1, <2>2
<1> QED
  BY <1>1, <1>3, <1>4, <1>5 DEF FlushCounts, TableCounts, GivenUpAfterTries, table

LEMMA DeliverCounts ==
  ASSUME TInv, FlushCounts, TableCounts, NEW f \in Flushers, Deliver(f)
  PROVE  FlushCounts' /\ TableCounts'
<1>1. PICK r : r = batch[f][1].run
  OBVIOUS
<1>2. /\ fpc[f] = "send" /\ UNCHANGED <<table, batch>> /\ r \in Runs
      /\ sent \in [Runs -> Nat] /\ tries \in [Runs -> Nat]
      /\ sent' \in [Runs -> Nat] /\ tries' \in [Runs -> Nat]
  BY <1>1, Delivers DEF TInv, TypeOK
<1>3. \A x \in Runs : sent[x] <= sent'[x] /\ tries[x] <= tries'[x]
  BY <1>1, <1>2, Delivers
<1>4. /\ \A g \in Flushers : g # f => fpc'[g] = fpc[g]
      /\ fpc'[f] = "ok" => sent'[r] = sent[r] + 1
      /\ fpc'[f] = "err" => tries'[r] = tries[r] + 1
  <2>1. fpc \in [Flushers -> {"idle", "send", "ok", "err"}]
    BY DEF TInv, TypeOK
  <2> QED
    BY <1>1, <1>2, <2>1, Delivers
<1>5. ASSUME NEW g \in Flushers, NEW i \in DOMAIN batch[g]
      PROVE  batch[g][i].run \in Runs /\ batch[g][i].attempts \in Nat
  <2>1. batch[g] \in Seq(Entry)
    BY DEF TInv, TypeOK, Entry
  <2>2. batch[g][i] \in Entry
    BY <2>1
  <2> QED
    BY <2>2, BoundsAssumption DEF Entry
<1>6. \A g \in Flushers : fpc[g] # "idle" => 1 \in DOMAIN batch[g]
  <2> TAKE g \in Flushers
  <2> HAVE fpc[g] # "idle"
  <2>1. Len(batch[g]) > 0 /\ batch[g] \in Seq(Entry)
    BY Handled DEF TInv
  <2> QED
    BY <2>1
<1>7. ASSUME NEW g \in Flushers, NEW i \in DOMAIN batch[g]
      PROVE  batch[g][i].attempts <= tries'[batch[g][i].run]
  <2>1. batch[g][i].attempts <= tries[batch[g][i].run]
    BY DEF FlushCounts
  <2> QED
    BY <1>2, <1>3, <1>5, <2>1
<1>8. ASSUME NEW g \in Flushers, fpc'[g] = "err"
      PROVE  batch[g][1].attempts + 1 <= tries'[batch[g][1].run]
  <2>1. CASE g = f
    <3>1. batch[f][1].attempts <= tries[r] /\ batch[f][1].attempts \in Nat
      BY <1>1, <1>2, <1>5, <1>6 DEF FlushCounts
    <3> QED
      BY <1>1, <1>2, <1>4, <1>8, <2>1, <3>1
  <2>2. CASE g # f
    <3>1. fpc[g] = "err" /\ 1 \in DOMAIN batch[g]
      BY <1>4, <1>6, <1>8, <2>2
    <3>2. batch[g][1].attempts + 1 <= tries[batch[g][1].run]
      BY <3>1 DEF FlushCounts
    <3> QED
      BY <1>2, <1>3, <1>5, <3>1, <3>2
  <2> QED
    BY <2>1, <2>2
<1>9. ASSUME NEW g \in Flushers, fpc'[g] = "ok"
      PROVE  sent'[batch[g][1].run] >= 1
  <2>1. CASE g = f
    BY <1>1, <1>2, <1>4, <1>9, <2>1
  <2>2. CASE g # f
    <3>1. fpc[g] = "ok" /\ 1 \in DOMAIN batch[g]
      BY <1>4, <1>6, <1>9, <2>2
    <3>2. sent[batch[g][1].run] >= 1
      BY <3>1 DEF FlushCounts
    <3> QED
      BY <1>2, <1>3, <1>5, <3>1, <3>2
  <2> QED
    BY <2>1, <2>2
<1>10. FlushCounts'
  BY <1>2, <1>7, <1>8, <1>9 DEF FlushCounts
<1>11. TableCounts'
  <2>1. attempts \in [Runs -> 0 .. MaxAttempts]
    BY DEF TInv, TypeOK
  <2> QED
    BY <1>2, <1>3, <2>1, BoundsAssumption DEF TableCounts, GivenUpAfterTries, table
<1> QED
  BY <1>10, <1>11

LEMMA MarkCounts ==
  ASSUME TInv, FlushCounts, TableCounts, NEW f \in Flushers, MarkSent(f) \/ MarkRetry(f)
  PROVE  FlushCounts' /\ TableCounts'
<1>1. fpc[f] # "idle" /\ NextRow(f)
  BY DEF MarkSent, MarkRetry
<1>2. PICK r, n : r = batch[f][1].run /\ n = batch[f][1].attempts + 1
  OBVIOUS
<1>3. UNCHANGED <<sent, tries>> /\ r \in Runs
  BY <1>2, Marks
<1>4. FlushCounts'
  <2>1. /\ fpc'[f] \in {"idle", "send"}
        /\ \A g \in Flushers \ {f} : fpc'[g] = fpc[g] /\ batch'[g] = batch[g]
        /\ \A g \in Flushers : \A i \in DOMAIN batch'[g] :
             \E j \in DOMAIN batch[g] : batch'[g][i] = batch[g][j]
    BY <1>1, GoesOn
  <2> QED
    BY <1>3, <2>1 DEF FlushCounts
<1>5. TableCounts'
  <2>1. /\ row \in [Runs -> {"none", "pending", "retry", "sent", "failed"}]
        /\ attempts \in [Runs -> 0 .. MaxAttempts] /\ tries \in [Runs -> Nat]
    BY DEF TInv, TypeOK
  <2>2. CASE MarkSent(f)
    <3>1. sent[r] >= 1
      BY <1>2, <2>2, Marks DEF FlushCounts
    <3>2. UNCHANGED attempts /\ (row' = [row EXCEPT ![r] = "sent"] \/ UNCHANGED row)
      BY <1>2, <2>2, Marks
    <3> QED
      BY <1>3, <2>1, <3>1, <3>2 DEF TableCounts, GivenUpAfterTries
  <2>3. CASE MarkRetry(f)
    <3>1. n <= tries[r]
      BY <1>2, <2>3, Marks DEF FlushCounts
    <3>2. n \in Nat
      BY <1>1, <1>2, Handled, BoundsAssumption DEF TInv
    <3>3. \/ UNCHANGED <<row, attempts>>
          \/ /\ row' = [row EXCEPT ![r] = IF n >= MaxAttempts THEN "failed" ELSE "retry"]
             /\ attempts' = [attempts EXCEPT ![r] = n]
      BY <1>2, <2>3, Marks
    <3> QED
      BY <1>3, <2>1, <3>1, <3>2, <3>3, BoundsAssumption DEF TableCounts, GivenUpAfterTries
  <2> QED
    BY <2>2, <2>3
<1> QED
  BY <1>4, <1>5

LEMMA CountsStep == TInv /\ Counts /\ GivenUpAfterTries /\ [Next]_vars => Counts' /\ GivenUpAfterTries'
<1> SUFFICES ASSUME TInv, FlushCounts, TableCounts, [Next]_vars PROVE FlushCounts' /\ TableCounts'
  BY DEF Counts, TableCounts
<1>1. ASSUME NEW r \in Runs, Execute(r) \/ Elapse(r) PROVE FlushCounts' /\ TableCounts'
  <2>1. UNCHANGED <<attempts, flush, past>> /\ (UNCHANGED row \/ row' = [row EXCEPT ![r] = "pending"])
    BY <1>1 DEF Execute, Finish, BuildPayload, Enqueue, Elapse, table
  <2>2. row \in [Runs -> {"none", "pending", "retry", "sent", "failed"}]
    BY DEF TInv, TypeOK
  <2> QED
    BY <2>1, <2>2 DEF FlushCounts, TableCounts, GivenUpAfterTries, flush, past
<1>2. ASSUME NEW f \in Flushers, Flush(f) PROVE FlushCounts' /\ TableCounts'
  <2>1. CASE ListFails(f)
    BY <2>1 DEF ListFails, FlushCounts, TableCounts, GivenUpAfterTries, table, flush, past
  <2> QED
    BY <1>2, <2>1, ListCounts, DeliverCounts, MarkCounts DEF Flush
<1>3. CASE Crash
  <2>1. batch' = [f \in Flushers |-> << >>] /\ fpc' = [f \in Flushers |-> "idle"] /\ UNCHANGED <<table, sent, tries>>
    BY <1>3 DEF Crash
  <2> QED
    BY <2>1 DEF FlushCounts, TableCounts, GivenUpAfterTries, table
<1>4. CASE UNCHANGED vars
  BY <1>4 DEF FlushCounts, TableCounts, GivenUpAfterTries, vars, table, flush, past
<1> QED
  BY <1>1, <1>2, <1>3, <1>4 DEF Next

-----------------------------------------------------------------------------
(* Credits *)

\* Nothing that Credit says of a row depends on more than who holds it, who has sent
\* it, how often it was sent and excused, and whether it may be listed again.
LEMMA SameCredit ==
  ASSUME NEW r, Credit(r), Held(r)' = Held(r), Unsent(r)' = Unsent(r),
         sent'[r] = sent[r], excuse'[r] = excuse[r],
         row'[r] \notin {"sent", "failed"} => row[r] \notin {"sent", "failed"}
  PROVE  Credit(r)'
BY DEF Credit

LEMMA QuietCredit ==
  ASSUME TInv, Credits, UNCHANGED <<flush, past>>,
         \A r \in Runs : row'[r] \notin {"sent", "failed"} => row[r] \notin {"sent", "failed"}
  PROVE  Credits'
<1>1. ASSUME NEW r \in Runs PROVE Credit(r)'
  <2>1. Held(r)' = Held(r) /\ Unsent(r)' = Unsent(r)
    BY DEF Held, Unsent, Holding, flush
  <2>2. Credit(r) /\ sent'[r] = sent[r] /\ excuse'[r] = excuse[r]
    BY DEF Credits, past
  <2> QED
    BY <2>1, <2>2, SameCredit
<1> QED
  BY <1>1 DEF Credits

LEMMA Sizes ==
  ASSUME NEW r
  PROVE  /\ Cardinality(Unsent(r)) \in Nat
         /\ \A f : f \in Unsent(r) =>
              Cardinality(Unsent(r) \ {f}) = Cardinality(Unsent(r)) - 1
         /\ \A f : f \notin Unsent(r) =>
              Cardinality(Unsent(r) \cup {f}) = Cardinality(Unsent(r)) + 1
         /\ Unsent(r) # {} => Cardinality(Unsent(r)) >= 1
<1>1. IsFiniteSet(Unsent(r))
  BY FlushersFinite
<1>2. Cardinality(Unsent(r)) \in Nat
  BY <1>1, FS_CardinalityType
<1>3. Unsent(r) # {} => Cardinality(Unsent(r)) # 0
  BY <1>1, FS_EmptySet
<1> QED
  BY <1>1, <1>2, <1>3, FS_AddElement, FS_RemoveElement

\* A listed row that nobody holds has a send left; one that is held has its excuse.
LEMMA ListCredit ==
  ASSUME TInv, Credits, NEW f \in Flushers, List(f), NEW r \in Runs
  PROVE  Credit(r)'
<1>t. TypeOK /\ Credit(r)
  BY DEF TInv, Credits
<1>1. PICK b \in DueBatches :
        /\ batch' = [batch EXCEPT ![f] = [i \in DOMAIN b |-> [run |-> b[i], attempts |-> attempts[b[i]]]]]
        /\ fpc' = [fpc EXCEPT ![f] = IF b = << >> THEN "idle" ELSE "send"]
        /\ excuse' = [x \in Runs |->
             IF x \in ToSet(b) /\ \E g \in Flushers \ {f} : Holding(g, x) THEN excuse[x] + 1 ELSE excuse[x]]
        /\ UNCHANGED <<row, sent>>
  BY DEF List, table
<1>2. fpc[f] = "idle" /\ batch[f] = << >>
  BY <1>t DEF List, TypeOK
<1>3. /\ \A g \in Flushers : g # f => batch'[g] = batch[g] /\ fpc'[g] = fpc[g]
      /\ batch'[f] = [i \in DOMAIN b |-> [run |-> b[i], attempts |-> attempts[b[i]]]]
      /\ fpc'[f] # "ok"
  BY <1>t, <1>1 DEF TypeOK
<1>4. /\ \A g \in Flushers : g # f => (Holding(g, r)' <=> Holding(g, r))
      /\ Holding(f, r)' <=> r \in ToSet(b)
      /\ ~Holding(f, r)
  <2>1. Holding(f, r)' <=> \E i \in DOMAIN b : b[i] = r
    <3>1. DOMAIN batch'[f] = DOMAIN b /\ \A i \in DOMAIN b : batch'[f][i].run = b[i]
      BY <1>3
    <3> QED
      BY <3>1 DEF Holding
  <2>2. ~Holding(f, r)
    BY <1>2 DEF Holding
  <2> QED
    BY <1>3, <2>1, <2>2 DEF Holding, ToSet
<1>5. /\ Held(r)' = IF r \in ToSet(b) THEN Held(r) \cup {f} ELSE Held(r)
      /\ f \notin Held(r)
  <2>1. Held(r)' = {g \in Flushers : Holding(g, r)'} /\ Held(r) = {g \in Flushers : Holding(g, r)}
    BY DEF Held
  <2> QED
    BY <1>4, <2>1
<1>6. Unsent(r)' = (IF r \in ToSet(b) THEN Unsent(r) \cup {f} ELSE Unsent(r)) /\ f \notin Unsent(r)
  <2>1. /\ Unsent(r)' = {g \in Held(r)' : ~(fpc'[g] = "ok" /\ batch'[g][1].run = r)}
        /\ Unsent(r) = {g \in Held(r) : ~(fpc[g] = "ok" /\ batch[g][1].run = r)}
    BY DEF Unsent
  <2>2. Held(r) \subseteq Flushers
    BY DEF Held
  <2>3. \A g \in Held(r) : g \in Unsent(r)' <=> g \in Unsent(r)
    BY <1>3, <1>5, <2>1, <2>2
  <2>4. r \in ToSet(b) => f \in Unsent(r)'
    BY <1>3, <1>5, <2>1
  <2> QED
    BY <1>5, <2>1, <2>3, <2>4
<1>7. CASE r \notin ToSet(b)
  <2>1. excuse'[r] = excuse[r] /\ sent'[r] = sent[r] /\ row'[r] = row[r]
    BY <1>1, <1>7
  <2> QED
    BY <1>t, <1>5, <1>6, <1>7, <2>1, SameCredit
<1>8. CASE r \in ToSet(b)
  <2>1. row[r] \in {"pending", "retry"}
    <3>1. b \in Seq(DueRows)
      BY <1>t, BatchesListed
    <3> QED
      BY <1>8, <3>1 DEF ToSet, DueRows
  <2>2. sent[r] \in Nat /\ excuse[r] \in Nat /\ sent'[r] = sent[r]
    BY <1>t, <1>1 DEF TypeOK
  <2>3. Cardinality(Unsent(r)') = Cardinality(Unsent(r)) + 1 /\ Cardinality(Unsent(r)) \in Nat
    BY <1>6, <1>8, Sizes
  <2>4. Held(r)' # {}
    BY <1>5, <1>8
  <2>5. CASE Held(r) = {}
    <3>1. Unsent(r) = {} /\ Cardinality(Unsent(r)) = 0
      BY <2>5, FS_EmptySet DEF Unsent
    <3>2. excuse'[r] = excuse[r]
      <4>1. ~\E g \in Flushers \ {f} : Holding(g, r)
        BY <2>5 DEF Held
      <4> QED
        BY <1>1, <4>1
    <3>3. sent[r] <= excuse[r]
      BY <1>t, <2>1, <2>5 DEF Credit
    <3> QED
      BY <2>2, <2>3, <2>4, <3>1, <3>2, <3>3 DEF Credit
  <2>6. CASE Held(r) # {}
    <3>1. excuse'[r] = excuse[r] + 1
      <4>1. \E g \in Flushers \ {f} : Holding(g, r)
        BY <1>5, <2>6 DEF Held
      <4> QED
        BY <1>1, <1>8, <4>1
    <3>2. sent[r] + Cardinality(Unsent(r)) <= 1 + excuse[r]
      BY <1>t, <2>6 DEF Credit
    <3> QED
      BY <2>2, <2>3, <2>4, <3>1, <3>2 DEF Credit
  <2> QED
    BY <2>5, <2>6
<1> QED
  BY <1>7, <1>8

\* A send uses up the flush that was to send, or has an excuse, or did not happen.
LEMMA DeliverCredit ==
  ASSUME TInv, Credits, NEW f \in Flushers, Deliver(f), NEW r \in Runs
  PROVE  Credit(r)'
<1>1. PICK h : h = batch[f][1].run
  OBVIOUS
<1>2. /\ fpc[f] = "send" /\ UNCHANGED <<table, batch>> /\ h \in Runs /\ f \in Held(h)
      /\ sent \in [Runs -> Nat] /\ excuse \in [Runs -> Nat]
      /\ fpc \in [Flushers -> {"idle", "send", "ok", "err"}]
      /\ Credit(r)
  <2>1. 1 \in DOMAIN batch[f]
    <3>1. Len(batch[f]) > 0 /\ batch[f] \in Seq(Entry)
      BY Handled DEF TInv, Deliver
    <3> QED
      BY <3>1
  <2>2. f \in Held(h)
    BY <1>1, <2>1 DEF Held, Holding
  <2> QED
    BY <1>1, <2>2, Delivers DEF TInv, TypeOK, Credits
<1>3. Held(r)' = Held(r) /\ row' = row
  BY <1>2 DEF Held, Holding, table
<1>4. \A g \in Flushers : g # f => fpc'[g] = fpc[g]
  BY <1>1, <1>2, Delivers
<1>5. /\ Unsent(r)' = {g \in Held(r) : ~(fpc'[g] = "ok" /\ batch[g][1].run = r)}
      /\ Unsent(r) = {g \in Held(r) : ~(fpc[g] = "ok" /\ batch[g][1].run = r)}
      /\ Held(r) \subseteq Flushers
  BY <1>2, <1>3 DEF Unsent, Held
<1>6. CASE r # h
  <2>1. Unsent(r)' = Unsent(r)
    BY <1>1, <1>4, <1>5, <1>6
  <2>2. sent'[r] = sent[r] /\ excuse'[r] = excuse[r]
    BY <1>1, <1>2, <1>6, Delivers
  <2> QED
    BY <1>2, <1>3, <2>1, <2>2, SameCredit
<1>7. CASE r = h
  <2>1. f \in Unsent(r) /\ Held(r) # {}
    BY <1>2, <1>5, <1>7
  <2>2. sent[r] \in Nat /\ excuse[r] \in Nat /\ sent[r] + Cardinality(Unsent(r)) <= 1 + excuse[r]
    BY <1>2, <2>1 DEF Credit
  <2>3. /\ Cardinality(Unsent(r)) \in Nat
        /\ Cardinality(Unsent(r) \ {f}) = Cardinality(Unsent(r)) - 1
    BY <2>1, Sizes
  <2>4. CASE fpc'[f] = "ok"
    <3>1. Unsent(r)' = Unsent(r) \ {f}
      BY <1>1, <1>4, <1>5, <1>7, <2>4
    <3>2. sent'[r] = sent[r] + 1 /\ excuse'[r] = excuse[r]
      BY <1>1, <1>2, <1>7, <2>4, Delivers
    <3> QED
      BY <1>3, <2>1, <2>2, <2>3, <3>1, <3>2 DEF Credit
  <2>5. CASE fpc'[f] # "ok"
    <3>1. Unsent(r)' = Unsent(r)
      BY <1>2, <1>4, <1>5, <2>5
    <3>2. \/ sent'[r] = sent[r] /\ excuse'[r] = excuse[r]
          \/ sent'[r] = sent[r] + 1 /\ excuse'[r] = excuse[r] + 1
      BY <1>1, <1>2, <1>7, <2>5, Delivers
    <3> QED
      BY <1>3, <2>1, <2>2, <2>3, <3>1, <3>2 DEF Credit
  <2> QED
    BY <2>4, <2>5
<1> QED
  BY <1>6, <1>7

\* A flush lets a row go after it has sent and marked it, or without having sent it.
LEMMA MarkCredit ==
  ASSUME TInv, Credits, NEW f \in Flushers, MarkSent(f) \/ MarkRetry(f), NEW r \in Runs
  PROVE  Credit(r)'
<1>1. PICK h, n : h = batch[f][1].run /\ n = batch[f][1].attempts + 1
  OBVIOUS
<1>2. /\ fpc[f] # "idle" /\ NextRow(f) /\ h \in Runs /\ sent' = sent /\ Credit(r)
      /\ sent \in [Runs -> Nat] /\ excuse \in [Runs -> Nat]
      /\ row \in [Runs -> {"none", "pending", "retry", "sent", "failed"}]
  <2>1. fpc[f] # "idle" /\ NextRow(f) /\ h \in Runs /\ sent' = sent
    BY <1>1, Marks
  <2> QED
    BY <2>1 DEF TInv, TypeOK, Credits
<1>3. /\ Held(r)' = IF r = h THEN Held(r) \ {f} ELSE Held(r)
      /\ Unsent(r)' = IF r = h THEN Unsent(r) \ {f} ELSE Unsent(r)
      /\ f \in Held(h)
  BY <1>1, <1>2, LetsGo
<1>4. CASE r # h
  <2>1. row'[r] = row[r] /\ excuse'[r] = excuse[r]
    BY <1>1, <1>2, <1>4, Marks
  <2> QED
    BY <1>2, <1>3, <1>4, <2>1, SameCredit
<1>5. CASE r = h
  <2>1. /\ sent[r] \in Nat /\ excuse[r] \in Nat /\ sent[r] + Cardinality(Unsent(r)) <= 1 + excuse[r]
        /\ Cardinality(Unsent(r)) \in Nat
        /\ f \in Unsent(r) => Cardinality(Unsent(r) \ {f}) = Cardinality(Unsent(r)) - 1
        /\ f \notin Unsent(r) => Unsent(r) \ {f} = Unsent(r)
    BY <1>2, <1>3, <1>5, Sizes DEF Credit
  <2>2. Held(r)' = {} => Unsent(r)' = {} /\ Cardinality(Unsent(r)') = 0
    BY FS_EmptySet DEF Unsent
  <2>3. CASE MarkSent(f)
    <3>1. f \notin Unsent(r)
      BY <1>1, <1>5, <2>3, Marks DEF Unsent
    <3>2. \/ row'[r] = "sent" /\ excuse'[r] = excuse[r]
          \/ excuse'[r] = excuse[r] + 1
      BY <1>1, <1>2, <1>5, <2>3, Marks
    <3>3. Unsent(r)' = Unsent(r) /\ excuse'[r] \in Nat /\ excuse'[r] >= excuse[r]
      BY <1>3, <1>5, <2>1, <3>1, <3>2
    <3>4. Held(r)' = {} => sent[r] <= 1 + excuse[r]
      BY <2>1, <2>2, <3>3
    <3> QED
      BY <1>2, <2>1, <3>2, <3>3, <3>4 DEF Credit
  <2>4. CASE MarkRetry(f)
    <3>1. f \in Unsent(r) /\ excuse'[r] = excuse[r]
      BY <1>1, <1>3, <1>5, <2>4, Marks DEF Unsent
    <3> QED
      BY <1>2, <1>3, <1>5, <2>1, <2>2, <3>1 DEF Credit
  <2> QED
    BY <2>3, <2>4
<1> QED
  BY <1>4, <1>5

\* A crash excuses what was sent and not marked; if all that held a row had sent it or
\* none held it, nothing else is left to account for.
LEMMA CrashCredit ==
  ASSUME TInv, Credits, Crash, NEW r \in Runs
  PROVE  Credit(r)'
<1> DEFINE Lost == {f \in Flushers : fpc[f] = "ok" /\ Head(batch[f]).run = r}
<1>1. /\ sent' = sent /\ row' = row /\ excuse'[r] = excuse[r] + Cardinality(Lost)
      /\ batch' = [f \in Flushers |-> << >>]
  BY DEF Crash, table
<1>2. IsFiniteSet(Lost) /\ Cardinality(Lost) \in Nat /\ (Lost # {} => Cardinality(Lost) # 0)
  BY FlushersFinite, FS_Subset, FS_CardinalityType, FS_EmptySet
<1>3. sent[r] \in Nat /\ excuse[r] \in Nat /\ Credit(r)
  BY DEF TInv, TypeOK, Credits
<1>4. Held(r)' = {}
  BY <1>1 DEF Held, Holding
<1>5. ASSUME Held(r) # {}, Lost = {} PROVE Unsent(r) # {}
  <2>1. PICK f \in Held(r) : TRUE
    BY <1>5
  <2>2. fpc[f] = "ok" => Head(batch[f]) = batch[f][1]
    BY <2>1, Handled DEF TInv, Held
  <2>3. f \in Unsent(r)
    BY <1>5, <2>1, <2>2 DEF Unsent, Held
  <2> QED
    BY <2>3
<1> HIDE DEF Lost
<1>6. CASE Held(r) = {}
  BY <1>1, <1>2, <1>3, <1>4, <1>6 DEF Credit
<1>7. CASE Held(r) # {}
  <2>1. /\ sent[r] + Cardinality(Unsent(r)) <= 1 + excuse[r]
        /\ Cardinality(Unsent(r)) \in Nat
        /\ Lost = {} => Cardinality(Unsent(r)) >= 1
    BY <1>3, <1>5, <1>7, Sizes DEF Credit
  <2> QED
    BY <1>1, <1>2, <1>3, <1>4, <2>1 DEF Credit
<1> QED
  BY <1>6, <1>7

LEMMA CreditStep == TInv /\ Credits /\ [Next]_vars => Credits'
<1> SUFFICES ASSUME TInv, Credits, [Next]_vars PROVE Credits'
  OBVIOUS
<1>1. ASSUME NEW r \in Runs, Execute(r) \/ Elapse(r) PROVE Credits'
  <2>1. UNCHANGED <<flush, past>>
    BY <1>1 DEF Execute, Finish, BuildPayload, Enqueue, Elapse
  <2>2. UNCHANGED row \/ (row[r] = "none" /\ row' = [row EXCEPT ![r] = "pending"])
    BY <1>1 DEF Execute, Finish, BuildPayload, Enqueue, Elapse, table
  <2>3. row \in [Runs -> {"none", "pending", "retry", "sent", "failed"}]
    BY DEF TInv, TypeOK
  <2> QED
    BY <2>1, <2>2, <2>3, QuietCredit
<1>2. ASSUME NEW f \in Flushers, Flush(f) PROVE Credits'
  <2>1. CASE ListFails(f)
    BY <2>1, QuietCredit DEF ListFails, table
  <2> QED
    BY <1>2, <2>1, ListCredit, DeliverCredit, MarkCredit DEF Flush, Credits
<1>3. CASE Crash
  BY <1>3, CrashCredit DEF Credits
<1>4. CASE UNCHANGED vars
  BY <1>4, QuietCredit DEF vars, table
<1> QED
  BY <1>1, <1>2, <1>3, <1>4 DEF Next

-----------------------------------------------------------------------------
(* The theorems *)

LEMMA Invariant == Spec => []IInv
<1>1. IInv /\ [Next]_vars => IInv'
  BY TypeStep, CountsStep, CreditStep DEF IInv
<1> QED
  BY InitIInv, <1>1, PTL DEF Spec

\* The table, the flushes and the executors keep to their types: no row has a second
\* place in the queue, and no count of attempts passes the maximum.
THEOREM TypeCorrect == Spec => []TypeOK
<1>1. IInv => TypeOK
  BY DEF IInv, TInv
<1> QED
  BY <1>1, Invariant, PTL

\* mark_subagent_announce_retry writes a count that may be stale, and still gives no
\* announcement up before its deliveries failed often enough; and what says it was
\* sent was sent.
THEOREM GivenUpAfterTriesCorrect == Spec => []GivenUpAfterTries
<1>1. IInv => GivenUpAfterTries
  BY DEF IInv
<1> QED
  BY <1>1, Invariant, PTL

\* flush_pending_announces_once claims nothing, yet however many flushes run at the
\* same time, an announcement is sent again only once per overlap, per failing call
\* after the send and per crash before the mark.
THEOREM SentOnceCorrect == Spec => []SentOnceUnlessExcused
<1>1. IInv => SentOnceUnlessExcused
  <2> SUFFICES ASSUME IInv, NEW r \in Runs PROVE sent[r] <= 1 + excuse[r]
    BY DEF SentOnceUnlessExcused
  <2>1. Credit(r) /\ sent[r] \in Nat /\ excuse[r] \in Nat
    BY DEF IInv, TInv, TypeOK, Credits
  <2>2. Cardinality(Unsent(r)) \in Nat
    BY Sizes
  <2> QED
    BY <2>1, <2>2 DEF Credit
<1> QED
  BY <1>1, Invariant, PTL

=============================================================================
