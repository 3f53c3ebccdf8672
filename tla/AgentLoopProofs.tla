-------------------------- MODULE AgentLoopProofs --------------------------
(***************************************************************************)
(* Proofs about AgentLoop: what is sent to the model is well formed, and   *)
(* holds what the turn is for, for every bound, every sequence of turns    *)
(* and every point at which a compaction cuts.                             *)
(*                                                                         *)
(* The conversation is made by folds over sequences. A fold is followed    *)
(* from prefix to prefix: FoldExists shows that the recursion behind       *)
(* FoldLeft has a solution, AddTextFold, MergeFold and RequestFold that it *)
(* gives the states of the pass one by one, and UpTo is the induction over *)
(* the length of the prefix, from the least counterexample.                *)
(*                                                                         *)
(* The invariant is Turns: the session and the conversation of the turn    *)
(* are each a Conversation, and the conversation ends as the step that is  *)
(* due needs it to.                                                        *)
(***************************************************************************)
EXTENDS AgentLoop, WellFoundedInduction, TLAPS

-----------------------------------------------------------------------------
(* Folds, prefix by prefix *)

\* A set of numbers that is not empty has a least one.
LEMMA LeastExists ==
  ASSUME NEW T, T \subseteq Nat, T # {}
  PROVE  \E x \in T : \A y \in T : x <= y
<1>1. \E x \in T : \A y \in T : ~(<<y, x>> \in OpToRel(<, Nat))
  BY NatLessThanWellFounded, WFMin
<1>2. PICK x \in T : \A y \in T : ~(<<y, x>> \in OpToRel(<, Nat))
  BY <1>1
<1>3. \A y \in T : ~(y < x)
  BY <1>2 DEF OpToRel
<1> QED
  BY <1>3

\* The largest of some of the first n positions, when n is among them.
LEMMA MaxOfPrefix == ASSUME NEW n \in Nat \ {0}, NEW S, S \subseteq 1..n, n \in S PROVE Max(S) = n
<1>1. n \in S /\ \A y \in S : n >= y
  OBVIOUS
<1>2. \A x \in S : (\A y \in S : x >= y) => x = n
  OBVIOUS
<1>3. Max(S) \in S /\ \A y \in S : Max(S) >= y
  BY <1>1 DEF Max
<1> QED
  BY <1>2, <1>3

\* it folds op over any set of the positions up to L, st over the prefixes.
IsFold(it, L, base, op) ==
  it = [s \in SUBSET (1 .. L) |-> IF s = {} THEN base ELSE op[<<Max(s), it[s \ {Max(s)}]>>]]

\* The recursion of a fold over the positions 1 .. L has a solution.
LEMMA FoldExists ==
  ASSUME NEW X, NEW base \in X, NEW L \in Nat, NEW op \in [(1 .. L) \X X -> X]
  PROVE  \E it \in [SUBSET (1 .. L) -> X] : IsFold(it, L, base, op)
<1> DEFINE Good(n, it) ==
             \A s \in SUBSET (1 .. n) : it[s] = IF s = {} THEN base ELSE op[<<Max(s), it[s \ {Max(s)}]>>]
           Bad == {n \in 0 .. L : ~ \E it \in [SUBSET (1 .. n) -> X] : Good(n, it)}
<1>1. SUFFICES Bad = {}
  <2>1. L \in 0 .. L
    OBVIOUS
  <2>2. PICK it \in [SUBSET (1 .. L) -> X] : Good(L, it)
    BY <1>1, <2>1
  <2>3. it = [s \in SUBSET (1 .. L) |-> it[s]]
    OBVIOUS
  <2> QED
    BY <2>2, <2>3 DEF IsFold
<1>2. SUFFICES ASSUME Bad # {} PROVE FALSE
  OBVIOUS
<1>3. PICK n \in Bad : \A m \in Bad : n <= m
  <2>1. Bad \subseteq Nat
    OBVIOUS
  <2> HIDE DEF Bad
  <2> QED
    BY <1>2, <2>1, LeastExists
<1>4. n \in 0 .. L
  OBVIOUS
<1>5. CASE n = 0
  <2> DEFINE it == [s \in SUBSET (1 .. 0) |-> base]
  <2>1. \A s \in SUBSET (1 .. 0) : s = {}
    OBVIOUS
  <2>2. it \in [SUBSET (1 .. 0) -> X] /\ Good(0, it)
    BY <2>1
  <2> QED
    BY <1>3, <1>5, <2>2
<1>6. CASE n # 0
  <2>1. n - 1 \in 0 .. L /\ n - 1 \notin Bad /\ n \in Nat \ {0}
    <3> HIDE DEF Bad
    <3> QED
      BY <1>3, <1>4, <1>6
  <2>2. PICK it \in [SUBSET (1 .. (n - 1)) -> X] : Good(n - 1, it)
    BY <2>1
  <2> DEFINE jt == [s \in SUBSET (1 .. n) |-> IF n \in s THEN op[<<n, it[s \ {n}]>>] ELSE it[s]]
  <2>3. \A s \in SUBSET (1 .. n) :
          s \ {n} \in SUBSET (1 .. (n - 1)) /\ (n \notin s => s \in SUBSET (1 .. (n - 1)))
    BY <2>1
  <2>4. jt \in [SUBSET (1 .. n) -> X]
    <3> SUFFICES ASSUME NEW s \in SUBSET (1 .. n)
                 PROVE  (IF n \in s THEN op[<<n, it[s \ {n}]>>] ELSE it[s]) \in X
      OBVIOUS
    <3>1. n \in 1 .. L
      BY <1>4, <1>6
    <3> QED
      BY <2>3, <2>2, <3>1
  <2>5. Good(n, jt)
    <3> SUFFICES ASSUME NEW s \in SUBSET (1 .. n)
                 PROVE  jt[s] = IF s = {} THEN base ELSE op[<<Max(s), jt[s \ {Max(s)}]>>]
      OBVIOUS
    <3>1. CASE n \in s
      <4>1. Max(s) = n
        BY <2>1, <3>1, MaxOfPrefix
      <4>2. s \ {n} \in SUBSET (1 .. n) /\ n \notin s \ {n} /\ s # {}
        BY <3>1
      <4>3. jt[s \ {n}] = it[s \ {n}] /\ jt[s] = op[<<n, it[s \ {n}]>>]
        BY <3>1, <4>2
      <4> HIDE DEF jt
      <4> QED
        BY <4>1, <4>2, <4>3
    <3>2. CASE n \notin s
      <4>1. s \in SUBSET (1 .. (n - 1))
        BY <2>3, <3>2
      <4>2. s \ {Max(s)} \in SUBSET (1 .. n) /\ n \notin s \ {Max(s)}
        BY <3>2
      <4>3. jt[s] = it[s] /\ jt[s \ {Max(s)}] = it[s \ {Max(s)}]
        BY <3>2, <4>2
      <4> HIDE DEF jt
      <4> QED
        BY <2>2, <4>1, <4>3
    <3> QED
      BY <3>1, <3>2
  <2> QED
    <3>1. n \notin Bad
      BY <1>4, <2>4, <2>5
    <3> QED
      BY <3>1
<1> QED
  BY <1>5, <1>6

\* A set that holds 0, and with each number below L the next, holds all up to L.
LEMMA UpTo ==
  ASSUME NEW L \in Nat, NEW G, 0 \in G, \A n \in 1 .. L : n - 1 \in G => n \in G
  PROVE  0 .. L \subseteq G
<1> DEFINE Bad == {n \in 0 .. L : n \notin G}
<1>1. SUFFICES ASSUME Bad # {} PROVE FALSE
  OBVIOUS
<1>2. Bad \subseteq Nat
  OBVIOUS
<1>3. PICK n \in Bad : \A m \in Bad : n <= m
  <2> HIDE DEF Bad
  <2> QED
    BY <1>1, <1>2, LeastExists
<1>4. n \in 1 .. L /\ n - 1 \in 0 .. L /\ n \notin G
  OBVIOUS
<1>5. n - 1 \notin Bad
  <2> HIDE DEF Bad
  <2> QED
    BY <1>2, <1>3
<1> QED
  BY <1>4, <1>5

\* The largest element of a set of positions that is not empty.
LEMMA MaxIn ==
  ASSUME NEW L \in Nat, NEW S, S \subseteq 1 .. L, S # {}
  PROVE  Max(S) \in S
<1> DEFINE T == {L - x : x \in S}
<1>1. PICK t \in T : \A u \in T : t <= u
  <2>1. T \subseteq Nat
    BY \A x \in S : L - x \in Nat
  <2>2. T # {}
    <3>1. PICK x \in S : TRUE
      OBVIOUS
    <3>2. L - x \in T
      OBVIOUS
    <3> QED
      BY <3>2
  <2> HIDE DEF T
  <2> QED
    BY <2>1, <2>2, LeastExists
<1>2. PICK x \in S : t = L - x
  OBVIOUS
<1>3. \A y \in S : x >= y
  <2> TAKE y \in S
  <2>1. L - y \in T
    OBVIOUS
  <2>2. t <= L - y
    BY <1>1, <2>1
  <2> QED
    BY <1>2, <2>2
<1> QED
  BY <1>3 DEF Max

\* A fold stays in its set along the prefixes.
LEMMA FoldType ==
  ASSUME NEW X, NEW base \in X, NEW L \in Nat, NEW op \in [(1 .. L) \X X -> X], NEW it,
         it[{}] = base,
         \A n \in 1 .. L : it[1 .. (n - 1)] \in X => it[1 .. n] = op[<<n, it[1 .. (n - 1)]>>]
  PROVE  \A n \in 0 .. L : it[1 .. n] \in X
<1> DEFINE G == {n \in 0 .. L : it[1 .. n] \in X}
<1>1. 0 \in G
  BY 1 .. 0 = {}
<1>2. ASSUME NEW n \in 1 .. L, n - 1 \in G PROVE n \in G
  <2>1. it[1 .. n] = op[<<n, it[1 .. (n - 1)]>>]
    BY <1>2
  <2>2. <<n, it[1 .. (n - 1)]>> \in (1 .. L) \X X
    BY <1>2
  <2>3. it[1 .. n] \in X
    BY <2>1, <2>2
  <2> QED
    BY <2>3
<1>3. 0 .. L \subseteq G
  <2> HIDE DEF G
  <2> QED
    BY <1>1, <1>2, UpTo
<1> QED
  BY <1>3

\* What is known of the positions of a sequence and of its prefixes.
LEMMA Prefix ==
  ASSUME NEW L \in Nat, NEW n \in 1 .. L
  PROVE  /\ (1 .. n) \ {n} = 1 .. (n - 1) /\ 1 .. n # {} /\ 1 .. n \in SUBSET (1 .. L)
         /\ Max(1 .. n) = n
<1>1. n \in Nat \ {0} /\ n \in 1 .. n
  OBVIOUS
<1>2. Max(1 .. n) = n
  BY <1>1, MaxOfPrefix
<1>3. (1 .. n) \ {n} = 1 .. (n - 1)
  OBVIOUS
<1>4. \A i \in 1 .. n : i \in 1 .. L
  OBVIOUS
<1> QED
  BY <1>1, <1>2, <1>3, <1>4

\* Texts, and texts added to a sequence, are messages.
LEMMA TextType ==
  ASSUME NEW role \in {"user", "assistant"}, NEW own \in BOOLEAN
  PROVE  Text(role, own) \in Message
BY DEF Text, Message

\* Parts of a sequence.
LEMMA Part ==
  ASSUME NEW S, NEW s \in Seq(S), NEW m \in Nat \ {0}, NEW n \in Nat, n <= Len(s), m <= n + 1
  PROVE  /\ SubSeq(s, m, n) \in Seq(S) /\ Len(SubSeq(s, m, n)) = n - m + 1
         /\ \A i \in 1 .. (n - m + 1) : SubSeq(s, m, n)[i] = s[m + i - 1]
OBVIOUS

\* All but the last element of a sequence.
LEMMA FrontOf ==
  ASSUME NEW S, NEW s \in Seq(S), s # << >>
  PROVE  /\ Front(s) \in Seq(S) /\ Len(Front(s)) = Len(s) - 1 /\ Len(s) \in Nat \ {0}
         /\ \A i \in 1 .. (Len(s) - 1) : Front(s)[i] = s[i]
<1> DEFINE n == Len(s) - 1
<1>1. Len(s) \in Nat \ {0} /\ n \in Nat /\ n <= Len(s) /\ 1 <= n + 1 /\ n - 1 + 1 = n
  OBVIOUS
<1>2. Front(s) = SubSeq(s, 1, n)
  BY DEF Front
<1>3. n = Len(s) - 1
  OBVIOUS
<1> HIDE DEF n
<1>4. SubSeq(s, 1, n) \in Seq(S) /\ Len(SubSeq(s, 1, n)) = n /\ \A i \in 1 .. n : SubSeq(s, 1, n)[i] = s[i]
  BY <1>1
<1> QED
  BY <1>1, <1>2, <1>3, <1>4

\* The last element of a sequence is replaced.
LEMMA LastReplaced ==
  ASSUME NEW S, NEW s \in Seq(S), s # << >>, NEW m \in S
  PROVE  /\ Append(Front(s), m) \in Seq(S) /\ Len(Append(Front(s), m)) = Len(s) /\ Len(s) \in Nat \ {0}
         /\ \A i \in 1 .. Len(s) : Append(Front(s), m)[i] = IF i = Len(s) THEN m ELSE s[i]
BY FrontOf

\* A sequence of messages with a text added is one.
LEMMA AddTextType ==
  ASSUME NEW s \in Seq(Message), NEW m \in Message
  PROVE  AddText(s, m) \in Seq(Message)
<1>1. CASE s # << >> /\ Last(s).role = m.role /\ IsText(Last(s))
  <2>1. Last(s) \in Message
    BY <1>1 DEF Last
  <2>2. Text(m.role, Last(s).own \/ m.own) \in Message
    BY <2>1, TextType DEF Message
  <2> QED
    BY <1>1, <2>2, LastReplaced DEF AddText
<1> QED
  BY <1>1 DEF AddText

\* The steps of a fold along a sequence.
LEMMA AddTextFold ==
  ASSUME NEW s0 \in Seq(Message), NEW new \in Seq(Message)
  PROVE  \E st \in [0 .. Len(new) -> Seq(Message)] :
           /\ st[0] = s0 /\ st[Len(new)] = FoldLeft(AddText, s0, new)
           /\ \A n \in 1 .. Len(new) : st[n] = AddText(st[n - 1], new[n])
<1> DEFINE L == Len(new)
           X == Seq(Message)
           op == [p \in (1 .. L) \X X |-> AddText(p[2], new[p[1]])]
           Eq(it) == it = [s \in SUBSET (1 .. L) |->
                       IF s = {} THEN s0 ELSE AddText(it[s \ {Max(s)}], new[Max(s)])]
           it == CHOOSE it : Eq(it)
<1>1. L \in Nat /\ DOMAIN new = 1 .. L /\ \A n \in 1 .. L : new[n] \in Message
  OBVIOUS
<1>2. FoldLeft(AddText, s0, new) = it[1 .. L]
  BY <1>1 DEF FoldLeft, MapThenFoldSet
<1>3. op \in [(1 .. L) \X X -> X] /\ s0 \in X
  BY <1>1, AddTextType
<1>4. \A n \in 1 .. L, x \in X : op[<<n, x>>] = AddText(x, new[n])
  OBVIOUS
<1> HIDE DEF op, X, L
<1>5. Eq(it)
  <2>1. PICK jt \in [SUBSET (1 .. L) -> X] : IsFold(jt, L, s0, op)
    BY <1>1, <1>3, FoldExists
  <2>2. ASSUME NEW s \in SUBSET (1 .. L), s # {}
        PROVE  op[<<Max(s), jt[s \ {Max(s)}]>>] = AddText(jt[s \ {Max(s)}], new[Max(s)])
    BY <1>1, <1>4, <2>2, MaxIn
  <2>3. Eq(jt)
    BY <2>1, <2>2 DEF IsFold
  <2> QED
    BY <2>3
<1> HIDE DEF it
<1>6. it[{}] = s0
  BY <1>5
<1>7. ASSUME NEW n \in 1 .. L, it[1 .. (n - 1)] \in X PROVE it[1 .. n] = op[<<n, it[1 .. (n - 1)]>>]
  <2>1. /\ (1 .. n) \ {n} = 1 .. (n - 1) /\ 1 .. n # {} /\ 1 .. n \in SUBSET (1 .. L)
        /\ Max(1 .. n) = n
    BY <1>1, Prefix
  <2>2. it[1 .. n] = AddText(it[1 .. (n - 1)], new[n])
    BY <1>5, <2>1
  <2> QED
    BY <1>4, <1>7, <2>2
<1>8. \A n \in 0 .. L : it[1 .. n] \in X
  <2>1. L \in Nat
    BY <1>1
  <2>2. \A n \in 1 .. L : it[1 .. (n - 1)] \in X => it[1 .. n] = op[<<n, it[1 .. (n - 1)]>>]
    BY <1>7
  <2> QED
    BY <1>3, <1>6, <2>1, <2>2, FoldType
<1> DEFINE st == [n \in 0 .. L |-> it[1 .. n]]
<1>9. \A n \in 1 .. L : n - 1 \in 0 .. L /\ n \in 0 .. L
  BY <1>1
<1>10. \A n \in 1 .. L : st[n] = AddText(st[n - 1], new[n])
  BY <1>4, <1>7, <1>8, <1>9
<1>11. st \in [0 .. L -> X] /\ st[0] = s0 /\ st[L] = it[1 .. L]
  BY <1>1, <1>6, <1>8, 1 .. 0 = {}
<1> QED
  BY <1>2, <1>10, <1>11 DEF L, X

\* So it is with a message merged.
LEMMA MergeType ==
  ASSUME NEW s \in Seq(Message), NEW m \in Message
  PROVE  Merge(s, m) \in Seq(Message)
<1>1. CASE s # << >> /\ Last(s).role = m.role
  <2>1. Last(s) \in Message
    BY <1>1 DEF Last
  <2>2. Text(m.role, Last(s).own \/ m.own) \in Message
    BY <2>1, TextType DEF Message
  <2> QED
    BY <1>1, <2>2, LastReplaced DEF Merge
<1> QED
  BY <1>1 DEF Merge

\* The steps of Alternating along its sequence.
LEMMA MergeFold ==
  ASSUME NEW s \in Seq(Message)
  PROVE  \E st \in [0 .. Len(s) -> Seq(Message)] :
           /\ st[0] = << >> /\ st[Len(s)] = Alternating(s)
           /\ \A n \in 1 .. Len(s) : st[n] = Merge(st[n - 1], s[n])
<1> DEFINE e == << >>
           L == Len(s)
           X == Seq(Message)
           op == [p \in (1 .. L) \X X |-> Merge(p[2], s[p[1]])]
           Eq(it) == it = [S \in SUBSET (1 .. L) |->
                       IF S = {} THEN e ELSE Merge(it[S \ {Max(S)}], s[Max(S)])]
           it == CHOOSE it : Eq(it)
<1>1. L \in Nat /\ DOMAIN s = 1 .. L /\ \A n \in 1 .. L : s[n] \in Message
  OBVIOUS
<1>2. Alternating(s) = it[1 .. L]
  BY <1>1 DEF Alternating, FoldLeft, MapThenFoldSet
<1>3. op \in [(1 .. L) \X X -> X] /\ e \in X
  BY <1>1, MergeType
<1>4. \A n \in 1 .. L, x \in X : op[<<n, x>>] = Merge(x, s[n])
  OBVIOUS
<1> HIDE DEF e, op, X, L
<1>5. Eq(it)
  <2>1. PICK jt \in [SUBSET (1 .. L) -> X] : IsFold(jt, L, e, op)
    BY <1>1, <1>3, FoldExists
  <2>2. ASSUME NEW S \in SUBSET (1 .. L), S # {}
        PROVE  op[<<Max(S), jt[S \ {Max(S)}]>>] = Merge(jt[S \ {Max(S)}], s[Max(S)])
    BY <1>1, <1>4, <2>2, MaxIn
  <2>3. Eq(jt)
    BY <2>1, <2>2 DEF IsFold
  <2> QED
    BY <2>3
<1> HIDE DEF it
<1>6. it[{}] = e
  BY <1>5
<1>7. ASSUME NEW n \in 1 .. L, it[1 .. (n - 1)] \in X PROVE it[1 .. n] = op[<<n, it[1 .. (n - 1)]>>]
  <2>1. /\ (1 .. n) \ {n} = 1 .. (n - 1) /\ 1 .. n # {} /\ 1 .. n \in SUBSET (1 .. L)
        /\ Max(1 .. n) = n
    BY <1>1, Prefix
  <2>2. it[1 .. n] = Merge(it[1 .. (n - 1)], s[n])
    BY <1>5, <2>1
  <2> QED
    BY <1>4, <1>7, <2>2
<1>8. \A n \in 0 .. L : it[1 .. n] \in X
  <2>1. L \in Nat
    BY <1>1
  <2>2. \A n \in 1 .. L : it[1 .. (n - 1)] \in X => it[1 .. n] = op[<<n, it[1 .. (n - 1)]>>]
    BY <1>7
  <2> QED
    BY <1>3, <1>6, <2>1, <2>2, FoldType
<1> DEFINE st == [n \in 0 .. L |-> it[1 .. n]]
<1>9. \A n \in 1 .. L : n - 1 \in 0 .. L /\ n \in 0 .. L
  BY <1>1
<1>10. \A n \in 1 .. L : st[n] = Merge(st[n - 1], s[n])
  BY <1>4, <1>7, <1>8, <1>9
<1>11. st \in [0 .. L -> X] /\ st[0] = e /\ st[L] = it[1 .. L]
  BY <1>1, <1>6, <1>8, 1 .. 0 = {}
<1> QED
  BY <1>2, <1>10, <1>11 DEF e, L, X

\* The states of the fold over the conversation that is sent.
Sanitized == [out : Seq(Message), pending : SUBSET Ids]
Unsent == [out |-> << >>, pending |-> {}]

\* A step of the pass over the conversation that is sent.
LEMMA SanitizeType ==
  ASSUME NEW st \in Sanitized, NEW m \in Message
  PROVE  SanitizeStep(st, m) \in Sanitized
<1>1. [m EXCEPT !.results = m.results \cap st.pending] \in Message
  BY DEF Message, Sanitized
<1>2. st.out \in Seq(Message) /\ st.pending \subseteq Ids /\ m.calls \subseteq Ids
  BY DEF Sanitized, Message
<1>3. /\ Append(st.out, m) \in Seq(Message)
      /\ Append(st.out, [m EXCEPT !.results = m.results \cap st.pending]) \in Seq(Message)
  BY <1>1, <1>2
<1> QED
  BY <1>2, <1>3 DEF SanitizeStep, Sanitized

\* The steps of Request along the conversation of the turn.
LEMMA RequestFold ==
  ASSUME msgs \in Seq(Message)
  PROVE  \E st \in [0 .. Len(msgs) -> Sanitized] :
           /\ st[0] = Unsent /\ st[Len(msgs)].out = Request
           /\ \A n \in 1 .. Len(msgs) : st[n] = SanitizeStep(st[n - 1], msgs[n])
<1> DEFINE L == Len(msgs)
           X == Sanitized
           op == [p \in (1 .. L) \X X |-> SanitizeStep(p[2], msgs[p[1]])]
           Eq(it) == it = [S \in SUBSET (1 .. L) |->
                       IF S = {} THEN Unsent ELSE SanitizeStep(it[S \ {Max(S)}], msgs[Max(S)])]
           it == CHOOSE it : Eq(it)
<1>1. L \in Nat /\ DOMAIN msgs = 1 .. L /\ \A n \in 1 .. L : msgs[n] \in Message
  OBVIOUS
<1>2. Request = it[1 .. L].out
  BY <1>1 DEF Request, Unsent, FoldLeft, MapThenFoldSet
<1>3. op \in [(1 .. L) \X X -> X] /\ Unsent \in X
  BY <1>1, SanitizeType DEF Unsent, Sanitized
<1>4. \A n \in 1 .. L, x \in X : op[<<n, x>>] = SanitizeStep(x, msgs[n])
  OBVIOUS
<1> HIDE DEF op, X, L
<1>5. Eq(it)
  <2>1. PICK jt \in [SUBSET (1 .. L) -> X] : IsFold(jt, L, Unsent, op)
    BY <1>1, <1>3, FoldExists
  <2>2. ASSUME NEW S \in SUBSET (1 .. L), S # {}
        PROVE  op[<<Max(S), jt[S \ {Max(S)}]>>] = SanitizeStep(jt[S \ {Max(S)}], msgs[Max(S)])
    BY <1>1, <1>4, <2>2, MaxIn
  <2>3. Eq(jt)
    BY <2>1, <2>2 DEF IsFold
  <2> QED
    BY <2>3
<1> HIDE DEF it
<1>6. it[{}] = Unsent
  BY <1>5
<1>7. ASSUME NEW n \in 1 .. L, it[1 .. (n - 1)] \in X PROVE it[1 .. n] = op[<<n, it[1 .. (n - 1)]>>]
  <2>1. /\ (1 .. n) \ {n} = 1 .. (n - 1) /\ 1 .. n # {} /\ 1 .. n \in SUBSET (1 .. L)
        /\ Max(1 .. n) = n
    BY <1>1, Prefix
  <2>2. it[1 .. n] = SanitizeStep(it[1 .. (n - 1)], msgs[n])
    BY <1>5, <2>1
  <2> QED
    BY <1>4, <1>7, <2>2
<1>8. \A n \in 0 .. L : it[1 .. n] \in X
  <2>1. L \in Nat
    BY <1>1
  <2>2. \A n \in 1 .. L : it[1 .. (n - 1)] \in X => it[1 .. n] = op[<<n, it[1 .. (n - 1)]>>]
    BY <1>7
  <2> QED
    BY <1>3, <1>6, <2>1, <2>2, FoldType
<1> DEFINE st == [n \in 0 .. L |-> it[1 .. n]]
<1>9. \A n \in 1 .. L : n - 1 \in 0 .. L /\ n \in 0 .. L
  BY <1>1
<1>10. \A n \in 1 .. L : st[n] = SanitizeStep(st[n - 1], msgs[n])
  BY <1>4, <1>7, <1>8, <1>9
<1>11. st \in [0 .. L -> X] /\ st[0] = Unsent /\ st[L] = it[1 .. L]
  BY <1>1, <1>6, <1>8, 1 .. 0 = {}
<1> QED
  BY <1>2, <1>10, <1>11 DEF L, X

-----------------------------------------------------------------------------
(* The invariant *)

\* Calls are the assistant's, and results the user's.
Roles(s) ==
  \A i \in 1 .. Len(s) :
    /\ s[i].calls # {} => s[i].role = "assistant"
    /\ s[i].results # {} => s[i].role = "user"

\* Results come right after a message of the assistant, unless that was cut off.
Follows(s) == \A i \in 2 .. Len(s) : s[i].results # {} => s[i - 1].role = "assistant"

\* A call that a provider has named has one result, and n calls were named so far.
Once(s, n) ==
  \A i \in 1 .. Len(s) : \A c \in s[i].results :
    c > 0 => c <= n /\ \A j \in 1 .. Len(s) : c \in s[j].results => i = j

\* Such a call is answered by the next message, or its result is among F.
Answered(s, F) ==
  \A i \in 1 .. Len(s) : \A c \in s[i].calls :
    c > 0 /\ c \notin F => i < Len(s) /\ c \in s[i + 1].results

\* The user begins, unless a compaction kept its tail alone.
Begins(s, cut) == s # << >> /\ ~cut => s[1].role = "user" /\ s[1].results = {}

Conversation(s, n, F, cut) ==
  Roles(s) /\ Follows(s) /\ Once(s, n) /\ Answered(s, F) /\ Begins(s, cut)

\* The history: texts of the user and the assistant in turn.
Plain(h) ==
  \A i \in 1 .. Len(h) : IsText(h[i]) /\ (i > 1 => h[i].role # h[i - 1].role)

\* What a turn begins with: its own message is the last.
EndsWithOwn(s) ==
  s # << >> /\ s[Len(s)].own /\ s[Len(s)].role = "user" /\ IsText(s[Len(s)])

\* What is sent to the model: the last message is the user's, and not one that is
\* dropped for want of a call.
EndsWithUser(s) ==
  /\ s # << >> /\ s[Len(s)].role = "user"
  /\ \/ s[Len(s)].results = {}
     \/ Len(s) > 1 /\ s[Len(s)].results \cap s[Len(s) - 1].calls # {}

OwnKept(s) == \E i \in 1 .. Len(s) : s[i].own /\ s[i].results = {}

Turns ==
  /\ Conversation(session, issued, flattened, truncated) /\ Plain(history)
  /\ pc # "idle" => Conversation(msgs, issued, flattened, truncated)
  /\ pc = "compact" => EndsWithOwn(msgs)
  /\ pc = "model" => (truncated \/ EndsWithUser(msgs)) /\ (crowded \/ OwnKept(msgs))

IInv == TypeOK /\ Turns

-----------------------------------------------------------------------------
(* The conversation of a turn *)

\* r is s with the text m: its last message is a text of m's role, a new one or in
\* place of such a text, and nothing else differs.
Adds(r, s, m) ==
  /\ r \in Seq(Message) /\ r # << >> /\ Len(r) \in Nat /\ Len(s) \in Nat
  /\ IsText(r[Len(r)]) /\ r[Len(r)].role = m.role /\ (m.own => r[Len(r)].own)
  /\ \/ Len(r) = Len(s) /\ s # << >> /\ IsText(s[Len(s)]) /\ s[Len(s)].role = m.role
     \/ Len(r) = Len(s) + 1 /\ (s # << >> /\ IsText(s[Len(s)]) => s[Len(s)].role # m.role)
  /\ \A i \in 1 .. (Len(r) - 1) : r[i] = s[i]

\* AddText adds a text in this sense.
LEMMA AddTextAdds ==
  ASSUME NEW s \in Seq(Message), NEW m \in Message, IsText(m)
  PROVE  Adds(AddText(s, m), s, m)
<1> DEFINE r == AddText(s, m)
<1>0. r \in Seq(Message) /\ Len(s) \in Nat /\ Len(r) \in Nat
  BY AddTextType
<1>1. CASE s # << >> /\ Last(s).role = m.role /\ IsText(Last(s))
  <2> DEFINE t == Text(m.role, Last(s).own \/ m.own)
  <2>1. r = Append(Front(s), t)
    BY <1>1 DEF AddText
  <2>2. Last(s) = s[Len(s)] /\ Last(s) \in Message
    BY <1>1 DEF Last
  <2>3. t \in Message /\ IsText(t) /\ t.role = m.role /\ (m.own => t.own)
    BY <2>2, TextType DEF Message, Text, IsText
  <2> HIDE DEF t
  <2>4. Len(r) = Len(s) /\ Len(s) # 0 /\ \A i \in 1 .. Len(s) : r[i] = IF i = Len(s) THEN t ELSE s[i]
    BY <1>1, <2>1, <2>3, LastReplaced
  <2>5. r[Len(r)] = t /\ \A i \in 1 .. (Len(r) - 1) : r[i] = s[i]
    BY <1>0, <2>4
  <2> QED
    BY <1>0, <1>1, <2>2, <2>3, <2>4, <2>5 DEF Adds
<1>2. CASE ~(s # << >> /\ Last(s).role = m.role /\ IsText(Last(s)))
  <2>1. r = Append(s, m)
    BY <1>2 DEF AddText
  <2>2. Len(r) = Len(s) + 1 /\ r[Len(r)] = m /\ \A i \in 1 .. (Len(r) - 1) : r[i] = s[i]
    BY <2>1
  <2> QED
    BY <1>0, <1>2, <2>1, <2>2 DEF Last, Adds
<1> QED
  BY <1>1, <1>2

\* A user's text leaves a conversation one.
LEMMA AddTextKeeps ==
  ASSUME NEW s \in Seq(Message), NEW m \in Message, IsText(m), m.role = "user",
         NEW n \in Nat, NEW F, NEW cut \in BOOLEAN, Conversation(s, n, F, cut)
  PROVE  Conversation(AddText(s, m), n, F, cut)
<1> DEFINE r == AddText(s, m)
<1>0. Adds(r, s, m)
  BY AddTextAdds
<1> HIDE DEF r
<1>1. /\ r \in Seq(Message) /\ r # << >> /\ Len(r) \in Nat /\ Len(s) \in Nat
      /\ IsText(r[Len(r)]) /\ r[Len(r)].role = "user"
      /\ \/ Len(r) = Len(s) /\ s # << >> /\ IsText(s[Len(s)]) /\ s[Len(s)].role = "user"
         \/ Len(r) = Len(s) + 1
      /\ \A i \in 1 .. (Len(r) - 1) : r[i] = s[i]
  BY <1>0 DEF Adds
<1>2. r[Len(r)].calls = {} /\ r[Len(r)].results = {} /\ Len(r) > 0
  BY <1>1 DEF IsText
<1>3. \A i \in 1 .. Len(r) : i = Len(r) \/ (i \in 1 .. (Len(r) - 1) /\ i \in 1 .. Len(s) /\ r[i] = s[i])
  BY <1>1
<1>4. Roles(r)
  BY <1>1, <1>2, <1>3 DEF Conversation, Roles
<1>5. Follows(r)
  BY <1>1, <1>2, <1>3 DEF Conversation, Follows
<1>6. Once(r, n)
  BY <1>1, <1>2, <1>3 DEF Conversation, Once
<1>7. Answered(r, F)
  <2> SUFFICES ASSUME NEW i \in 1 .. Len(r), NEW c \in r[i].calls, c > 0, c \notin F
               PROVE  i < Len(r) /\ c \in r[i + 1].results
    BY DEF Answered
  <2>1. i \in 1 .. (Len(r) - 1) /\ i \in 1 .. Len(s) /\ r[i] = s[i]
    BY <1>2, <1>3
  <2>2. i < Len(s) /\ c \in s[i + 1].results
    BY <2>1 DEF Conversation, Answered
  <2>3. i + 1 \in 1 .. Len(r) /\ (i + 1 = Len(r) => Len(r) = Len(s))
    BY <1>1, <2>1, <2>2
  <2>4. i + 1 # Len(r)
    BY <1>1, <2>2, <2>3 DEF IsText
  <2> QED
    BY <1>3, <2>1, <2>2, <2>3, <2>4
<1>8. Begins(r, cut)
  BY <1>1, <1>2, <1>3 DEF Conversation, Begins
<1> QED
  BY <1>4, <1>5, <1>6, <1>7, <1>8 DEF Conversation, r

\* The three texts the loop makes itself.
LEMMA TextsOf ==
  /\ Own \in Message /\ Other \in Message /\ Said \in Message
  /\ IsText(Own) /\ Own.role = "user" /\ Own.own
  /\ IsText(Other) /\ Other.role = "user" /\ ~Other.own
  /\ IsText(Said) /\ Said.role = "assistant" /\ ~Said.own
BY DEF Own, Other, Said, IsText, Text, Message

\* The texts of users that are added to a session leave it a conversation; the last
\* of them is at its end.
LEMMA UserTextsKeep ==
  ASSUME NEW s \in Seq(Message), NEW new \in Seq(Message),
         \A i \in 1 .. Len(new) : IsText(new[i]) /\ new[i].role = "user",
         NEW n \in Nat, NEW F, NEW cut \in BOOLEAN, Conversation(s, n, F, cut)
  PROVE  LET r == FoldLeft(AddText, s, new) IN
         /\ r \in Seq(Message) /\ Conversation(r, n, F, cut)
         /\ new # << >> /\ new[Len(new)].own => EndsWithOwn(r)
<1>1. PICK st \in [0 .. Len(new) -> Seq(Message)] :
         /\ st[0] = s /\ st[Len(new)] = FoldLeft(AddText, s, new)
         /\ \A i \in 1 .. Len(new) : st[i] = AddText(st[i - 1], new[i])
  BY AddTextFold
<1>2. Len(new) \in Nat
  OBVIOUS
<1> DEFINE G == {i \in 0 .. Len(new) : Conversation(st[i], n, F, cut)}
<1>3. 0 .. Len(new) \subseteq G
  <2>1. 0 \in G
    BY <1>1, <1>2
  <2>2. ASSUME NEW i \in 1 .. Len(new), i - 1 \in G PROVE i \in G
    <3>1. st[i - 1] \in Seq(Message) /\ Conversation(st[i - 1], n, F, cut) /\ i \in 0 .. Len(new)
      BY <1>1, <1>2, <2>2
    <3>2. new[i] \in Message /\ IsText(new[i]) /\ new[i].role = "user"
      BY <1>2
    <3>3. Conversation(AddText(st[i - 1], new[i]), n, F, cut)
      BY <3>1, <3>2, AddTextKeeps
    <3> QED
      BY <1>1, <3>1, <3>3
  <2> HIDE DEF G
  <2> QED
    BY <1>2, <2>1, <2>2, UpTo
<1>4. Conversation(st[Len(new)], n, F, cut) /\ st[Len(new)] \in Seq(Message)
  BY <1>1, <1>2, <1>3
<1>5. ASSUME new # << >>, new[Len(new)].own PROVE EndsWithOwn(st[Len(new)])
  <2>1. PICK k \in 1 .. Len(new) : k = Len(new)
    BY <1>2, <1>5
  <2>2. k - 1 \in 0 .. Len(new) /\ new[k] \in Message
    BY <1>2
  <2>3. IsText(new[k]) /\ new[k].role = "user" /\ new[k].own /\ st[k - 1] \in Seq(Message)
    BY <1>1, <1>5, <2>1, <2>2
  <2>4. Adds(st[k], st[k - 1], new[k])
    BY <1>1, <2>2, <2>3, AddTextAdds
  <2>5. EndsWithOwn(st[k])
    BY <2>3, <2>4 DEF Adds, EndsWithOwn
  <2> QED
    BY <2>1, <2>5
<1> QED
  BY <1>1, <1>4, <1>5

-----------------------------------------------------------------------------
(* Without a session *)

\* Text that is added to the history leaves it plain.
LEMMA PlainKept ==
  ASSUME NEW h \in Seq(Message), Plain(h), NEW m \in Message, IsText(m)
  PROVE  Plain(AddText(h, m))
<1> DEFINE r == AddText(h, m)
<1>0. Adds(r, h, m)
  BY AddTextAdds
<1> HIDE DEF r
<1> SUFFICES ASSUME NEW i \in 1 .. Len(r) PROVE IsText(r[i]) /\ (i > 1 => r[i].role # r[i - 1].role)
  BY DEF Plain, r
<1>1. CASE i < Len(r)
  <2>1. i \in 1 .. (Len(r) - 1) /\ i \in 1 .. Len(h) /\ r[i] = h[i]
    BY <1>0, <1>1 DEF Adds
  <2>2. i > 1 => i - 1 \in 1 .. (Len(r) - 1)
    BY <1>0, <2>1 DEF Adds
  <2>3. i > 1 => r[i - 1] = h[i - 1]
    BY <1>0, <2>2 DEF Adds
  <2> QED
    BY <2>1, <2>3 DEF Plain
<1>2. CASE i = Len(r)
  <2>1. IsText(r[i]) /\ r[i].role = m.role
    BY <1>0, <1>2 DEF Adds
  <2>2. ASSUME i > 1 PROVE r[i].role # r[i - 1].role
    <3>1. i - 1 \in 1 .. (Len(r) - 1) /\ i - 1 \in 1 .. Len(h)
      BY <1>0, <1>2, <2>2 DEF Adds
    <3>2. r[i - 1] = h[i - 1]
      BY <1>0, <3>1 DEF Adds
    <3>3. CASE Len(r) = Len(h)
      BY <1>0, <1>2, <2>1, <2>2, <3>2, <3>3 DEF Adds, Plain
    <3>4. CASE Len(r) = Len(h) + 1
      <4>1. i - 1 = Len(h) /\ h # << >> /\ IsText(h[Len(h)])
        BY <1>0, <1>2, <3>1, <3>4 DEF Plain, Adds
      <4> QED
        BY <1>0, <2>1, <3>2, <3>4, <4>1 DEF Adds
    <3> QED
      BY <1>0, <3>3, <3>4 DEF Adds
  <2> QED
    BY <2>1, <2>2
<1> QED
  BY <1>0, <1>1, <1>2 DEF Adds

\* The history from its first to its last user's text is a conversation.
LEMMA FromHistoryKeeps ==
  ASSUME NEW h \in Seq(Message), Plain(h), NEW n \in Nat, NEW F, NEW cut \in BOOLEAN
  PROVE  /\ FromHistory(h) \in Seq(Message) /\ Conversation(FromHistory(h), n, F, cut)
         /\ EndsWithOwn(h) => EndsWithOwn(FromHistory(h))
<1> DEFINE t == IF h # << >> /\ Last(h).role = "assistant" THEN Front(h) ELSE h
           r == IF t # << >> /\ Head(t).role = "assistant" THEN Tail(t) ELSE t
<1>0. FromHistory(h) = r
  BY DEF FromHistory
<1>1. /\ t \in Seq(Message) /\ Len(t) \in Nat /\ Plain(t)
      /\ EndsWithOwn(h) => EndsWithOwn(t)
  <2>1. CASE h # << >> /\ Last(h).role = "assistant"
    <3>1. /\ Front(h) \in Seq(Message) /\ Len(Front(h)) = Len(h) - 1 /\ Len(h) \in Nat \ {0}
          /\ \A i \in 1 .. (Len(h) - 1) : Front(h)[i] = h[i]
      BY <2>1, FrontOf
    <3>2. Plain(Front(h))
      BY <3>1 DEF Plain
    <3>3. ~EndsWithOwn(h)
      BY <2>1 DEF EndsWithOwn, Last
    <3> QED
      BY <2>1, <3>1, <3>2, <3>3
  <2> QED
    BY <2>1
<1> HIDE DEF t
<1>2. r \in Seq(Message) /\ Len(r) \in Nat /\ Plain(r)
  <2>1. CASE t # << >> /\ Head(t).role = "assistant"
    <3>1. r \in Seq(Message) /\ Len(r) = Len(t) - 1 /\ \A i \in 1 .. Len(r) : r[i] = t[i + 1]
      BY <1>1, <2>1
    <3>2. Plain(r)
      <4> HIDE DEF r
      <4> SUFFICES ASSUME NEW i \in 1 .. Len(r) PROVE IsText(r[i]) /\ (i > 1 => r[i].role # r[i - 1].role)
        BY DEF Plain
      <4>1. i + 1 \in 1 .. Len(t) /\ i + 1 > 1 /\ (i + 1) - 1 = i /\ r[i] = t[i + 1]
        BY <1>1, <3>1
      <4>2. IsText(t[i + 1]) /\ t[i + 1].role # t[i].role
        BY <1>1, <4>1 DEF Plain
      <4>3. i > 1 => i - 1 \in 1 .. Len(r) /\ r[i - 1] = t[i]
        BY <1>1, <3>1
      <4> QED
        BY <4>1, <4>2, <4>3
    <3> QED
      BY <3>1, <3>2
  <2> QED
    BY <1>1, <2>1
<1>3. r # << >> => r[1].role = "user"
  <2>1. CASE t # << >> /\ Head(t).role = "assistant"
    <3>1. r = Tail(t)
      BY <2>1
    <3>2. r # << >> =>
            2 \in 1 .. Len(t) /\ r[1] = t[2] /\ t[2].role # t[1].role /\ t[1].role = "assistant" /\ t[2] \in Message
      BY <1>1, <2>1, <3>1 DEF Plain
    <3> QED
      BY <3>2 DEF Message
  <2>2. CASE t # << >> /\ Head(t).role # "assistant"
    <3>1. r = t /\ t[1] \in Message /\ t[1].role # "assistant"
      BY <1>1, <2>2
    <3> QED
      BY <3>1 DEF Message
  <2> QED
    BY <2>1, <2>2
<1>4. EndsWithOwn(t) => EndsWithOwn(r)
  <2> SUFFICES ASSUME EndsWithOwn(t) PROVE EndsWithOwn(r)
    OBVIOUS
  <2>1. CASE t # << >> /\ Head(t).role = "assistant"
    <3>1. t[1].role = "assistant" /\ Len(t) # 0
      BY <1>1, <2>1
    <3>2. Len(t) - 1 \in Nat \ {0}
      BY <1>1, <3>1 DEF EndsWithOwn
    <3>3. r = Tail(t)
      BY <2>1
    <3>4. Len(r) = Len(t) - 1 /\ \A i \in 1 .. (Len(t) - 1) : r[i] = t[i + 1]
      BY <1>1, <2>1, <3>3
    <3>5. r # << >>
      BY <1>1, <3>2, <3>4
    <3> HIDE DEF r
    <3>6. r[Len(r)] = t[Len(t)]
      <4>1. Len(r) \in 1 .. (Len(t) - 1) /\ Len(r) + 1 = Len(t)
        BY <1>1, <3>2, <3>4
      <4> QED
        BY <3>4, <4>1
    <3> QED
      BY <3>5, <3>6 DEF EndsWithOwn
  <2> QED
    BY <2>1
<1> HIDE DEF r
<1>5. \A i \in 1 .. Len(r) : r[i].calls = {} /\ r[i].results = {}
  BY <1>2 DEF Plain, IsText
<1>6. Conversation(r, n, F, cut)
  BY <1>2, <1>3, <1>5 DEF Conversation, Roles, Follows, Once, Answered, Begins
<1> QED
  BY <1>0, <1>1, <1>2, <1>4, <1>6

\* A text at the end.
LEMMA AppendKeeps ==
  ASSUME NEW s \in Seq(Message), NEW m \in Message, IsText(m),
         NEW n \in Nat, NEW F, NEW cut \in BOOLEAN, Conversation(s, n, F, cut),
         s = << >> /\ ~cut => m.role = "user"
  PROVE  Append(s, m) \in Seq(Message) /\ Conversation(Append(s, m), n, F, cut)
<1> DEFINE r == Append(s, m)
<1>1. /\ r \in Seq(Message) /\ Len(s) \in Nat /\ Len(r) = Len(s) + 1 /\ r[Len(r)] = m
      /\ \A i \in 1 .. Len(s) : r[i] = s[i]
  OBVIOUS
<1> HIDE DEF r
<1>2. m.calls = {} /\ m.results = {}
  BY DEF IsText
<1>3. \A i \in 1 .. Len(r) : i = Len(r) \/ (i \in 1 .. Len(s) /\ r[i] = s[i])
  BY <1>1
<1>4. Roles(r)
  BY <1>1, <1>2, <1>3 DEF Conversation, Roles
<1>5. Follows(r)
  BY <1>1, <1>2, <1>3 DEF Conversation, Follows
<1>6. Once(r, n)
  BY <1>1, <1>2, <1>3 DEF Conversation, Once
<1>7. Answered(r, F)
  BY <1>1, <1>2, <1>3 DEF Conversation, Answered
<1>8. Begins(r, cut)
  BY <1>1, <1>2, <1>3 DEF Conversation, Begins
<1> QED
  BY <1>1, <1>4, <1>5, <1>6, <1>7, <1>8 DEF Conversation, r

-----------------------------------------------------------------------------
(* Messages of one role are merged *)

\* What becomes of the last message o in p of a run, which begins after the message b.
MergedInto(m, p, b, o) ==
  /\ m.role = p[o].role /\ (p[o].own => m.own)
  /\ \/ m = p[o] /\ o = b + 1
     \/ IsText(m) /\ o > 1 /\ p[o - 1].role = p[o].role

\* t holds the runs of the first n messages of p; o[k] is the last message of the k-th.
Runs(t, p, n, o) ==
  /\ t \in Seq(Message) /\ Len(t) \in Nat /\ o \in [0 .. Len(t) -> 0 .. n]
  /\ o[0] = 0 /\ o[Len(t)] = n
  /\ \A k, l \in 0 .. Len(t) : k < l => o[k] < o[l]
  /\ \A k \in 1 .. Len(t) : MergedInto(t[k], p, o[k - 1], o[k])
  /\ \A k \in 2 .. Len(t) : t[k].role # t[k - 1].role
  /\ n > 0 => t[1].role = p[1].role

\* One more message of p is merged.
LEMMA MergeRuns ==
  ASSUME NEW p \in Seq(Message), NEW n \in 1 .. Len(p), NEW t, NEW o, Runs(t, p, n - 1, o)
  PROVE  \E o2 : Runs(Merge(t, p[n]), p, n, o2)
<1>0. /\ t \in Seq(Message) /\ Len(t) \in Nat /\ o \in [0 .. Len(t) -> 0 .. (n - 1)]
      /\ o[0] = 0 /\ o[Len(t)] = n - 1 /\ n \in Nat /\ n > 0 /\ p[n] \in Message
  BY DEF Runs
<1>1. CASE t # << >> /\ Last(t).role = p[n].role
  <2> DEFINE m == Text(p[n].role, Last(t).own \/ p[n].own)
             r == Append(Front(t), m)
             o2 == [o EXCEPT ![Len(t)] = n]
  <2>1. Merge(t, p[n]) = r
    BY <1>1 DEF Merge
  <2>2. Len(t) > 0 /\ Last(t) = t[Len(t)] /\ Last(t) \in Message
    BY <1>0, <1>1 DEF Last
  <2>3. m \in Message /\ IsText(m) /\ m.role = p[n].role /\ (p[n].own => m.own)
    BY <1>0, <2>2, TextType DEF Message, Text, IsText
  <2> HIDE DEF m
  <2>4. r \in Seq(Message) /\ Len(r) = Len(t) /\ \A i \in 1 .. Len(t) : r[i] = IF i = Len(t) THEN m ELSE t[i]
    <3>1. t \in Seq(Message) /\ t # << >> /\ m \in Message
      BY <1>0, <1>1, <2>3
    <3>2. /\ Append(Front(t), m) \in Seq(Message) /\ Len(Append(Front(t), m)) = Len(t)
          /\ \A i \in 1 .. Len(t) : Append(Front(t), m)[i] = IF i = Len(t) THEN m ELSE t[i]
      BY <3>1, LastReplaced
    <3> QED
      BY <3>2
  <2> HIDE DEF r
  <2>5. o2 \in [0 .. Len(t) -> 0 .. n] /\ o2[Len(t)] = n /\ \A k \in 0 .. (Len(t) - 1) : o2[k] = o[k]
    BY <1>0
  <2> HIDE DEF o2
  <2>6. \A k, l \in 0 .. Len(t) : k < l => o2[k] < o2[l]
    <3> SUFFICES ASSUME NEW k \in 0 .. Len(t), NEW l \in 0 .. Len(t), k < l PROVE o2[k] < o2[l]
      OBVIOUS
    <3>1. k \in 0 .. (Len(t) - 1) /\ o2[k] = o[k] /\ o[k] \in 0 .. (n - 1)
      BY <1>0, <2>5
    <3>2. CASE l = Len(t)
      BY <1>0, <2>5, <3>1, <3>2
    <3>3. CASE l # Len(t)
      <4>1. l \in 0 .. (Len(t) - 1) /\ o2[l] = o[l]
        BY <1>0, <2>5, <3>3
      <4> QED
        BY <3>1, <4>1 DEF Runs
    <3> QED
      BY <3>2, <3>3
  <2>7. \A k \in 1 .. Len(t) : MergedInto(r[k], p, o2[k - 1], o2[k])
    <3> SUFFICES ASSUME NEW k \in 1 .. Len(t) PROVE MergedInto(r[k], p, o2[k - 1], o2[k])
      OBVIOUS
    <3>1. CASE k = Len(t)
      <4>1. p[n - 1].role = p[n].role /\ n > 1
        <5>1. MergedInto(t[k], p, o[k - 1], o[k]) /\ o[k] = n - 1
          BY <1>0, <3>1 DEF Runs
        <5>2. o[0] < o[k]
          BY <1>0, <2>2, <3>1 DEF Runs
        <5> QED
          BY <1>0, <1>1, <2>2, <3>1, <5>1, <5>2 DEF MergedInto
      <4>2. r[k] = m /\ o2[k] = n
        BY <2>4, <2>5, <3>1
      <4> QED
        BY <2>3, <4>1, <4>2 DEF MergedInto
    <3>2. CASE k # Len(t)
      <4>1. k - 1 \in 0 .. (Len(t) - 1) /\ k \in 0 .. (Len(t) - 1)
        BY <1>0, <3>2
      <4>2. r[k] = t[k] /\ o2[k] = o[k] /\ o2[k - 1] = o[k - 1]
        BY <2>4, <2>5, <3>2, <4>1
      <4> QED
        BY <4>2 DEF Runs
    <3> QED
      BY <3>1, <3>2
  <2>8. \A k \in 1 .. Len(t) : r[k].role = t[k].role
    BY <1>1, <2>2, <2>3, <2>4
  <2>9. \A k \in 2 .. Len(t) : r[k].role # r[k - 1].role
    <3> SUFFICES ASSUME NEW k \in 2 .. Len(t) PROVE r[k].role # r[k - 1].role
      OBVIOUS
    <3>1. k \in 1 .. Len(t) /\ k - 1 \in 1 .. Len(t) /\ t[k].role # t[k - 1].role
      BY <1>0 DEF Runs
    <3> QED
      BY <2>8, <3>1
  <2>10. r[1].role = p[1].role
    <3>1. n - 1 > 0
      <4>1. o[0] < o[Len(t)]
        BY <1>0, <2>2 DEF Runs
      <4> QED
        BY <1>0, <4>1
    <3>2. t[1].role = p[1].role /\ 1 \in 1 .. Len(t)
      BY <1>0, <2>2, <3>1 DEF Runs
    <3> QED
      BY <2>8, <3>2
  <2>11. o2[0] = 0
    BY <1>0, <2>2, <2>5
  <2>12. Runs(r, p, n, o2)
    BY <1>0, <2>4, <2>5, <2>6, <2>7, <2>9, <2>10, <2>11 DEF Runs
  <2> QED
    BY <2>1, <2>12
<1>2. CASE ~(t # << >> /\ Last(t).role = p[n].role)
  <2> DEFINE r == Append(t, p[n])
             o2 == [k \in 0 .. Len(r) |-> IF k <= Len(t) THEN o[k] ELSE n]
  <2>1. Merge(t, p[n]) = r
    BY <1>2 DEF Merge
  <2>2. r \in Seq(Message) /\ Len(r) = Len(t) + 1 /\ r[Len(r)] = p[n] /\ \A i \in 1 .. Len(t) : r[i] = t[i]
    BY <1>0
  <2> HIDE DEF r
  <2>3. o2 \in [0 .. Len(r) -> 0 .. n] /\ o2[Len(r)] = n /\ \A k \in 0 .. Len(t) : o2[k] = o[k]
    BY <1>0, <2>2
  <2> HIDE DEF o2
  <2>4. \A k, l \in 0 .. Len(r) : k < l => o2[k] < o2[l]
    <3> SUFFICES ASSUME NEW k \in 0 .. Len(r), NEW l \in 0 .. Len(r), k < l PROVE o2[k] < o2[l]
      OBVIOUS
    <3>1. k \in 0 .. Len(t) /\ o2[k] = o[k] /\ o[k] \in 0 .. (n - 1)
      BY <1>0, <2>2, <2>3
    <3>2. CASE l = Len(r)
      BY <1>0, <2>3, <3>1, <3>2
    <3>3. CASE l # Len(r)
      <4>1. l \in 0 .. Len(t)
        BY <1>0, <2>2, <3>3
      <4>2. o2[l] = o[l]
        BY <2>3, <4>1
      <4> QED
        BY <3>1, <4>1, <4>2 DEF Runs
    <3> QED
      BY <3>2, <3>3
  <2>5. \A k \in 1 .. Len(r) : MergedInto(r[k], p, o2[k - 1], o2[k])
    <3> SUFFICES ASSUME NEW k \in 1 .. Len(r) PROVE MergedInto(r[k], p, o2[k - 1], o2[k])
      OBVIOUS
    <3>1. CASE k = Len(r)
      <4>1. k - 1 \in 0 .. Len(t) /\ k - 1 = Len(t)
        BY <1>0, <2>2, <3>1
      <4>2. o2[k - 1] = n - 1 /\ o2[k] = n /\ r[k] = p[n]
        BY <1>0, <2>2, <2>3, <3>1, <4>1
      <4> QED
        BY <1>0, <4>2 DEF MergedInto
    <3>2. CASE k # Len(r)
      <4>1. k \in 1 .. Len(t) /\ k - 1 \in 0 .. Len(t) /\ k \in 0 .. Len(t)
        BY <1>0, <2>2, <3>2
      <4>2. r[k] = t[k] /\ o2[k] = o[k] /\ o2[k - 1] = o[k - 1]
        BY <2>2, <2>3, <4>1
      <4> QED
        BY <4>1, <4>2 DEF Runs
    <3> QED
      BY <3>1, <3>2
  <2>6. \A k \in 2 .. Len(r) : r[k].role # r[k - 1].role
    <3> SUFFICES ASSUME NEW k \in 2 .. Len(r) PROVE r[k].role # r[k - 1].role
      OBVIOUS
    <3>1. k - 1 \in 1 .. Len(t) /\ r[k - 1] = t[k - 1]
      BY <1>0, <2>2
    <3>2. CASE k = Len(r)
      BY <1>0, <1>2, <2>2, <3>1, <3>2 DEF Last
    <3>3. CASE k # Len(r)
      <4>1. k \in 2 .. Len(t) /\ k \in 1 .. Len(t)
        BY <1>0, <2>2, <3>3
      <4> QED
        BY <2>2, <3>1, <4>1 DEF Runs
    <3> QED
      BY <3>2, <3>3
  <2>7. r[1].role = p[1].role
    <3>1. CASE Len(t) = 0
      BY <1>0, <2>2, <3>1
    <3>2. CASE Len(t) # 0
      <4>1. o[0] < o[Len(t)] /\ 1 \in 1 .. Len(t)
        BY <1>0, <3>2 DEF Runs
      <4> QED
        BY <1>0, <2>2, <4>1 DEF Runs
    <3> QED
      BY <3>1, <3>2
  <2>8. o2[0] = 0
    BY <1>0, <2>3
  <2>9. Runs(r, p, n, o2)
    BY <1>0, <2>2, <2>3, <2>4, <2>5, <2>6, <2>7, <2>8 DEF Runs
  <2> QED
    BY <2>1, <2>9
<1> QED
  BY <1>1, <1>2

\* Alternating merges all of its sequence.
LEMMA AlternatingRuns ==
  ASSUME NEW p \in Seq(Message)
  PROVE  \E o : Runs(Alternating(p), p, Len(p), o)
<1>1. PICK st \in [0 .. Len(p) -> Seq(Message)] :
         /\ st[0] = << >> /\ st[Len(p)] = Alternating(p)
         /\ \A n \in 1 .. Len(p) : st[n] = Merge(st[n - 1], p[n])
  BY MergeFold
<1> DEFINE G == {n \in 0 .. Len(p) : \E o : Runs(st[n], p, n, o)}
<1>2. 0 \in G
  <2> DEFINE o == [k \in 0 .. 0 |-> 0]
  <2>1. Runs(<< >>, p, 0, o)
    BY DEF Runs
  <2> QED
    BY <1>1, <2>1
<1>3. ASSUME NEW n \in 1 .. Len(p), n - 1 \in G PROVE n \in G
  <2>1. PICK o : Runs(st[n - 1], p, n - 1, o)
    BY <1>3
  <2>2. \E o2 : Runs(Merge(st[n - 1], p[n]), p, n, o2)
    BY <2>1, MergeRuns
  <2> QED
    BY <1>1, <2>2
<1>4. Len(p) \in Nat
  OBVIOUS
<1>5. 0 .. Len(p) \subseteq G
  <2> HIDE DEF G
  <2> QED
    BY <1>2, <1>3, <1>4, UpTo
<1> QED
  BY <1>1, <1>4, <1>5

-----------------------------------------------------------------------------
(* Calls are paired with their results again *)

\* q is the head of s, the summary's two messages, and the tail of s.
Joined(q, s, head, tail) ==
  /\ q \in Seq(Message) /\ Len(q) = head + 2 + Len(s) - tail
  /\ \A i \in 1 .. head : q[i] = s[i]
  /\ q[head + 1] = Other /\ q[head + 2] = Said
  /\ \A i \in (head + 3) .. Len(q) : q[i] = s[i - head - 2 + tail]

IsJoin(z, x, y) ==
  /\ z \in Seq(Message) /\ Len(z) = Len(x) + Len(y)
  /\ \A i \in 1 .. Len(x) : z[i] = x[i]
  /\ \A i \in 1 .. Len(y) : z[Len(x) + i] = y[i]

\* A sequence is joined to another.
LEMMA Joins == ASSUME NEW x \in Seq(Message), NEW y \in Seq(Message) PROVE IsJoin(x \o y, x, y)
BY DEF IsJoin

\* What a compaction keeps is so joined.
LEMMA JoinedParts ==
  ASSUME NEW s \in Seq(Message), NEW head \in Nat, NEW tail \in Nat, head < tail, tail <= Len(s)
  PROVE  Joined(SubSeq(s, 1, head) \o <<Other, Said>> \o SubSeq(s, tail + 1, Len(s)), s, head, tail)
<1> DEFINE a == SubSeq(s, 1, head)
           b == <<Other, Said>>
           c == SubSeq(s, tail + 1, Len(s))
           ab == a \o b
           q == ab \o c
<1>0. Len(s) \in Nat
  OBVIOUS
<1>1. a \in Seq(Message) /\ Len(a) = head /\ \A i \in 1 .. head : a[i] = s[i]
  BY <1>0
<1>2. b \in Seq(Message) /\ Len(b) = 2 /\ b[1] = Other /\ b[2] = Said
  BY TextsOf
<1>3. c \in Seq(Message) /\ Len(c) = Len(s) - tail /\ \A i \in 1 .. (Len(s) - tail) : c[i] = s[tail + i]
  <2>1. tail + 1 \in Nat \ {0} /\ Len(s) <= Len(s) /\ tail + 1 <= Len(s) + 1
    BY <1>0
  <2>2. /\ c \in Seq(Message) /\ Len(c) = Len(s) - (tail + 1) + 1
        /\ \A i \in 1 .. (Len(s) - (tail + 1) + 1) : c[i] = s[(tail + 1) + i - 1]
    BY <1>0, <2>1, Part
  <2> QED
    BY <1>0, <2>2
<1> HIDE DEF a, b, c
<1>4. IsJoin(ab, a, b)
  BY <1>1, <1>2, Joins
<1>5. ab \in Seq(Message)
  BY <1>4 DEF IsJoin
<1>6. IsJoin(q, ab, c)
  <2> HIDE DEF ab
  <2> QED
    BY <1>3, <1>5, Joins
<1> HIDE DEF q, ab
<1>7. Len(ab) = head + 2 /\ (\A i \in 1 .. head : ab[i] = s[i]) /\ ab[head + 1] = Other /\ ab[head + 2] = Said
  BY <1>1, <1>2, <1>4 DEF IsJoin
<1>8. /\ q \in Seq(Message) /\ Len(q) = head + 2 + (Len(s) - tail)
      /\ \A i \in 1 .. (head + 2) : q[i] = ab[i]
      /\ \A i \in 1 .. (Len(s) - tail) : q[(head + 2) + i] = c[i]
  BY <1>3, <1>6, <1>7 DEF IsJoin
<1>9. \A i \in (head + 3) .. Len(q) : q[i] = s[i - head - 2 + tail]
  <2> SUFFICES ASSUME NEW i \in (head + 3) .. Len(q) PROVE q[i] = s[i - head - 2 + tail]
    OBVIOUS
  <2>1. PICK k \in 1 .. (Len(s) - tail) : k = i - (head + 2)
    BY <1>0, <1>8
  <2>2. (head + 2) + k = i /\ i - head - 2 + tail = tail + k
    BY <1>0, <2>1
  <2>3. q[(head + 2) + k] = c[k] /\ c[k] = s[tail + k]
    BY <1>3, <1>8
  <2> QED
    BY <2>2, <2>3
<1>10. /\ head + 1 \in 1 .. (head + 2) /\ head + 2 \in 1 .. (head + 2)
       /\ \A i \in 1 .. head : i \in 1 .. (head + 2)
  OBVIOUS
<1>11. Len(q) = head + 2 + Len(s) - tail
  BY <1>0, <1>8
<1>12. Joined(q, s, head, tail)
  BY <1>7, <1>8, <1>9, <1>10, <1>11 DEF Joined
<1> QED
  BY <1>12 DEF q, ab, a, b, c

\* p is q without the calls and results whose other half is not in q.
Sanitizes(p, q) ==
  /\ p \in Seq(Message) /\ Len(p) = Len(q)
  /\ \A i \in 1 .. Len(q) :
       /\ p[i].role = q[i].role /\ p[i].own = q[i].own
       /\ \A c : c \in p[i].calls <=> c \in q[i].calls /\ \E j \in 1 .. Len(q) : c \in q[j].results
       /\ \A c : c \in p[i].results <=> c \in q[i].results /\ \E j \in 1 .. Len(q) : c \in q[j].calls

\* SanitizePairs sanitizes in this sense.
LEMMA SanitizePairsOf ==
  ASSUME NEW q \in Seq(Message)
  PROVE  Sanitizes(SanitizePairs(q), q)
<1> DEFINE e(i) == [q[i] EXCEPT !.calls = q[i].calls \cap Results(q), !.results = q[i].results \cap Calls(q)]
<1>1. DOMAIN q = 1 .. Len(q) /\ Len(q) \in Nat /\ \A i \in 1 .. Len(q) : q[i] \in Message
  OBVIOUS
<1>2. \A i \in 1 .. Len(q) : e(i) \in Message
  BY <1>1 DEF Message
<1>3. SanitizePairs(q) = [i \in 1 .. Len(q) |-> e(i)]
  BY <1>1 DEF SanitizePairs
<1>4. \A i \in 1 .. Len(q) :
        /\ e(i).role = q[i].role /\ e(i).own = q[i].own
        /\ e(i).calls = q[i].calls \cap Results(q) /\ e(i).results = q[i].results \cap Calls(q)
  BY <1>1 DEF Message
<1> HIDE DEF e
<1>5. SanitizePairs(q) \in Seq(Message) /\ Len(SanitizePairs(q)) = Len(q)
      /\ \A i \in 1 .. Len(q) : SanitizePairs(q)[i] = e(i)
  BY <1>1, <1>2, <1>3
<1>6. \A c : c \in Results(q) <=> \E j \in 1 .. Len(q) : c \in q[j].results
  BY <1>1 DEF Results
<1>7. \A c : c \in Calls(q) <=> \E j \in 1 .. Len(q) : c \in q[j].calls
  BY <1>1 DEF Calls
<1> QED
  BY <1>4, <1>5, <1>6, <1>7 DEF Sanitizes

\* The head, the summary and the tail of a conversation are one but for the turns of
\* the roles, once their calls and results are paired again.
LEMMA PairedKeeps ==
  ASSUME NEW s \in Seq(Message), NEW head \in Nat, NEW tail \in Nat, head < tail, tail <= Len(s),
         NEW n \in Nat, NEW F, NEW cut \in BOOLEAN, Conversation(s, n, F, cut),
         NEW q, NEW p, Joined(q, s, head, tail), Sanitizes(p, q)
  PROVE  /\ p \in Seq(Message) /\ Len(p) \in Nat /\ Len(p) >= 2
         /\ Roles(p) /\ Once(p, n) /\ Answered(p, F) /\ Begins(p, cut)
         /\ tail < Len(s) /\ EndsWithOwn(s) => EndsWithOwn(p)
         /\ tail = Len(s) =>
              p[Len(p)].role = "assistant" /\ p[Len(p) - 1].role = "user" /\ IsText(p[Len(p) - 1])
<1> DEFINE Src(i) == IF i <= head THEN i ELSE i - head - 2 + tail
           Summary == {head + 1, head + 2}
<1>1. /\ Len(s) \in Nat /\ q \in Seq(Message) /\ p \in Seq(Message) /\ Len(p) = Len(q)
      /\ Len(q) = head + 2 + Len(s) - tail
  BY DEF Joined, Sanitizes
<1>2. Len(p) \in Nat /\ Len(p) >= head + 2 /\ Len(q) \in Nat
  BY <1>1
<1>3. \A i \in 1 .. Len(q) : i \notin Summary => Src(i) \in 1 .. Len(s) /\ q[i] = s[Src(i)]
  <2> SUFFICES ASSUME NEW i \in 1 .. Len(q), i \notin Summary PROVE Src(i) \in 1 .. Len(s) /\ q[i] = s[Src(i)]
    OBVIOUS
  <2>1. CASE i <= head
    BY <1>1, <2>1 DEF Joined
  <2>2. CASE ~(i <= head)
    <3>1. i \in (head + 3) .. Len(q)
      BY <1>1, <2>2
    <3>2. i - head - 2 + tail \in 1 .. Len(s)
      BY <1>1, <3>1
    <3> QED
      BY <2>2, <3>1, <3>2 DEF Joined
  <2> QED
    BY <2>1, <2>2
<1>4. \A i, j \in 1 .. Len(q) : i \notin Summary /\ j \notin Summary =>
        /\ Src(i) = Src(j) => i = j
        /\ Src(j) = Src(i) + 1 => j = i + 1
  <2> SUFFICES ASSUME NEW i \in 1 .. Len(q), NEW j \in 1 .. Len(q), i \notin Summary, j \notin Summary
               PROVE  (Src(i) = Src(j) => i = j) /\ (Src(j) = Src(i) + 1 => j = i + 1)
    OBVIOUS
  <2>1. i \in Nat /\ j \in Nat /\ (i > head => i >= head + 3) /\ (j > head => j >= head + 3)
    BY <1>2
  <2>2. CASE i <= head /\ j <= head
    BY <2>1, <2>2
  <2>3. CASE i <= head /\ j > head
    BY <2>1, <2>3
  <2>4. CASE i > head /\ j <= head
    BY <2>1, <2>4
  <2>5. CASE i > head /\ j > head
    BY <2>1, <2>5
  <2> QED
    BY <2>1, <2>2, <2>3, <2>4, <2>5
<1>5. \A i \in Summary : i \in 1 .. Len(q) /\ q[i].calls = {} /\ q[i].results = {}
  <2>1. Other.calls = {} /\ Other.results = {} /\ Said.calls = {} /\ Said.results = {}
    BY TextsOf DEF IsText
  <2> QED
    BY <1>1, <1>2, <2>1 DEF Joined
<1> HIDE DEF Src
<1>6. \A i \in 1 .. Len(q) : \A c : c \in q[i].calls \/ c \in q[i].results => i \notin Summary
  BY <1>5
<1>7. \A i \in 1 .. Len(q) :
        /\ p[i].role = q[i].role /\ p[i].own = q[i].own
        /\ \A c : c \in p[i].calls <=> c \in q[i].calls /\ \E j \in 1 .. Len(q) : c \in q[j].results
        /\ \A c : c \in p[i].results <=> c \in q[i].results /\ \E j \in 1 .. Len(q) : c \in q[j].calls
  BY DEF Sanitizes
<1> HIDE DEF Summary
<1>8. Roles(p)
  <2> SUFFICES ASSUME NEW i \in 1 .. Len(p)
               PROVE  /\ p[i].calls # {} => p[i].role = "assistant"
                      /\ p[i].results # {} => p[i].role = "user"
    BY DEF Roles
  <2>1. (p[i].calls # {} => q[i].calls # {}) /\ (p[i].results # {} => q[i].results # {})
    BY <1>1, <1>7
  <2>2. q[i].calls # {} \/ q[i].results # {} => i \notin Summary
    BY <1>1, <1>6
  <2>3. i \in 1 .. Len(q) /\ p[i].role = q[i].role
    BY <1>1, <1>7
  <2>4. i \notin Summary => Src(i) \in 1 .. Len(s) /\ q[i] = s[Src(i)]
    BY <1>3, <2>3
  <2>5. i \notin Summary => /\ q[i].calls # {} => q[i].role = "assistant"
                            /\ q[i].results # {} => q[i].role = "user"
    BY <2>4 DEF Conversation, Roles
  <2>6. p[i].calls # {} => p[i].role = "assistant"
    BY <2>1, <2>2, <2>3, <2>5
  <2>7. p[i].results # {} => p[i].role = "user"
    BY <2>1, <2>2, <2>3, <2>5
  <2> QED
    BY <2>6, <2>7
<1>9. Once(p, n)
  <2> SUFFICES ASSUME NEW i \in 1 .. Len(p), NEW c \in p[i].results, c > 0
               PROVE  c <= n /\ \A j \in 1 .. Len(p) : c \in p[j].results => i = j
    BY DEF Once
  <2>1. c \in q[i].results /\ i \notin Summary
    BY <1>1, <1>6, <1>7
  <2>2. Src(i) \in 1 .. Len(s) /\ c \in s[Src(i)].results
    BY <1>1, <1>3, <2>1
  <2>3. c <= n /\ \A j \in 1 .. Len(s) : c \in s[j].results => Src(i) = j
    BY <2>2 DEF Conversation, Once
  <2>4. ASSUME NEW j \in 1 .. Len(p), c \in p[j].results PROVE i = j
    <3>1. c \in q[j].results /\ j \notin Summary
      BY <1>1, <1>6, <1>7, <2>4
    <3>2. Src(j) \in 1 .. Len(s) /\ c \in s[Src(j)].results
      BY <1>1, <1>3, <3>1
    <3>3. Src(i) = Src(j)
      BY <2>3, <3>2
    <3> QED
      BY <1>1, <1>4, <2>1, <3>1, <3>3
  <2> QED
    BY <2>3, <2>4
<1>10. Answered(p, F)
  <2> SUFFICES ASSUME NEW i \in 1 .. Len(p), NEW c \in p[i].calls, c > 0, c \notin F
               PROVE  i < Len(p) /\ c \in p[i + 1].results
    BY DEF Answered
  <2>1. PICK j \in 1 .. Len(q) : c \in q[j].results
    BY <1>1, <1>7
  <2>2. c \in q[i].calls /\ i \notin Summary /\ j \notin Summary
    BY <1>1, <1>6, <1>7, <2>1
  <2>3. Src(i) \in 1 .. Len(s) /\ c \in s[Src(i)].calls /\ Src(j) \in 1 .. Len(s) /\ c \in s[Src(j)].results
    BY <1>1, <1>3, <2>1, <2>2
  <2>4. Src(i) < Len(s) /\ c \in s[Src(i) + 1].results
    BY <2>3 DEF Conversation, Answered
  <2>5. Src(i) + 1 \in 1 .. Len(s)
    BY SMTT(30), <1>1, <2>3, <2>4
  <2>6. Src(j) = Src(i) + 1
    BY <2>3, <2>4, <2>5 DEF Conversation, Once
  <2>7. j = i + 1
    BY <1>1, <1>4, <2>2, <2>6
  <2>8. c \in p[j].results
    BY <1>1, <1>7, <2>1, <2>2
  <2> QED
    BY <1>1, <1>2, <2>7, <2>8
<1>11. Begins(p, cut)
  <2> SUFFICES ASSUME ~cut PROVE p[1].role = "user" /\ p[1].results = {}
    BY DEF Begins
  <2>1. 1 \in 1 .. Len(q)
    BY <1>1, <1>2
  <2>2. q[1].role = "user" /\ q[1].results = {}
    <3>1. CASE head = 0
      BY <3>1, TextsOf DEF Joined, IsText
    <3>2. CASE head # 0
      <4>1. q[1] = s[1] /\ s # << >>
        BY <1>1, <3>2 DEF Joined
      <4> QED
        BY <4>1 DEF Conversation, Begins
    <3> QED
      BY <3>1, <3>2
  <2> QED
    BY <1>7, <2>1, <2>2
<1>12. ASSUME tail < Len(s), EndsWithOwn(s) PROVE EndsWithOwn(p)
  <2>1. Len(q) \in (head + 3) .. Len(q) /\ Len(q) - head - 2 + tail = Len(s) /\ Len(q) \in 1 .. Len(q)
    BY <1>1, <1>2, <1>12
  <2>2. q[Len(q)] = s[Len(s)]
    BY <2>1 DEF Joined
  <2>3. s[Len(s)].own /\ s[Len(s)].role = "user" /\ s[Len(s)].calls = {} /\ s[Len(s)].results = {}
    BY <1>12 DEF EndsWithOwn, IsText
  <2>4. PICK k \in 1 .. Len(q) : k = Len(q) /\ k = Len(p)
    BY <1>1, <2>1
  <2>5. q[k].own /\ q[k].role = "user" /\ q[k].calls = {} /\ q[k].results = {}
    BY <2>2, <2>3, <2>4
  <2>6. p[k].own /\ p[k].role = "user"
    BY <1>7, <2>5
  <2>7. p[k].calls = {}
    BY <1>7, <2>5
  <2>8. p[k].results = {}
    BY <1>7, <2>5
  <2> QED
    BY <1>2, <2>4, <2>6, <2>7, <2>8 DEF EndsWithOwn, IsText
<1>13. ASSUME tail = Len(s)
       PROVE  p[Len(p)].role = "assistant" /\ p[Len(p) - 1].role = "user" /\ IsText(p[Len(p) - 1])
  <2>1. Len(p) = head + 2 /\ Len(p) - 1 = head + 1 /\ head + 2 \in 1 .. Len(q) /\ head + 1 \in 1 .. Len(q)
    BY <1>1, <1>13
  <2>2. q[head + 1] = Other /\ q[head + 2] = Said
    BY DEF Joined
  <2>3. p[head + 2].role = "assistant" /\ p[head + 1].role = "user"
    BY <1>7, <2>1, <2>2, TextsOf
  <2>4. IsText(p[head + 1])
    BY <1>7, <2>1, <2>2, TextsOf DEF IsText
  <2> QED
    BY <2>1, <2>3, <2>4
<1> QED
  BY <1>1, <1>2, <1>8, <1>9, <1>10, <1>11, <1>12, <1>13

-----------------------------------------------------------------------------
(* Compaction *)

\* What the runs of a sequence keep of its messages.
LEMMA RunsMessages ==
  ASSUME NEW p \in Seq(Message), NEW r, NEW o, Runs(r, p, Len(p), o)
  PROVE  /\ r \in Seq(Message) /\ Len(r) \in Nat /\ Len(p) \in Nat
         /\ \A k \in 1 .. Len(r) : k \in 0 .. Len(r) /\ k - 1 \in 0 .. Len(r) /\ r[k] \in Message
         /\ \A k \in 1 .. Len(r) : o[k] \in 1 .. Len(p) /\ r[k].role = p[o[k]].role
         /\ \A k \in 1 .. Len(r) : ~IsText(r[k]) => r[k] = p[o[k]] /\ o[k] = o[k - 1] + 1
         /\ \A k, l \in 0 .. Len(r) : o[k] = o[l] => k = l
         /\ \A k \in 2 .. Len(r) : r[k].role # r[k - 1].role
<1>1. r \in Seq(Message) /\ Len(r) \in Nat /\ Len(p) \in Nat /\ o \in [0 .. Len(r) -> 0 .. Len(p)] /\ o[0] = 0
  BY DEF Runs
<1>2. \A k \in 1 .. Len(r) :
        k \in 0 .. Len(r) /\ k - 1 \in 0 .. Len(r) /\ 0 \in 0 .. Len(r) /\ 0 < k /\ r[k] \in Message
  BY <1>1
<1>3. \A k \in 1 .. Len(r) : MergedInto(r[k], p, o[k - 1], o[k])
  BY DEF Runs
<1>4. \A k, l \in 0 .. Len(r) : k < l => o[k] < o[l]
  BY DEF Runs
<1>5. \A k \in 1 .. Len(r) : o[k] \in 1 .. Len(p)
  <2> TAKE k \in 1 .. Len(r)
  <2>1. o[0] < o[k] /\ o[k] \in 0 .. Len(p)
    BY <1>1, <1>2, <1>4
  <2> QED
    BY <1>1, <2>1
<1>6. \A k, l \in 0 .. Len(r) : o[k] = o[l] => k = l
  <2> SUFFICES ASSUME NEW k \in 0 .. Len(r), NEW l \in 0 .. Len(r), o[k] = o[l], k # l PROVE FALSE
    OBVIOUS
  <2>1. o[k] \in Nat /\ o[l] \in Nat
    BY <1>1
  <2>2. k < l \/ l < k
    BY <1>1
  <2> QED
    BY <1>4, <2>1, <2>2
<1>7. \A k \in 1 .. Len(r) :
        r[k].role = p[o[k]].role /\ (~IsText(r[k]) => r[k] = p[o[k]] /\ o[k] = o[k - 1] + 1)
  BY <1>3 DEF MergedInto
<1>8. \A k \in 2 .. Len(r) : r[k].role # r[k - 1].role
  BY DEF Runs
<1> QED
  BY <1>1, <1>2, <1>5, <1>6, <1>7, <1>8

\* f is the first messages of r.
BeginsRun(f, r) ==
  f \in Seq(Message) /\ Len(f) \in Nat /\ Len(f) <= Len(r) /\ \A i \in 1 .. Len(f) : f[i] = r[i]

\* Merged messages are a conversation: calls and results that became text are in no
\* one's way, as the results that were lost are counted as flattened.
LEMMA RunsKeep ==
  ASSUME NEW p \in Seq(Message), NEW n \in Nat, NEW F, NEW cut \in BOOLEAN,
         Roles(p), Once(p, n), Answered(p, F), Begins(p, cut), Len(p) > 0,
         NEW r, NEW o, Runs(r, p, Len(p), o), NEW f, BeginsRun(f, r)
  PROVE  Conversation(f, n, F \cup (Results(p) \ Results(f)), cut)
<1>1. /\ r \in Seq(Message) /\ Len(r) \in Nat /\ Len(p) \in Nat
      /\ \A k \in 1 .. Len(r) : k \in 0 .. Len(r) /\ k - 1 \in 0 .. Len(r) /\ r[k] \in Message
      /\ \A k \in 1 .. Len(r) : o[k] \in 1 .. Len(p) /\ r[k].role = p[o[k]].role
      /\ \A k \in 1 .. Len(r) : ~IsText(r[k]) => r[k] = p[o[k]] /\ o[k] = o[k - 1] + 1
      /\ \A k, l \in 0 .. Len(r) : o[k] = o[l] => k = l
      /\ \A k \in 2 .. Len(r) : r[k].role # r[k - 1].role
  BY RunsMessages
<1>2. /\ f \in Seq(Message) /\ Len(f) \in Nat /\ Len(f) <= Len(r)
      /\ \A i \in 1 .. Len(f) : i \in 1 .. Len(r) /\ f[i] = r[i] /\ f[i] \in Message
  BY <1>1 DEF BeginsRun
<1>3. \A i \in 1 .. Len(f) : f[i].calls # {} \/ f[i].results # {} =>
         f[i] = p[o[i]] /\ o[i] = o[i - 1] + 1 /\ o[i] \in 1 .. Len(p)
  BY <1>1, <1>2 DEF IsText
<1>4. Roles(f)
  <2> SUFFICES ASSUME NEW i \in 1 .. Len(f)
               PROVE  /\ f[i].calls # {} => f[i].role = "assistant"
                      /\ (f[i].results # {} => f[i].role = "user")
    BY DEF Roles
  <2>1. CASE f[i].calls # {} \/ f[i].results # {}
    <3>1. f[i] = p[o[i]] /\ o[i] \in 1 .. Len(p)
      BY <1>3, <2>1
    <3> QED
      BY <3>1 DEF Roles
  <2> QED
    BY <2>1
<1>5. Follows(f)
  <2> SUFFICES ASSUME NEW i \in 2 .. Len(f), f[i].results # {} PROVE f[i - 1].role = "assistant"
    BY DEF Follows
  <2>1. i \in 1 .. Len(f) /\ i - 1 \in 1 .. Len(f) /\ i \in 2 .. Len(r)
    BY <1>1, <1>2
  <2>2. f[i].role = "user"
    BY <1>4, <2>1 DEF Roles
  <2>3. f[i].role # f[i - 1].role /\ f[i - 1] \in Message
    BY <1>1, <1>2, <2>1
  <2> QED
    BY <2>2, <2>3 DEF Message
<1>6. Once(f, n)
  <2> SUFFICES ASSUME NEW i \in 1 .. Len(f), NEW c \in f[i].results, c > 0
               PROVE  c <= n /\ \A j \in 1 .. Len(f) : c \in f[j].results => i = j
    BY DEF Once
  <2>1. o[i] \in 1 .. Len(p) /\ c \in p[o[i]].results
    BY <1>3
  <2>2. c <= n /\ \A j \in 1 .. Len(p) : c \in p[j].results => o[i] = j
    BY <2>1 DEF Once
  <2>3. ASSUME NEW j \in 1 .. Len(f), c \in f[j].results PROVE i = j
    <3>1. o[j] \in 1 .. Len(p) /\ c \in p[o[j]].results
      BY <1>3, <2>3
    <3>2. o[i] = o[j] /\ i \in 0 .. Len(r) /\ j \in 0 .. Len(r)
      BY <1>1, <1>2, <2>2, <3>1
    <3> QED
      BY <1>1, <3>2
  <2> QED
    BY <2>2, <2>3
<1>7. Answered(f, F \cup (Results(p) \ Results(f)))
  <2> SUFFICES ASSUME NEW i \in 1 .. Len(f), NEW c \in f[i].calls, c > 0,
                      c \notin F, c \notin Results(p) \/ c \in Results(f)
               PROVE  i < Len(f) /\ c \in f[i + 1].results
    BY DEF Answered
  <2>1. o[i] \in 1 .. Len(p) /\ c \in p[o[i]].calls
    BY <1>3
  <2>2. o[i] < Len(p) /\ c \in p[o[i] + 1].results
    BY <2>1 DEF Answered
  <2>3. o[i] + 1 \in 1 .. Len(p)
    BY <1>1, <2>1, <2>2
  <2>4. DOMAIN p = 1 .. Len(p) /\ DOMAIN f = 1 .. Len(f)
    BY <1>2
  <2>5. c \in Results(p)
    BY <2>2, <2>3, <2>4 DEF Results
  <2>6. PICK j \in 1 .. Len(f) : c \in f[j].results
    BY <2>4, <2>5 DEF Results
  <2>7. o[j] \in 1 .. Len(p) /\ c \in p[o[j]].results /\ o[j] = o[j - 1] + 1
    BY <1>3, <2>6
  <2>8. o[i] + 1 = o[j]
    BY <2>1, <2>2, <2>3, <2>7 DEF Once
  <2>9. i \in 0 .. Len(r) /\ j - 1 \in 0 .. Len(r)
    BY <1>1, <1>2
  <2>10. o[j - 1] = o[i]
    <3>1. o \in [0 .. Len(r) -> 0 .. Len(p)]
      BY DEF Runs
    <3>2. o[j - 1] \in 0 .. Len(p) /\ o[i] \in 0 .. Len(p)
      BY <2>9, <3>1
    <3> QED
      BY <1>1, <2>7, <2>8, <3>2
  <2>11. j - 1 = i
    BY <1>1, <2>9, <2>10
  <2>12. j = i + 1 /\ i < Len(f)
    BY <1>2, <2>11
  <2> QED
    BY <2>6, <2>12
<1>8. Begins(f, cut)
  <2> SUFFICES ASSUME f # << >>, ~cut PROVE f[1].role = "user" /\ f[1].results = {}
    BY DEF Begins
  <2>1. 1 \in 1 .. Len(f) /\ p # << >>
    BY <1>1, <1>2
  <2>2. p[1].role = "user" /\ p[1].results = {}
    BY <2>1 DEF Begins
  <2>3. f[1].role = "user"
    BY <1>1, <1>2, <2>1, <2>2 DEF Runs
  <2>4. ASSUME f[1].results # {} PROVE FALSE
    <3>1. f[1] = p[o[1]] /\ o[1] = o[1 - 1] + 1
      BY <1>3, <2>1, <2>4
    <3>2. o[1 - 1] = 0
      BY DEF Runs
    <3> QED
      BY <2>2, <2>4, <3>1, <3>2
  <2> QED
    BY <2>3, <2>4
<1> QED
  BY <1>4, <1>5, <1>6, <1>7, <1>8 DEF Conversation

\* The last message, once it is the user's, is a text.
LEMMA RunsEnd ==
  ASSUME NEW p \in Seq(Message), Len(p) >= 2, NEW r, NEW o, Runs(r, p, Len(p), o),
         \/ EndsWithOwn(p)
         \/ p[Len(p)].role = "assistant" /\ p[Len(p) - 1].role = "user" /\ IsText(p[Len(p) - 1])
  PROVE  /\ BeginsRun(UserLast(r), r) /\ EndsWithUser(UserLast(r))
         /\ EndsWithOwn(p) => OwnKept(UserLast(r))
<1>1. /\ r \in Seq(Message) /\ Len(r) \in Nat /\ Len(p) \in Nat
      /\ o \in [0 .. Len(r) -> 0 .. Len(p)] /\ o[0] = 0 /\ o[Len(r)] = Len(p)
      /\ \A k \in 1 .. Len(r) : MergedInto(r[k], p, o[k - 1], o[k])
  BY DEF Runs
<1>2. Len(r) > 0 /\ Len(r) \in 1 .. Len(r) /\ r # << >> /\ Last(r) = r[Len(r)]
  BY <1>1 DEF Last
<1>3. MergedInto(r[Len(r)], p, o[Len(r) - 1], Len(p))
  BY <1>1, <1>2
<1>4. CASE EndsWithOwn(p)
  <2>1. p[Len(p)].own /\ p[Len(p)].role = "user" /\ IsText(p[Len(p)])
    BY <1>4 DEF EndsWithOwn
  <2>2. r[Len(r)].own /\ r[Len(r)].role = "user" /\ IsText(r[Len(r)])
    BY <1>3, <2>1 DEF MergedInto
  <2>3. UserLast(r) = r
    BY <1>2, <2>2 DEF UserLast
  <2>4. r[Len(r)].results = {}
    BY <2>2 DEF IsText
  <2> QED
    BY <1>1, <1>2, <2>2, <2>3, <2>4 DEF BeginsRun, EndsWithUser, OwnKept
<1>5. CASE ~EndsWithOwn(p)
  <2>1. p[Len(p)].role = "assistant" /\ p[Len(p) - 1].role = "user" /\ IsText(p[Len(p) - 1])
    BY <1>5
  <2>2. r[Len(r)].role = "assistant" /\ Len(p) = o[Len(r) - 1] + 1
    BY <1>3, <2>1 DEF MergedInto
  <2>3. UserLast(r) = Front(r)
    BY <1>2, <2>2 DEF UserLast
  <2>4. PICK k \in Nat : k = Len(r) - 1
    <3>1. Len(r) - 1 \in Nat
      BY <1>1, <1>2
    <3> QED
      BY <3>1
  <2>5. o[k] \in Nat /\ o[k] = Len(p) - 1
    BY <1>1, <2>2, <2>4
  <2>6. k # 0 /\ k \in 1 .. Len(r)
    BY <1>1, <2>4, <2>5
  <2>7. MergedInto(r[k], p, o[k - 1], Len(p) - 1)
    BY <1>1, <2>5, <2>6
  <2>8. r[k].role = "user" /\ IsText(r[k])
    BY <2>1, <2>7 DEF MergedInto
  <2>9. /\ Front(r) \in Seq(Message) /\ Len(Front(r)) = k
        /\ \A i \in 1 .. k : Front(r)[i] = r[i]
    BY <1>1, <1>2, <2>4, FrontOf
  <2>10. Front(r)[k] = r[k] /\ Front(r) # << >>
    BY <2>6, <2>9
  <2> QED
    BY <1>1, <1>5, <2>3, <2>4, <2>6, <2>8, <2>9, <2>10 DEF BeginsRun, EndsWithUser, IsText
<1> QED
  BY <1>4, <1>5

\* Compaction to a head, the summary and a tail.
LEMMA CompactKeeps ==
  ASSUME NEW s \in Seq(Message), NEW head \in Nat, NEW tail \in Nat, head < tail, tail <= Len(s),
         NEW n \in Nat, NEW F, NEW cut \in BOOLEAN, Conversation(s, n, F, cut), EndsWithOwn(s)
  PROVE  LET p == Paired(s, head, tail)
             f == UserLast(Alternating(p)) IN
         /\ p \in Seq(Message) /\ f \in Seq(Message)
         /\ Conversation(f, n, F \cup (Results(p) \ Results(f)), cut)
         /\ EndsWithUser(f) /\ (tail # Len(s) => OwnKept(f))
<1> DEFINE q == SubSeq(s, 1, head) \o <<Other, Said>> \o SubSeq(s, tail + 1, Len(s))
           p == Paired(s, head, tail)
           r == Alternating(p)
           f == UserLast(r)
<1>1. Joined(q, s, head, tail)
  BY JoinedParts
<1>2. p = SanitizePairs(q)
  BY DEF Paired
<1> HIDE DEF q
<1>3. Sanitizes(p, q)
  BY <1>1, <1>2, SanitizePairsOf DEF Joined
<1> HIDE DEF p
<1>4. /\ p \in Seq(Message) /\ Len(p) \in Nat /\ Len(p) >= 2
      /\ Roles(p) /\ Once(p, n) /\ Answered(p, F) /\ Begins(p, cut)
      /\ tail < Len(s) /\ EndsWithOwn(s) => EndsWithOwn(p)
      /\ tail = Len(s) => p[Len(p)].role = "assistant" /\ p[Len(p) - 1].role = "user" /\ IsText(p[Len(p) - 1])
  BY <1>1, <1>3, PairedKeeps
<1>5. PICK o : Runs(r, p, Len(p), o)
  BY <1>4, AlternatingRuns
<1> HIDE DEF r
<1>6. tail < Len(s) \/ tail = Len(s)
  <2>1. Len(s) \in Nat
    OBVIOUS
  <2> QED
    BY <2>1
<1>7. /\ BeginsRun(f, r) /\ EndsWithUser(f)
      /\ EndsWithOwn(p) => OwnKept(f)
  BY <1>4, <1>5, <1>6, RunsEnd
<1> HIDE DEF f
<1>8. Conversation(f, n, F \cup (Results(p) \ Results(f)), cut)
  BY <1>4, <1>5, <1>7, RunsKeep
<1>9. f \in Seq(Message) /\ (tail # Len(s) => OwnKept(f))
  BY <1>4, <1>6, <1>7 DEF BeginsRun
<1> QED
  BY <1>4, <1>7, <1>8, <1>9 DEF f, r, p

\* Compaction to the tail alone.
LEMMA CutKeeps ==
  ASSUME NEW s \in Seq(Message), NEW tail \in Nat, tail <= Len(s),
         NEW n \in Nat, NEW F, NEW cut \in BOOLEAN, Conversation(s, n, F, cut), EndsWithOwn(s)
  PROVE  LET f == SubSeq(s, tail + 1, Len(s)) IN
         f \in Seq(Message) /\ Conversation(f, n, F, TRUE) /\ (tail # Len(s) => OwnKept(f))
<1> DEFINE f == SubSeq(s, tail + 1, Len(s))
<1>1. /\ f \in Seq(Message) /\ Len(f) = Len(s) - tail /\ Len(s) \in Nat /\ Len(f) \in Nat
      /\ \A i \in 1 .. Len(f) : i + tail \in 1 .. Len(s) /\ f[i] = s[i + tail]
  <2>1. Len(s) \in Nat /\ tail + 1 \in Nat \ {0} /\ Len(s) <= Len(s) /\ tail + 1 <= Len(s) + 1
    OBVIOUS
  <2>2. /\ f \in Seq(Message) /\ Len(f) = Len(s) - (tail + 1) + 1
        /\ \A i \in 1 .. (Len(s) - (tail + 1) + 1) : f[i] = s[(tail + 1) + i - 1]
    BY <2>1, Part
  <2> HIDE DEF f
  <2>3. Len(f) = Len(s) - tail
    BY <2>1, <2>2
  <2>4. \A i \in 1 .. Len(f) : (tail + 1) + i - 1 = i + tail /\ i + tail \in 1 .. Len(s)
    BY <2>1, <2>3
  <2> QED
    BY <2>1, <2>2, <2>3, <2>4
<1> HIDE DEF f
<1>2. Roles(f)
  BY <1>1 DEF Conversation, Roles
<1>3. Follows(f)
  <2> SUFFICES ASSUME NEW i \in 2 .. Len(f), f[i].results # {} PROVE f[i - 1].role = "assistant"
    BY DEF Follows
  <2>1. /\ i \in 1 .. Len(f) /\ i - 1 \in 1 .. Len(f)
        /\ (i - 1) + tail = (i + tail) - 1 /\ i + tail \in 2 .. Len(s)
    BY <1>1
  <2>2. s[(i + tail) - 1].role = "assistant"
    BY <1>1, <2>1 DEF Conversation, Follows
  <2> QED
    BY <1>1, <2>1, <2>2
<1>4. Once(f, n)
  <2> SUFFICES ASSUME NEW i \in 1 .. Len(f), NEW c \in f[i].results, c > 0
               PROVE  c <= n /\ \A j \in 1 .. Len(f) : c \in f[j].results => i = j
    BY DEF Once
  <2>1. c <= n /\ \A j \in 1 .. Len(s) : c \in s[j].results => i + tail = j
    BY <1>1 DEF Conversation, Once
  <2>2. ASSUME NEW j \in 1 .. Len(f), c \in f[j].results PROVE i = j
    <3>1. i + tail = j + tail
      BY <1>1, <2>1, <2>2
    <3> QED
      BY <3>1
  <2> QED
    BY <2>1, <2>2
<1>5. Answered(f, F)
  <2> SUFFICES ASSUME NEW i \in 1 .. Len(f), NEW c \in f[i].calls, c > 0, c \notin F
               PROVE  i < Len(f) /\ c \in f[i + 1].results
    BY DEF Answered
  <2>1. i + tail < Len(s) /\ c \in s[(i + tail) + 1].results
    BY <1>1 DEF Conversation, Answered
  <2>2. i < Len(f) /\ i + 1 \in 1 .. Len(f) /\ (i + tail) + 1 = (i + 1) + tail
    BY <1>1, <2>1
  <2> QED
    BY <1>1, <2>1, <2>2
<1>6. tail # Len(s) => OwnKept(f)
  <2> SUFFICES ASSUME tail # Len(s) PROVE OwnKept(f)
    OBVIOUS
  <2>1. Len(f) \in 1 .. Len(f) /\ Len(f) + tail = Len(s)
    BY <1>1
  <2>2. f[Len(f)] = s[Len(s)]
    BY <1>1, <2>1
  <2> QED
    BY <2>1, <2>2 DEF EndsWithOwn, OwnKept, IsText
<1> QED
  BY <1>1, <1>2, <1>3, <1>4, <1>5, <1>6 DEF Conversation, Begins, f

-----------------------------------------------------------------------------
(* The steps *)

\* A conversation stays one when more calls were named, results flattened, or it was cut.
LEMMA Weaker ==
  ASSUME NEW s \in Seq(Message), NEW n \in Nat, NEW F, NEW cut \in BOOLEAN, Conversation(s, n, F, cut),
         NEW n2 \in Nat, n <= n2, NEW F2, F \subseteq F2, NEW cut2 \in BOOLEAN, cut => cut2
  PROVE  Conversation(s, n2, F2, cut2)
<1>1. Len(s) \in Nat /\ \A i \in 1 .. Len(s) : s[i] \in Message
  OBVIOUS
<1>2. Ids \subseteq Int
  BY LoopAssumption DEF Ids
<1>3. Once(s, n2)
  <2> SUFFICES ASSUME NEW i \in 1 .. Len(s), NEW c \in s[i].results, c > 0
               PROVE  c <= n2 /\ \A j \in 1 .. Len(s) : c \in s[j].results => i = j
    BY DEF Once
  <2>1. c \in Int
    BY <1>1, <1>2 DEF Message
  <2>2. c <= n /\ \A j \in 1 .. Len(s) : c \in s[j].results => i = j
    BY DEF Conversation, Once
  <2> QED
    BY <2>1, <2>2
<1>4. Answered(s, F2)
  BY DEF Conversation, Answered
<1> QED
  BY <1>3, <1>4 DEF Conversation, Begins

\* The turn's own message at the end is one that is sent.
LEMMA OwnEnds ==
  ASSUME NEW s \in Seq(Message), EndsWithOwn(s)
  PROVE  EndsWithUser(s) /\ OwnKept(s)
<1>1. Len(s) \in Nat /\ s # << >> /\ Len(s) \in 1 .. Len(s)
  BY DEF EndsWithOwn
<1> QED
  BY <1>1 DEF EndsWithOwn, EndsWithUser, OwnKept, IsText

\* A pair of messages at the end: the assistant's with calls, and the user's with
\* their results.
LEMMA ExchangeKeeps ==
  ASSUME NEW s \in Seq(Message), NEW a \in Message, NEW b \in Message, NEW ids,
         a.role = "assistant", a.calls = ids, a.results = {},
         b.role = "user", b.calls = {}, b.results = ids,
         NEW n \in Nat, NEW F, NEW cut \in BOOLEAN, Conversation(s, n, F, cut), s # << >> \/ cut,
         NEW n2 \in Nat, n <= n2, \A c \in ids : c \in Int /\ (c > 0 => n < c /\ c <= n2)
  PROVE  /\ s \o <<a, b>> \in Seq(Message) /\ Conversation(s \o <<a, b>>, n2, F, cut)
         /\ EndsWithUser(s \o <<a, b>>) /\ (OwnKept(s) => OwnKept(s \o <<a, b>>))
<1> DEFINE t == <<a, b>>
           r == s \o t
<1>1. t \in Seq(Message) /\ Len(t) = 2 /\ t[1] = a /\ t[2] = b
  OBVIOUS
<1> HIDE DEF t
<1>2. IsJoin(r, s, t)
  BY <1>1, Joins
<1> HIDE DEF r
<1>3. Len(s) \in Nat /\ \A i \in 1 .. Len(s) : s[i] \in Message
  OBVIOUS
<1>4. /\ r \in Seq(Message) /\ Len(r) = Len(s) + 2
      /\ (\A i \in 1 .. Len(s) : r[i] = s[i]) /\ r[Len(s) + 1] = a /\ r[Len(s) + 2] = b
  BY <1>1, <1>2 DEF IsJoin
<1>5. \A i \in 1 .. Len(r) : i \in 1 .. Len(s) \/ i = Len(s) + 1 \/ i = Len(s) + 2
  BY <1>3, <1>4
<1>6. Roles(r)
  BY <1>4, <1>5 DEF Conversation, Roles
<1>7. Follows(r)
  <2> SUFFICES ASSUME NEW i \in 2 .. Len(r), r[i].results # {} PROVE r[i - 1].role = "assistant"
    BY DEF Follows
  <2>1. CASE i \in 1 .. Len(s)
    <3>1. i \in 2 .. Len(s) /\ i - 1 \in 1 .. Len(s)
      BY <1>3, <2>1
    <3> QED
      BY <1>4, <2>1, <3>1 DEF Conversation, Follows
  <2>2. CASE i = Len(s) + 1
    BY <1>4, <2>2
  <2>3. CASE i = Len(s) + 2
    BY <1>3, <1>4, <2>3
  <2> QED
    BY <1>3, <1>4, <2>1, <2>2, <2>3
<1>8. Ids \subseteq Int
  BY LoopAssumption DEF Ids
<1>9. \A i \in 1 .. Len(s) : \A c \in s[i].results : c \in Int
  BY <1>3, <1>8 DEF Message
<1>10. Once(r, n2)
  <2> SUFFICES ASSUME NEW i \in 1 .. Len(r), NEW c \in r[i].results, c > 0
               PROVE  c <= n2 /\ \A j \in 1 .. Len(r) : c \in r[j].results => i = j
    BY DEF Once
  <2>1. CASE i \in 1 .. Len(s)
    <3>1. c \in Int /\ c <= n /\ \A j \in 1 .. Len(s) : c \in s[j].results => i = j
      BY <1>4, <1>9, <2>1 DEF Conversation, Once
    <3>2. c \notin ids
      BY <3>1
    <3>3. \A j \in 1 .. Len(r) : c \in r[j].results => i = j
      BY <1>4, <1>5, <3>1, <3>2
    <3> QED
      BY <3>1, <3>3
  <2>2. CASE i = Len(s) + 1
    BY <1>4, <2>2
  <2>3. CASE i = Len(s) + 2
    <3>1. c \in ids
      BY <1>4, <2>3
    <3>2. c \in Int /\ n < c /\ c <= n2
      BY <3>1
    <3>3. ASSUME NEW j \in 1 .. Len(s), c \in r[j].results PROVE FALSE
      <4>1. c \in s[j].results
        BY <1>4, <3>3
      <4>2. c <= n
        BY <4>1 DEF Conversation, Once
      <4> QED
        BY <3>2, <4>2
    <3>4. \A j \in 1 .. Len(r) : c \in r[j].results => i = j
      BY <1>4, <1>5, <2>3, <3>3
    <3> QED
      BY <3>2, <3>4
  <2> QED
    BY <1>5, <2>1, <2>2, <2>3
<1>11. Answered(r, F)
  <2> SUFFICES ASSUME NEW i \in 1 .. Len(r), NEW c \in r[i].calls, c > 0, c \notin F
               PROVE  i < Len(r) /\ c \in r[i + 1].results
    BY DEF Answered
  <2>1. CASE i \in 1 .. Len(s)
    <3>1. i < Len(s) /\ c \in s[i + 1].results
      BY <1>4, <2>1 DEF Conversation, Answered
    <3>2. i + 1 \in 1 .. Len(s)
      BY <1>3, <2>1, <3>1
    <3> QED
      BY <1>3, <1>4, <3>1, <3>2
  <2>2. CASE i = Len(s) + 1
    <3>1. i < Len(r) /\ i + 1 = Len(s) + 2 /\ c \in ids
      BY <1>3, <1>4, <2>2
    <3> QED
      BY <1>4, <3>1
  <2>3. CASE i = Len(s) + 2
    BY <1>4, <2>3
  <2> QED
    BY <1>5, <2>1, <2>2, <2>3
<1>12. Begins(r, cut)
  <2> SUFFICES ASSUME ~cut PROVE r[1].role = "user" /\ r[1].results = {}
    BY DEF Begins
  <2>1. s # << >> /\ 1 \in 1 .. Len(s)
    BY <1>3
  <2> QED
    BY <1>4, <2>1 DEF Conversation, Begins
<1>13. EndsWithUser(r)
  <2>1. Len(r) \in Nat /\ r # << >> /\ Len(r) > 1 /\ Len(r) - 1 = Len(s) + 1
    BY <1>3, <1>4
  <2>2. r[Len(r)] = b /\ r[Len(r) - 1] = a
    BY <1>4, <2>1
  <2>3. ids = {} \/ ids \cap ids # {}
    OBVIOUS
  <2> QED
    BY <2>1, <2>2, <2>3 DEF EndsWithUser
<1>14. OwnKept(s) => OwnKept(r)
  <2>1. \A i \in 1 .. Len(s) : i \in 1 .. Len(r)
    BY <1>3, <1>4
  <2> QED
    BY <1>4, <2>1 DEF OwnKept
<1> QED
  BY <1>4, <1>6, <1>7, <1>10, <1>11, <1>12, <1>13, <1>14 DEF Conversation, r, t

\* What a turn starts with is a conversation, and so is what the invariant says then.
LEMMA BeginKeeps ==
  ASSUME IInv, NEW m \in Seq(Message), Conversation(m, issued, flattened, truncated), EndsWithOwn(m),
         Begin(m), session' = session, unseen' \in Nat, turns' \in Nat,
         history' \in Seq(Message), Plain(history')
  PROVE  IInv'
<1>1. /\ msgs' = m /\ pc' \in {"compact", "model"} /\ round' = round /\ streak' = streak
      /\ retried' = retried /\ crowded' = crowded /\ issued' = issued /\ truncated' = truncated
      /\ flattened' = flattened
  BY DEF Begin
<1>2. TypeOK'
  BY <1>1 DEF IInv, TypeOK
<1>3. EndsWithUser(m) /\ OwnKept(m)
  BY OwnEnds
<1>4. Conversation(session, issued, flattened, truncated)
  BY DEF IInv, Turns
<1>5. Turns'
  BY <1>1, <1>3, <1>4 DEF Turns
<1> QED
  BY <1>2, <1>5 DEF IInv

\* The other users' messages, alone and with the turn's own.
LEMMA OthersAre ==
  ASSUME NEW n \in Nat
  PROVE  /\ Others(n) \in Seq(Message)
         /\ \A i \in 1 .. Len(Others(n)) : IsText(Others(n)[i]) /\ Others(n)[i].role = "user"
         /\ Append(Others(n), Own) \in Seq(Message) /\ Append(Others(n), Own) # << >>
         /\ Append(Others(n), Own)[Len(Append(Others(n), Own))].own
         /\ \A i \in 1 .. Len(Append(Others(n), Own)) :
              IsText(Append(Others(n), Own)[i]) /\ Append(Others(n), Own)[i].role = "user"
<1>1. Others(n) \in Seq(Message) /\ Len(Others(n)) = n /\ \A i \in 1 .. n : Others(n)[i] = Other
  BY TextsOf DEF Others
<1> DEFINE t == Others(n)
           r == Append(t, Own)
<1>2. t \in Seq(Message) /\ Len(t) = n /\ \A i \in 1 .. n : t[i] = Other
  BY <1>1
<1> HIDE DEF t
<1>3. r \in Seq(Message) /\ Len(r) = n + 1 /\ r[n + 1] = Own /\ \A i \in 1 .. n : r[i] = Other
  BY <1>2, TextsOf
<1> HIDE DEF r
<1>4. \A i \in 1 .. n : IsText(t[i]) /\ t[i].role = "user"
  BY <1>2, TextsOf
<1>5. \A i \in 1 .. (n + 1) : IsText(r[i]) /\ r[i].role = "user"
  <2> TAKE i \in 1 .. (n + 1)
  <2>1. i \in 1 .. n \/ i = n + 1
    OBVIOUS
  <2> QED
    BY <1>3, <2>1, TextsOf
<1>6. r # << >> /\ r[Len(r)].own
  BY <1>3, TextsOf
<1> QED
  BY <1>2, <1>3, <1>4, <1>5, <1>6 DEF r, t

\* The conversation that a turn loads, of the session or of the history.
LEMMA LoadedKeeps ==
  ASSUME IInv, NEW h \in Seq(Message), Plain(h), NEW new \in Seq(Message),
         \A i \in 1 .. Len(new) : IsText(new[i]) /\ new[i].role = "user"
  PROVE  /\ Loaded(h, new) \in Seq(Message)
         /\ Conversation(Loaded(h, new), issued, flattened, truncated)
         /\ EndsWithOwn(h) /\ new # << >> /\ new[Len(new)].own => EndsWithOwn(Loaded(h, new))
<1>1. issued \in Nat /\ truncated \in BOOLEAN /\ session \in Seq(Message)
  BY DEF IInv, TypeOK
<1>2. CASE session = << >>
  BY <1>1, <1>2, FromHistoryKeeps DEF Loaded
<1>3. CASE session # << >>
  <2> DEFINE r == FoldLeft(AddText, session, new)
  <2>1. Conversation(session, issued, flattened, truncated)
    BY DEF IInv, Turns
  <2>2. /\ r \in Seq(Message) /\ Conversation(r, issued, flattened, truncated)
        /\ new # << >> /\ new[Len(new)].own => EndsWithOwn(r)
    BY <1>1, <2>1, UserTextsKeep
  <2> QED
    BY <1>3, <2>2 DEF Loaded
<1> QED
  BY <1>2, <1>3

\* A message that is received, and a prompt.
LEMMA ReceiveKeeps == ASSUME IInv, Receive PROVE IInv'
<1> DEFINE h == AddText(history, Own)
           new == Append(Others(unseen), Own)
<1>1. history \in Seq(Message) /\ Plain(history) /\ unseen \in Nat /\ turns \in Nat
  BY DEF IInv, TypeOK, Turns
<1>2. h \in Seq(Message) /\ Plain(h) /\ EndsWithOwn(h)
  <2>1. Adds(h, history, Own)
    BY <1>1, TextsOf, AddTextAdds
  <2>2. EndsWithOwn(h)
    BY <2>1, TextsOf DEF Adds, EndsWithOwn
  <2> QED
    BY <1>1, <2>1, <2>2, TextsOf, PlainKept DEF Adds
<1>3. /\ new \in Seq(Message) /\ new # << >> /\ new[Len(new)].own
      /\ \A i \in 1 .. Len(new) : IsText(new[i]) /\ new[i].role = "user"
  BY <1>1, OthersAre
<1>4. session' = session /\ unseen' \in Nat /\ turns' \in Nat
  BY <1>1 DEF Receive
<1>5. history' \in Seq(Message) /\ Plain(history')
  BY <1>1, TextsOf, AddTextType, PlainKept DEF Receive
<1>6. Begin(Loaded(h, new))
  BY DEF Receive
<1> HIDE DEF h, new
<1>7. /\ Loaded(h, new) \in Seq(Message) /\ EndsWithOwn(Loaded(h, new))
      /\ Conversation(Loaded(h, new), issued, flattened, truncated)
  BY <1>2, <1>3, LoadedKeeps
<1> QED
  BY <1>4, <1>5, <1>6, <1>7, BeginKeeps

LEMMA PromptKeeps == ASSUME IInv, Prompt PROVE IInv'
<1> DEFINE new == Others(unseen)
           m == Loaded(history, new)
           r == Append(m, Own)
<1>1. /\ history \in Seq(Message) /\ Plain(history) /\ unseen \in Nat /\ turns \in Nat
      /\ issued \in Nat /\ truncated \in BOOLEAN
  BY DEF IInv, TypeOK, Turns
<1>2. /\ new \in Seq(Message) /\ \A i \in 1 .. Len(new) : IsText(new[i]) /\ new[i].role = "user"
  BY <1>1, OthersAre
<1>3. session' = session /\ unseen' \in Nat /\ turns' \in Nat /\ history' \in Seq(Message) /\ Plain(history')
  BY <1>1 DEF Prompt, stored
<1>4. Begin(r)
  BY DEF Prompt
<1> HIDE DEF new
<1>5. m \in Seq(Message) /\ Conversation(m, issued, flattened, truncated)
  BY <1>1, <1>2, LoadedKeeps
<1> HIDE DEF m
<1>6. r \in Seq(Message) /\ Conversation(r, issued, flattened, truncated)
  BY <1>1, <1>5, TextsOf, AppendKeeps
<1>7. EndsWithOwn(r)
  <2>1. r # << >> /\ r[Len(r)] = Own
    BY <1>5, TextsOf
  <2> QED
    BY <2>1, TextsOf DEF EndsWithOwn
<1> HIDE DEF r
<1> QED
  BY <1>3, <1>4, <1>6, <1>7, BeginKeeps

\* The smaller and the larger of two numbers.
LEMMA OfTwo ==
  ASSUME NEW a \in Nat, NEW b \in Nat
  PROVE  /\ Min({a, b}) \in {a, b} /\ Min({a, b}) <= a /\ Min({a, b}) <= b
         /\ Max({a, b}) \in {a, b} /\ Max({a, b}) >= a /\ Max({a, b}) >= b
<1>1. \E x \in {a, b} : \A y \in {a, b} : x <= y
  OBVIOUS
<1>2. \E x \in {a, b} : \A y \in {a, b} : x >= y
  OBVIOUS
<1>3. Min({a, b}) \in {a, b} /\ \A y \in {a, b} : Min({a, b}) <= y
  BY <1>1 DEF Min
<1>4. Max({a, b}) \in {a, b} /\ \A y \in {a, b} : Max({a, b}) >= y
  BY <1>2 DEF Max
<1> QED
  BY <1>3, <1>4

\* The state of a turn that is over.
LEMMA EndTurned ==
  ASSUME EndTurn
  PROVE  /\ pc' = "idle" /\ msgs' = << >> /\ msgs' \in Seq(Message)
         /\ round' \in 0 .. MaxIterations /\ streak' \in 0 .. MaxStreak
         /\ retried' \in BOOLEAN /\ crowded' \in BOOLEAN
<1>1. MaxIterations \in Nat /\ MaxStreak \in Nat
  <2>1. MaxIterations \in Nat \ {0} /\ MaxStreak \in Nat \ {0}
    BY LoopAssumption
  <2> QED
    BY <2>1
<1>2. pc' = "idle" /\ msgs' = << >> /\ round' = 0 /\ streak' = 0 /\ retried' = FALSE /\ crowded' = FALSE
  BY DEF EndTurn
<1>3. 0 \in 0 .. MaxIterations /\ 0 \in 0 .. MaxStreak
  BY <1>1
<1>4. << >> \in Seq(Message)
  OBVIOUS
<1> QED
  BY <1>2, <1>3, <1>4

\* Results name calls.
LEMMA ResultsAreIds == ASSUME NEW p \in Seq(Message) PROVE Results(p) \subseteq Ids
<1>1. \A i \in DOMAIN p : p[i] \in Message
  OBVIOUS
<1>2. \A i \in DOMAIN p : p[i].results \subseteq Ids
  BY <1>1 DEF Message
<1> QED
  BY <1>2 DEF Results

\* A compaction: not needed, with a summary, to the tail alone, or failed.
LEMMA CompactStep == ASSUME IInv, Compact PROVE IInv'
<1>1. PICK cut \in 0 .. Len(msgs) :
       LET head == Min({ProtectFirst, Len(msgs)})
           tail == Max({cut, head}) IN
       IF Len(msgs) <= KeepRecent \/ tail <= head
         THEN pc' = "model" /\ UNCHANGED <<msgs, round, streak, retried, crowded, truncated, flattened>>
         ELSE \/ LET paired == Paired(msgs, head, tail) IN
                 /\ msgs' = UserLast(Alternating(paired))
                 /\ flattened' = flattened \cup (Results(paired) \ Results(msgs'))
                 /\ crowded' = (tail = Len(msgs))
                 /\ pc' = "model" /\ UNCHANGED <<round, streak, retried, truncated>>
              \/ /\ msgs' = SubSeq(msgs, tail + 1, Len(msgs))
                 /\ crowded' = (tail = Len(msgs)) /\ truncated' = TRUE
                 /\ pc' = "model" /\ UNCHANGED <<round, streak, retried, flattened>>
              \/ EndTurn /\ UNCHANGED <<truncated, flattened>>
  BY DEF Compact
<1> DEFINE head == Min({ProtectFirst, Len(msgs)})
           tail == Max({cut, head})
<1>2. /\ pc = "compact" /\ session' = session /\ history' = history /\ unseen' = unseen
      /\ turns' = turns /\ issued' = issued
  BY DEF Compact, stored
<1>3. /\ session \in Seq(Message) /\ history \in Seq(Message) /\ unseen \in Nat
      /\ turns \in Nat /\ issued \in Nat /\ round \in 0 .. MaxIterations /\ streak \in 0 .. MaxStreak
      /\ msgs \in Seq(Message) /\ Len(msgs) \in Nat
      /\ retried \in BOOLEAN /\ crowded \in BOOLEAN /\ truncated \in BOOLEAN /\ flattened \subseteq Ids
  BY DEF IInv, TypeOK
<1>4. /\ Conversation(session, issued, flattened, truncated) /\ Plain(history)
      /\ Conversation(msgs, issued, flattened, truncated) /\ EndsWithOwn(msgs)
  BY <1>2 DEF IInv, Turns
<1>5. head \in Nat /\ head <= Len(msgs) /\ tail \in Nat /\ tail <= Len(msgs)
  <2>1. ProtectFirst \in Nat /\ cut \in Nat /\ cut <= Len(msgs)
    BY <1>3, LoopAssumption
  <2>2. head \in Nat /\ head <= Len(msgs)
    BY <1>3, <2>1, OfTwo
  <2> HIDE DEF head
  <2>3. tail \in Nat /\ tail <= Len(msgs)
    BY <2>1, <2>2, OfTwo
  <2> QED
    BY <2>2, <2>3
<1> DEFINE Kept    == /\ pc' = "model"
                      /\ UNCHANGED <<msgs, round, streak, retried, crowded, truncated, flattened>>
           paired  == Paired(msgs, head, tail)
           f       == UserLast(Alternating(paired))
           Summed  == /\ msgs' = f
                      /\ flattened' = flattened \cup (Results(paired) \ Results(msgs'))
                      /\ crowded' = (tail = Len(msgs))
                      /\ pc' = "model" /\ UNCHANGED <<round, streak, retried, truncated>>
           Cut     == /\ msgs' = SubSeq(msgs, tail + 1, Len(msgs))
                      /\ crowded' = (tail = Len(msgs)) /\ truncated' = TRUE
                      /\ pc' = "model" /\ UNCHANGED <<round, streak, retried, flattened>>
           Ended   == EndTurn /\ UNCHANGED <<truncated, flattened>>
<1>6. IF Len(msgs) <= KeepRecent \/ tail <= head THEN Kept ELSE Summed \/ Cut \/ Ended
  BY <1>1
<1> HIDE DEF head, tail
<1>7. CASE Kept
  <2>1. EndsWithUser(msgs) /\ OwnKept(msgs)
    BY <1>3, <1>4, OwnEnds
  <2>2. TypeOK'
    BY <1>2, <1>3, <1>7 DEF TypeOK
  <2>3. Turns'
    BY <1>2, <1>4, <1>7, <2>1 DEF Turns
  <2> QED
    BY <2>2, <2>3 DEF IInv
<1>8. CASE ~(tail <= head) /\ Summed
  <2>1. head < tail
    BY <1>5, <1>8
  <2>2. /\ paired \in Seq(Message) /\ f \in Seq(Message)
        /\ Conversation(f, issued, flattened \cup (Results(paired) \ Results(f)), truncated)
        /\ EndsWithUser(f) /\ (tail # Len(msgs) => OwnKept(f))
    BY <1>3, <1>4, <1>5, <2>1, CompactKeeps
  <2> HIDE DEF paired, f
  <2>3. Results(paired) \subseteq Ids
    BY <2>2, ResultsAreIds
  <2>4. msgs' = f /\ flattened' = flattened \cup (Results(paired) \ Results(f))
    BY <1>8
  <2>5. TypeOK'
    BY <1>2, <1>3, <1>8, <2>2, <2>3, <2>4 DEF TypeOK
  <2>6. Conversation(session, issued, flattened', truncated)
    BY <1>3, <1>4, <2>4, Weaker
  <2>7. Turns'
    BY <1>2, <1>4, <1>8, <2>2, <2>4, <2>6 DEF Turns
  <2> QED
    BY <2>5, <2>7 DEF IInv
<1>9. CASE ~(tail <= head) /\ Cut
  <2> DEFINE t == SubSeq(msgs, tail + 1, Len(msgs))
  <2>1. t \in Seq(Message) /\ Conversation(t, issued, flattened, TRUE) /\ (tail # Len(msgs) => OwnKept(t))
    BY <1>3, <1>4, <1>5, CutKeeps
  <2>2. msgs' = t /\ flattened' = flattened /\ truncated' = TRUE
    BY <1>9
  <2> HIDE DEF t
  <2>3. TypeOK'
    BY <1>2, <1>3, <1>9, <2>1, <2>2 DEF TypeOK
  <2>4. Conversation(session, issued, flattened, TRUE)
    BY <1>4 DEF Conversation, Begins
  <2>5. Turns'
    BY <1>2, <1>4, <1>9, <2>1, <2>2, <2>4 DEF Turns
  <2> QED
    BY <2>3, <2>5 DEF IInv
<1>10. CASE Ended
  <2>1. TypeOK'
    BY <1>2, <1>3, <1>10, EndTurned DEF TypeOK
  <2>2. Turns'
    BY <1>2, <1>4, <1>10, EndTurned DEF Turns
  <2> QED
    BY <2>1, <2>2 DEF IInv
<1> QED
  BY <1>6, <1>7, <1>8, <1>9, <1>10

\* What is stored of a conversation differs in what its texts are for.
LEMMA StoredKeeps ==
  ASSUME NEW m \in Seq(Message), NEW n \in Nat, NEW F, NEW cut \in BOOLEAN, Conversation(m, n, F, cut)
  PROVE  /\ [i \in DOMAIN m |-> [m[i] EXCEPT !.own = FALSE]] \in Seq(Message)
         /\ Conversation([i \in DOMAIN m |-> [m[i] EXCEPT !.own = FALSE]], n, F, cut)
<1> DEFINE e(i) == [m[i] EXCEPT !.own = FALSE]
           r == [i \in DOMAIN m |-> e(i)]
<1>1. DOMAIN m = 1 .. Len(m) /\ Len(m) \in Nat /\ \A i \in 1 .. Len(m) : m[i] \in Message
  OBVIOUS
<1>2. \A i \in 1 .. Len(m) : /\ e(i) \in Message /\ e(i).role = m[i].role
                             /\ e(i).calls = m[i].calls /\ e(i).results = m[i].results
  BY <1>1 DEF Message
<1> HIDE DEF e
<1>3. r \in Seq(Message) /\ Len(r) = Len(m) /\ \A i \in 1 .. Len(m) : r[i] = e(i)
  BY <1>1, <1>2
<1>4. \A i \in 1 .. Len(m) : r[i].role = m[i].role /\ r[i].calls = m[i].calls /\ r[i].results = m[i].results
  BY <1>2, <1>3
<1> HIDE DEF r
<1>5. Roles(r)
  BY <1>3, <1>4 DEF Conversation, Roles
<1>6. Follows(r)
  <2> SUFFICES ASSUME NEW i \in 2 .. Len(r), r[i].results # {} PROVE r[i - 1].role = "assistant"
    BY DEF Follows
  <2>1. i \in 1 .. Len(m) /\ i - 1 \in 1 .. Len(m) /\ i \in 2 .. Len(m)
    BY <1>1, <1>3
  <2> QED
    BY <1>4, <2>1 DEF Conversation, Follows
<1>7. Once(r, n)
  BY <1>3, <1>4 DEF Conversation, Once
<1>8. Answered(r, F)
  <2> SUFFICES ASSUME NEW i \in 1 .. Len(r), NEW c \in r[i].calls, c > 0, c \notin F
               PROVE  i < Len(r) /\ c \in r[i + 1].results
    BY DEF Answered
  <2>1. i < Len(m) /\ c \in m[i + 1].results
    BY <1>3, <1>4 DEF Conversation, Answered
  <2>2. i + 1 \in 1 .. Len(m)
    BY <1>1, <1>3, <2>1
  <2> QED
    BY <1>3, <1>4, <2>1, <2>2
<1>9. Begins(r, cut)
  <2> SUFFICES ASSUME r # << >>, ~cut PROVE r[1].role = "user" /\ r[1].results = {}
    BY DEF Begins
  <2>1. 1 \in 1 .. Len(m) /\ m # << >>
    BY <1>1, <1>3
  <2> QED
    BY <1>4, <2>1 DEF Conversation, Begins
<1> QED
  BY <1>3, <1>5, <1>6, <1>7, <1>8, <1>9 DEF Conversation, r, e

\* The reply in the history.
LEMMA SaidKeeps ==
  ASSUME IInv, history' = IF session = << >> THEN AddText(history, Said) ELSE history
  PROVE  history' \in Seq(Message) /\ Plain(history')
<1>1. history \in Seq(Message) /\ Plain(history)
  BY DEF IInv, TypeOK, Turns
<1> QED
  BY <1>1, TextsOf, AddTextType, PlainKept

\* The end of a turn, from what it stores.
LEMMA EndKeeps ==
  ASSUME IInv, EndTurn, turns' = turns, truncated' = truncated, flattened' = flattened,
         issued' \in Nat, session' \in Seq(Message),
         Conversation(session', issued', flattened, truncated),
         history' \in Seq(Message), Plain(history'), unseen' \in Nat
  PROVE  IInv'
<1>1. turns \in Nat /\ truncated \in BOOLEAN /\ flattened \subseteq Ids
  BY DEF IInv, TypeOK
<1>2. TypeOK'
  BY <1>1, EndTurned DEF TypeOK
<1>3. Turns'
  BY EndTurned DEF Turns
<1> QED
  BY <1>2, <1>3 DEF IInv

\* What is saved at the end of a turn, or is not.
LEMMA SaveKeeps ==
  ASSUME IInv, NEW m \in Seq(Message), issued' \in Nat, issued <= issued',
         Conversation(m, issued', flattened, truncated), Save(m),
         turns' = turns, truncated' = truncated, flattened' = flattened
  PROVE  IInv'
<1>1. /\ session \in Seq(Message) /\ issued \in Nat /\ unseen \in Nat /\ truncated \in BOOLEAN
      /\ Conversation(session, issued, flattened, truncated)
  BY DEF IInv, TypeOK, Turns
<1> DEFINE r == [i \in DOMAIN m |-> [m[i] EXCEPT !.own = FALSE]]
<1>2. EndTurn
  BY DEF Save
<1>3. CASE session' = r /\ unseen' = 0 /\ history' = << >>
  <2>1. r \in Seq(Message) /\ Conversation(r, issued', flattened, truncated)
    BY <1>1, StoredKeeps
  <2> HIDE DEF r
  <2>2. history' \in Seq(Message) /\ Plain(history')
    BY <1>3 DEF Plain
  <2> QED
    BY <1>2, <1>3, <2>1, <2>2, EndKeeps
<1>4. CASE /\ history' = IF session = << >> THEN AddText(history, Said) ELSE history
           /\ session' = session /\ unseen' = unseen
  <2>1. history' \in Seq(Message) /\ Plain(history')
    BY <1>4, SaidKeeps
  <2>2. Conversation(session, issued', flattened, truncated)
    BY <1>1, Weaker
  <2> QED
    BY <1>1, <1>2, <1>4, <2>1, <2>2, EndKeeps
<1> QED
  BY <1>3, <1>4 DEF Save

\* What the invariant says while the model is asked.
LEMMA AtModel ==
  ASSUME IInv, pc = "model"
  PROVE  /\ msgs \in Seq(Message) /\ issued \in Nat /\ truncated \in BOOLEAN
         /\ Conversation(msgs, issued, flattened, truncated)
         /\ (truncated \/ EndsWithUser(msgs)) /\ (crowded \/ OwnKept(msgs))
         /\ msgs # << >> \/ truncated
BY DEF IInv, TypeOK, Turns, EndsWithUser

\* A turn that ends with the text of the assistant.
LEMMA SaidAtEndKeeps ==
  ASSUME IInv, pc = "model"
  PROVE  /\ Append(msgs, Said) \in Seq(Message)
         /\ Conversation(Append(msgs, Said), issued, flattened, truncated)
BY AtModel, TextsOf, AppendKeeps

\* The other ends of a turn.
LEMMA BlockKeeps == ASSUME IInv, Block PROVE IInv'
<1>1. history' \in Seq(Message) /\ Plain(history')
  BY SaidKeeps DEF Block
<1>2. /\ session \in Seq(Message) /\ issued \in Nat /\ unseen \in Nat
      /\ Conversation(session, issued, flattened, truncated)
  BY DEF IInv, TypeOK, Turns
<1> QED
  BY <1>1, <1>2, EndKeeps DEF Block

LEMMA FailKeeps == ASSUME IInv, Fail PROVE IInv'
<1>1. /\ session \in Seq(Message) /\ issued \in Nat /\ unseen \in Nat
      /\ Conversation(session, issued, flattened, truncated)
      /\ history \in Seq(Message) /\ Plain(history)
  BY DEF IInv, TypeOK, Turns
<1> QED
  BY <1>1, EndKeeps DEF Fail, stored

\* A turn that ends with the text of the assistant saved.
LEMMA SaysKeeps ==
  ASSUME IInv, pc = "model", Save(Append(msgs, Said)), issued' \in Nat, issued <= issued',
         turns' = turns, truncated' = truncated, flattened' = flattened
  PROVE  IInv'
<1>1. /\ Append(msgs, Said) \in Seq(Message)
      /\ Conversation(Append(msgs, Said), issued, flattened, truncated)
  BY SaidAtEndKeeps
<1>2. issued \in Nat /\ truncated \in BOOLEAN
  BY AtModel
<1> DEFINE m == Append(msgs, Said)
<1> HIDE DEF m
<1>3. m \in Seq(Message) /\ Conversation(m, issued, flattened, truncated) /\ Save(m)
  BY <1>1 DEF m
<1>4. Conversation(m, issued', flattened, truncated)
  BY <1>2, <1>3, Weaker
<1> QED
  BY <1>3, <1>4, SaveKeeps

LEMMA AnswerKeeps == ASSUME IInv, Answer PROVE IInv'
<1>1. issued \in Nat
  BY DEF IInv, TypeOK
<1> QED
  BY <1>1, SaysKeeps DEF Answer

LEMMA GiveUpKeeps == ASSUME IInv, GiveUp PROVE IInv'
<1>1. issued \in Nat
  BY DEF IInv, TypeOK
<1> QED
  BY <1>1, SaysKeeps DEF GiveUp

\* Messages are added to the conversation, and the model is asked again.
LEMMA AskAgainKeeps ==
  ASSUME IInv, pc = "model", NEW m \in Seq(Message), issued' \in Nat, issued <= issued',
         Conversation(m, issued', flattened, truncated), EndsWithUser(m), OwnKept(msgs) => OwnKept(m),
         msgs' = m, pc' = pc, turns' = turns, truncated' = truncated, flattened' = flattened,
         crowded' = crowded,
         session' = session, history' = history, unseen' = unseen,
         retried' \in BOOLEAN, streak' \in 0 .. MaxStreak, round' \in 0 .. MaxIterations
  PROVE  IInv'
<1>1. TypeOK'
  BY DEF IInv, TypeOK
<1>2. /\ session \in Seq(Message) /\ issued \in Nat /\ truncated \in BOOLEAN
      /\ Conversation(session, issued, flattened, truncated)
  BY DEF IInv, TypeOK, Turns
<1>3. Conversation(session, issued', flattened, truncated)
  BY <1>2, Weaker
<1>4. (crowded \/ OwnKept(msgs)) /\ Plain(history)
  BY DEF IInv, Turns
<1>5. Turns'
  BY <1>3, <1>4 DEF Turns
<1> QED
  BY <1>1, <1>5 DEF IInv

\* A remark about an empty answer.
LEMMA AnswerEmptyKeeps == ASSUME IInv, AnswerEmpty PROVE IInv'
<1> DEFINE r == msgs \o <<Said, Other>>
<1>1. /\ msgs \in Seq(Message) /\ issued \in Nat /\ truncated \in BOOLEAN
      /\ Conversation(msgs, issued, flattened, truncated) /\ (msgs # << >> \/ truncated)
  BY AtModel DEF AnswerEmpty
<1>2. /\ Said.role = "assistant" /\ Said.calls = {} /\ Said.results = {}
      /\ Other.role = "user" /\ Other.calls = {} /\ Other.results = {}
      /\ Said \in Message /\ Other \in Message
  BY TextsOf DEF IsText
<1> DEFINE ids == {}
<1>3. \A c \in ids : c \in Int /\ (c > 0 => issued < c /\ c <= issued)
  OBVIOUS
<1>4. Said.calls = ids /\ Other.results = ids
  BY <1>2
<1> HIDE DEF ids
<1>5. /\ r \in Seq(Message) /\ Conversation(r, issued, flattened, truncated)
      /\ EndsWithUser(r) /\ (OwnKept(msgs) => OwnKept(r))
  BY <1>1, <1>2, <1>3, <1>4, ExchangeKeeps
<1>6. msgs' = r /\ round' = round + 1 /\ round < MaxIterations /\ streak' = 0 /\ retried' = TRUE
  BY DEF AnswerEmpty
<1>7. round' \in 0 .. MaxIterations /\ streak' \in 0 .. MaxStreak
  <2>1. MaxIterations \in Nat \ {0} /\ MaxStreak \in Nat \ {0}
    BY LoopAssumption
  <2>2. round \in 0 .. MaxIterations
    BY DEF IInv, TypeOK
  <2> QED
    BY <1>6, <2>1, <2>2
<1>8. /\ pc = "model" /\ pc' = pc /\ turns' = turns /\ crowded' = crowded /\ issued' = issued
      /\ truncated' = truncated /\ flattened' = flattened
      /\ session' = session /\ history' = history /\ unseen' = unseen
  BY DEF AnswerEmpty, stored
<1> HIDE DEF r
<1>9. /\ Conversation(r, issued', flattened, truncated) /\ issued' \in Nat /\ issued <= issued'
      /\ retried' \in BOOLEAN
  BY <1>1, <1>5, <1>6, <1>8
<1> QED
  BY <1>5, <1>6, <1>7, <1>8, <1>9, AskAgainKeeps

\* Calls that are named are new; the others are numbered below zero.
LEMMA NewIdsAre ==
  ASSUME issued \in Nat, NEW k \in 1 .. MaxCalls, NEW ids \in NewIds(k),
         NEW n, n = IF -1 \in ids THEN issued ELSE issued + k
  PROVE  /\ ids \subseteq Ids /\ n \in Nat /\ issued <= n
         /\ \A c \in ids : c \in Int /\ (c > 0 => issued < c /\ c <= n)
<1>1. MaxCalls \in Nat /\ k \in Nat /\ k >= 1
  <2>1. MaxCalls \in Nat \ {0}
    BY LoopAssumption
  <2> QED
    BY <2>1
<1>2. CASE ids = {issued + i : i \in 1 .. k}
  <2>1. \A c \in ids : c \in Nat \ {0} /\ issued < c /\ c <= issued + k
    BY <1>1, <1>2
  <2>2. -1 \notin ids
    BY <2>1
  <2> QED
    BY <1>1, <2>1, <2>2 DEF Ids
<1>3. CASE ids = {-i : i \in 1 .. k}
  <2>1. \A c \in ids : c \in Int /\ ~(c > 0)
    BY <1>1, <1>3
  <2>2. 1 \in 1 .. k
    BY <1>1
  <2>3. -1 \in ids
    BY <1>3, <2>2
  <2>4. ids \subseteq Ids
    BY <1>1, <1>3 DEF Ids
  <2> QED
    BY <2>1, <2>3, <2>4
<1> QED
  BY <1>2, <1>3 DEF NewIds

\* Calls that are executed, repeated too often, or wait for an approval.
LEMMA CallToolsKeeps == ASSUME IInv, CallTools PROVE IInv'
<1>1. /\ pc = "model" /\ round < MaxIterations /\ turns' = turns
      /\ truncated' = truncated /\ flattened' = flattened
  BY DEF CallTools
<1>2. PICK k \in 1 .. MaxCalls, same \in BOOLEAN : \E ids \in NewIds(k) :
       LET run == IF same /\ streak > 0 THEN streak + 1 ELSE 1
           after == msgs \o <<[Said EXCEPT !.calls = ids],
                              [Other EXCEPT !.results = ids]>> IN
       /\ issued' = IF -1 \in ids THEN issued ELSE issued + k
       /\ IF run >= MaxStreak THEN Save(Append(msgs, Said))
          ELSE \/ Save(after)
               \/ /\ msgs' = after /\ round' = round + 1 /\ streak' = run
                  /\ UNCHANGED <<stored, pc, retried, crowded>>
  BY DEF CallTools
<1> DEFINE run == IF same /\ streak > 0 THEN streak + 1 ELSE 1
<1>3. PICK ids \in NewIds(k) :
       LET after == msgs \o <<[Said EXCEPT !.calls = ids],
                              [Other EXCEPT !.results = ids]>> IN
       /\ issued' = IF -1 \in ids THEN issued ELSE issued + k
       /\ IF run >= MaxStreak THEN Save(Append(msgs, Said))
          ELSE \/ Save(after)
               \/ /\ msgs' = after /\ round' = round + 1 /\ streak' = run
                  /\ UNCHANGED <<stored, pc, retried, crowded>>
  BY <1>2
<1> DEFINE a == [Said EXCEPT !.calls = ids]
           b == [Other EXCEPT !.results = ids]
           after == msgs \o <<a, b>>
<1>4. /\ msgs \in Seq(Message) /\ issued \in Nat /\ truncated \in BOOLEAN
      /\ Conversation(msgs, issued, flattened, truncated) /\ (msgs # << >> \/ truncated)
  BY <1>1, AtModel
<1>5. /\ ids \subseteq Ids /\ issued' \in Nat /\ issued <= issued'
      /\ \A c \in ids : c \in Int /\ (c > 0 => issued < c /\ c <= issued')
  BY <1>3, <1>4, NewIdsAre
<1>6. /\ a \in Message /\ a.role = "assistant" /\ a.calls = ids /\ a.results = {}
      /\ b \in Message /\ b.role = "user" /\ b.calls = {} /\ b.results = ids
  BY <1>5 DEF Said, Other, Text, Message
<1>7. \/ run >= MaxStreak /\ Save(Append(msgs, Said))
      \/ Save(after)
      \/ /\ ~(run >= MaxStreak) /\ msgs' = after /\ round' = round + 1 /\ streak' = run
         /\ UNCHANGED <<stored, pc, retried, crowded>>
  BY <1>3
<1> HIDE DEF a, b
<1>8. /\ after \in Seq(Message) /\ Conversation(after, issued', flattened, truncated)
      /\ EndsWithUser(after) /\ (OwnKept(msgs) => OwnKept(after))
  BY <1>4, <1>5, <1>6, ExchangeKeeps
<1> HIDE DEF after
<1>9. CASE Save(Append(msgs, Said))
  BY <1>1, <1>5, <1>9, SaysKeeps
<1>10. CASE Save(after)
  BY <1>1, <1>5, <1>8, <1>10, SaveKeeps
<1>11. CASE /\ ~(run >= MaxStreak) /\ msgs' = after /\ round' = round + 1 /\ streak' = run
            /\ UNCHANGED <<stored, pc, retried, crowded>>
  <2>1. MaxIterations \in Nat \ {0} /\ MaxStreak \in Nat \ {0}
    BY LoopAssumption
  <2>2. round \in 0 .. MaxIterations /\ streak \in 0 .. MaxStreak /\ retried \in BOOLEAN
    BY DEF IInv, TypeOK
  <2>3. round' \in 0 .. MaxIterations
    BY <1>1, <1>11, <2>1, <2>2
  <2>4. streak' \in 0 .. MaxStreak
    BY <1>11, <2>1, <2>2
  <2> QED
    BY <1>1, <1>5, <1>8, <1>11, <2>2, <2>3, <2>4, AskAgainKeeps DEF stored
<1> QED
  BY <1>7, <1>9, <1>10, <1>11

-----------------------------------------------------------------------------
(* The invariant holds *)

\* The invariant holds initially, and every step preserves it.
LEMMA Starts == Init => IInv
<1> SUFFICES ASSUME Init PROVE IInv
  OBVIOUS
<1>1. /\ session = << >> /\ history = << >> /\ unseen = 0 /\ turns = 0 /\ pc = "idle"
      /\ msgs = << >> /\ round = 0 /\ streak = 0 /\ retried = FALSE /\ crowded = FALSE
      /\ issued = 0 /\ truncated = FALSE /\ flattened = {}
  BY DEF Init
<1>2. MaxIterations \in Nat \ {0} /\ MaxStreak \in Nat \ {0}
  BY LoopAssumption
<1>3. TypeOK
  <2>1. 0 \in 0 .. MaxIterations /\ 0 \in 0 .. MaxStreak /\ << >> \in Seq(Message)
    BY <1>2
  <2> QED
    BY <1>1, <2>1 DEF TypeOK
<1>4. Turns
  BY <1>1 DEF Turns, Conversation, Roles, Follows, Once, Answered, Begins, Plain
<1> QED
  BY <1>3, <1>4 DEF IInv

LEMMA StepKeeps == IInv /\ [Next]_vars => IInv'
<1> SUFFICES ASSUME IInv, [Next]_vars PROVE IInv'
  OBVIOUS
<1>1. CASE Next
  BY <1>1, ReceiveKeeps, PromptKeeps, CompactStep, BlockKeeps, FailKeeps, AnswerKeeps,
     AnswerEmptyKeeps, CallToolsKeeps, GiveUpKeeps DEF Next
<1>2. CASE UNCHANGED vars
  <2>1. /\ session' = session /\ history' = history /\ unseen' = unseen /\ turns' = turns
        /\ pc' = pc /\ msgs' = msgs /\ round' = round /\ streak' = streak /\ retried' = retried
        /\ crowded' = crowded /\ issued' = issued /\ truncated' = truncated /\ flattened' = flattened
    BY <1>2 DEF vars, stored, turn
  <2>2. TypeOK'
    BY <2>1 DEF IInv, TypeOK
  <2>3. Turns'
    BY <2>1 DEF IInv, Turns
  <2> QED
    BY <2>2, <2>3 DEF IInv
<1> QED
  BY <1>1, <1>2

-----------------------------------------------------------------------------
(* What is sent *)

\* u was sent of the first n messages of s, and the calls pd wait for their results.
Sent(s, n, F, cut, u, pd) ==
  /\ n = 0 => u = << >> /\ pd = {}
  /\ n > 0 /\ s[n].results = {} => u # << >> /\ u[Len(u)] = s[n] /\ pd = s[n].calls
  /\ \A i \in 1 .. Len(u) : u[i].results # {} => i > 1 /\ u[i].results \subseteq u[i - 1].calls
  /\ \A i \in 1 .. Len(u) : \A c \in u[i].calls : c > 0 /\ c \notin F =>
       \/ i < Len(u) /\ c \in u[i + 1].results
       \/ i = Len(u) /\ n > 0 /\ c \in s[n].calls
  /\ (\E i \in 1 .. n : s[i].own /\ s[i].results = {}) => \E j \in 1 .. Len(u) : u[j].own
  /\ ~cut /\ n > 0 => u # << >> /\ u[1].role = "user"

\* One more message of s is sent, or dropped.
LEMMA SentNext ==
  ASSUME NEW s \in Seq(Message), NEW N \in Nat, NEW F, NEW cut \in BOOLEAN, Conversation(s, N, F, cut),
         NEW n \in 1 .. Len(s), NEW st \in Sanitized, Sent(s, n - 1, F, cut, st.out, st.pending)
  PROVE  LET st2 == SanitizeStep(st, s[n]) IN Sent(s, n, F, cut, st2.out, st2.pending)
<1> DEFINE u  == st.out
           pd == st.pending
           m  == s[n]
           kept == m.results \cap pd
           sent == [m EXCEPT !.results = kept]
<1>1. u \in Seq(Message) /\ pd \subseteq Ids /\ Len(u) \in Nat /\ Len(s) \in Nat /\ n \in Nat /\ m \in Message
  BY DEF Sanitized
<1>2. SanitizeStep(st, m) = IF m.results = {} THEN [out |-> Append(u, m), pending |-> m.calls]
                            ELSE [out |-> IF kept = {} THEN u ELSE Append(u, sent), pending |-> pd \ kept]
  BY DEF SanitizeStep
<1>3. Sent(s, n - 1, F, cut, u, pd)
  OBVIOUS
<1> HIDE DEF u, pd
\* The last message sent, if its calls wait, is the one before m.
<1>4. \A i \in 1 .. Len(u) : \A c \in u[i].calls : c > 0 /\ c \notin F =>
        \/ i < Len(u) /\ c \in u[i + 1].results
        \/ i = Len(u) /\ c \in m.results
  <2> SUFFICES ASSUME NEW i \in 1 .. Len(u), NEW c \in u[i].calls, c > 0, c \notin F, i = Len(u),
                      n - 1 > 0, c \in s[n - 1].calls
               PROVE  c \in m.results
    BY <1>3 DEF Sent
  <2>1. n - 1 \in 1 .. Len(s) /\ (n - 1) + 1 = n
    BY <1>1
  <2> QED
    BY <2>1 DEF Conversation, Answered
<1>5. (\E i \in 1 .. n : s[i].own /\ s[i].results = {}) =>
        (\E j \in 1 .. Len(u) : u[j].own) \/ (m.own /\ m.results = {})
  <2>1. \A i \in 1 .. n : i \in 1 .. (n - 1) \/ i = n
    BY <1>1
  <2> QED
    BY <1>3, <2>1 DEF Sent
<1>6. CASE m.results = {}
  <2> DEFINE r == Append(u, m)
  <2>1. /\ r \in Seq(Message) /\ Len(r) = Len(u) + 1 /\ r[Len(u) + 1] = m /\ r # << >>
        /\ \A i \in 1 .. Len(u) : r[i] = u[i]
    BY <1>1
  <2> HIDE DEF r
  <2>2. \A i \in 1 .. Len(r) : i = Len(u) + 1 \/ i \in 1 .. Len(u)
    BY <1>1, <2>1
  <2>3. \A i \in 1 .. Len(r) : r[i].results # {} => i > 1 /\ r[i].results \subseteq r[i - 1].calls
    <3> SUFFICES ASSUME NEW i \in 1 .. Len(r), r[i].results # {}
                 PROVE  i > 1 /\ r[i].results \subseteq r[i - 1].calls
      OBVIOUS
    <3>1. i \in 1 .. Len(u) /\ r[i] = u[i]
      BY <1>6, <2>1, <2>2
    <3>2. i > 1 /\ u[i].results \subseteq u[i - 1].calls
      BY <1>3, <3>1 DEF Sent
    <3>3. i - 1 \in 1 .. Len(u)
      BY <1>1, <3>1, <3>2
    <3> QED
      BY <2>1, <3>1, <3>2, <3>3
  <2>4. \A i \in 1 .. Len(r) : \A c \in r[i].calls : c > 0 /\ c \notin F =>
          \/ i < Len(r) /\ c \in r[i + 1].results
          \/ i = Len(r) /\ n > 0 /\ c \in s[n].calls
    <3> SUFFICES ASSUME NEW i \in 1 .. Len(r), NEW c \in r[i].calls, c > 0, c \notin F
                 PROVE  \/ i < Len(r) /\ c \in r[i + 1].results
                        \/ i = Len(r) /\ n > 0 /\ c \in s[n].calls
      OBVIOUS
    <3>1. CASE i = Len(u) + 1
      BY <1>1, <2>1, <3>1
    <3>2. CASE i \in 1 .. Len(u)
      <4>1. i < Len(u) /\ c \in u[i + 1].results
        BY <1>4, <1>6, <2>1, <3>2
      <4>2. i + 1 \in 1 .. Len(u)
        BY <1>1, <3>2, <4>1
      <4> QED
        BY <1>1, <2>1, <4>1, <4>2
    <3> QED
      BY <2>2, <3>1, <3>2
  <2>5. (\E i \in 1 .. n : s[i].own /\ s[i].results = {}) => \E j \in 1 .. Len(r) : r[j].own
    <3>1. Len(u) + 1 \in 1 .. Len(r) /\ \A j \in 1 .. Len(u) : j \in 1 .. Len(r)
      BY <1>1, <2>1
    <3> QED
      BY <1>5, <2>1, <3>1
  <2>6. ~cut => r[1].role = "user"
    <3> SUFFICES ASSUME ~cut PROVE r[1].role = "user"
      OBVIOUS
    <3>1. CASE n = 1
      <4>1. u = << >> /\ s # << >>
        BY <1>1, <1>3, <3>1 DEF Sent
      <4> QED
        BY <2>1, <3>1, <4>1 DEF Conversation, Begins
    <3>2. CASE n # 1
      <4>1. u # << >> /\ u[1].role = "user"
        BY <1>1, <1>3, <3>2 DEF Sent
      <4>2. 1 \in 1 .. Len(u)
        BY <1>1, <4>1
      <4> QED
        BY <2>1, <4>1, <4>2
    <3> QED
      BY <3>1, <3>2
  <2>7. n > 0 /\ r[Len(r)] = s[n] /\ m.calls = s[n].calls
    BY <1>1, <2>1
  <2>8. Sent(s, n, F, cut, r, m.calls)
    <3> HIDE DEF m
    <3>1. n = 0 => r = << >> /\ m.calls = {}
      BY <1>1, <2>7
    <3>2. n > 0 /\ s[n].results = {} => r # << >> /\ r[Len(r)] = s[n] /\ m.calls = s[n].calls
      BY <2>1, <2>7
    <3>3. ~cut /\ n > 0 => r # << >> /\ r[1].role = "user"
      BY <2>1, <2>6
    <3> QED
      BY <2>3, <2>4, <2>5, <3>1, <3>2, <3>3 DEF Sent
  <2> QED
    BY <1>2, <1>6, <2>8 DEF r
<1>7. CASE m.results # {}
  \* The message before m is one of the assistant, whose calls wait.
  <2>1. m.calls = {}
    BY <1>7 DEF Conversation, Roles
  <2>2. (u # << >> /\ pd = u[Len(u)].calls) \/ pd = {}
    <3>1. CASE n = 1
      BY <1>3, <3>1 DEF Sent
    <3>2. CASE n # 1
      <4>1. n \in 2 .. Len(s) /\ n - 1 \in 1 .. Len(s)
        BY <1>1, <3>2
      <4>2. s[n - 1].role = "assistant"
        BY <1>7, <4>1 DEF Conversation, Follows
      <4>3. s[n - 1].results = {}
        BY <4>1, <4>2 DEF Conversation, Roles
      <4> QED
        BY <1>1, <1>3, <4>1, <4>3 DEF Sent
    <3> QED
      BY <3>1, <3>2
  <2>3. \A i \in 1 .. Len(u) : \A c \in u[i].calls : c > 0 /\ c \notin F =>
          \/ i < Len(u) /\ c \in u[i + 1].results
          \/ i = Len(u) /\ c \in kept
    <3> SUFFICES ASSUME NEW i \in 1 .. Len(u), NEW c \in u[i].calls, c > 0, c \notin F,
                        ~(i < Len(u) /\ c \in u[i + 1].results)
                 PROVE  i = Len(u) /\ c \in kept
      OBVIOUS
    <3>1. i = Len(u) /\ c \in m.results
      BY <1>4
    <3>2. n # 1 /\ n \in 2 .. Len(s) /\ n - 1 \in 1 .. Len(s)
      <4>1. n # 1
        BY <1>3, <3>1 DEF Sent
      <4> QED
        BY <1>1, <4>1
    <3>3. s[n - 1].role = "assistant"
      BY <1>7, <3>2 DEF Conversation, Follows
    <3>4. s[n - 1].results = {}
      BY <3>2, <3>3 DEF Conversation, Roles
    <3>5. u[Len(u)] = s[n - 1] /\ pd = s[n - 1].calls
      BY <1>1, <1>3, <3>2, <3>4 DEF Sent
    <3> QED
      BY <3>1, <3>5
  <2>4. ~cut => u # << >> /\ u[1].role = "user"
    <3> SUFFICES ASSUME ~cut PROVE u # << >> /\ u[1].role = "user"
      OBVIOUS
    <3>1. n # 1
      <4>1. s # << >>
        BY <1>1
      <4> QED
        BY <1>7, <4>1 DEF Conversation, Begins
    <3> QED
      BY <1>1, <1>3, <3>1 DEF Sent
  <2>5. (\E i \in 1 .. n : s[i].own /\ s[i].results = {}) => \E j \in 1 .. Len(u) : u[j].own
    BY <1>5, <1>7
  <2>6. CASE kept = {}
    <3>1. Sent(s, n, F, cut, u, pd \ kept)
      BY <1>1, <1>3, <1>7, <2>3, <2>4, <2>5, <2>6 DEF Sent
    <3> QED
      BY <1>2, <1>7, <2>6, <3>1
  <2>7. CASE kept # {}
    <3> DEFINE r == Append(u, sent)
    <3>1. /\ sent \in Message /\ sent.results = kept /\ sent.calls = {} /\ sent.role = m.role
      BY <1>1, <2>1 DEF Message
    <3>2. u # << >> /\ kept \subseteq u[Len(u)].calls
      BY <2>2, <2>7
    <3> HIDE DEF sent, kept
    <3>3. /\ r \in Seq(Message) /\ Len(r) = Len(u) + 1 /\ r[Len(u) + 1] = sent /\ r # << >>
          /\ \A i \in 1 .. Len(u) : r[i] = u[i]
      BY <1>1, <3>1
    <3> HIDE DEF r
    <3>4. \A i \in 1 .. Len(r) : i = Len(u) + 1 \/ i \in 1 .. Len(u)
      BY <1>1, <3>3
    <3>5. Len(u) \in 1 .. Len(u) /\ 1 \in 1 .. Len(u)
      BY <1>1, <3>2
    <3>6. \A i \in 1 .. Len(r) : r[i].results # {} => i > 1 /\ r[i].results \subseteq r[i - 1].calls
      <4> SUFFICES ASSUME NEW i \in 1 .. Len(r), r[i].results # {}
                 PROVE  i > 1 /\ r[i].results \subseteq r[i - 1].calls
        OBVIOUS
      <4>1. CASE i = Len(u) + 1
        <5>1. i > 1 /\ i - 1 = Len(u)
          BY <1>1, <3>5, <4>1
        <5> QED
          BY <3>1, <3>2, <3>3, <3>5, <4>1, <5>1
      <4>2. CASE i \in 1 .. Len(u)
        <5>1. i > 1 /\ u[i].results \subseteq u[i - 1].calls
          BY <1>3, <3>3, <4>2 DEF Sent
        <5>2. i - 1 \in 1 .. Len(u)
          BY <1>1, <4>2, <5>1
        <5> QED
          BY <3>3, <4>2, <5>1, <5>2
      <4> QED
        BY <3>4, <4>1, <4>2
    <3>7. \A i \in 1 .. Len(r) : \A c \in r[i].calls : c > 0 /\ c \notin F =>
            i < Len(r) /\ c \in r[i + 1].results
      <4> SUFFICES ASSUME NEW i \in 1 .. Len(r), NEW c \in r[i].calls, c > 0, c \notin F
                   PROVE  i < Len(r) /\ c \in r[i + 1].results
        OBVIOUS
      <4>1. i \in 1 .. Len(u) /\ c \in u[i].calls
        BY <3>1, <3>3, <3>4
      <4>2. CASE i < Len(u) /\ c \in u[i + 1].results
        <5>1. i + 1 \in 1 .. Len(u)
          BY <1>1, <4>1, <4>2
        <5> QED
          BY <1>1, <3>3, <4>2, <5>1
      <4>3. CASE i = Len(u) /\ c \in kept
        BY <1>1, <3>1, <3>3, <4>3
      <4> QED
        BY <2>3, <4>1, <4>2, <4>3
    <3>8. (\E i \in 1 .. n : s[i].own /\ s[i].results = {}) => \E j \in 1 .. Len(r) : r[j].own
      <4>1. \A j \in 1 .. Len(u) : j \in 1 .. Len(r)
        BY <1>1, <3>3
      <4> QED
        BY <2>5, <3>3, <4>1
    <3>9. ~cut => r[1].role = "user"
      BY <2>4, <3>3, <3>5
    <3>10. n > 0 /\ s[n].results # {}
      BY <1>1, <1>7
    <3>11. Sent(s, n, F, cut, r, pd \ kept)
      <4> DEFINE rest == pd \ kept
      <4> HIDE DEF rest, m
      <4>1. n = 0 => r = << >> /\ rest = {}
        BY <1>1, <3>10
      <4>2. n > 0 /\ s[n].results = {} => r # << >> /\ r[Len(r)] = s[n] /\ rest = s[n].calls
        BY <3>10
      <4>3. \A i \in 1 .. Len(r) : \A c \in r[i].calls : c > 0 /\ c \notin F =>
              \/ i < Len(r) /\ c \in r[i + 1].results
              \/ i = Len(r) /\ n > 0 /\ c \in s[n].calls
        BY <3>7
      <4>4. ~cut /\ n > 0 => r # << >> /\ r[1].role = "user"
        BY <3>3, <3>9
      <4>5. Sent(s, n, F, cut, r, rest)
        BY <3>6, <3>8, <4>1, <4>2, <4>3, <4>4 DEF Sent
      <4> QED
        BY <4>5 DEF rest
    <3>12. SanitizeStep(st, m) = [out |-> r, pending |-> pd \ kept]
      BY <1>2, <1>7, <2>7 DEF r
    <3> QED
      BY <3>11, <3>12
  <2> QED
    BY <2>6, <2>7
<1> QED
  BY <1>6, <1>7

\* The end of what is sent.
SendsUser(st, s) == st.out # << >> /\ st.out[Len(st.out)].role = "user"

\* The last of what is sent is the user's.
LEMMA SentEnd ==
  ASSUME NEW s \in Seq(Message), NEW N \in Nat, NEW F, NEW cut \in BOOLEAN, Conversation(s, N, F, cut),
         EndsWithUser(s), NEW n \in 1 .. Len(s), n = Len(s),
         NEW st \in Sanitized, Sent(s, n - 1, F, cut, st.out, st.pending)
  PROVE  SendsUser(SanitizeStep(st, s[n]), s)
<1> DEFINE u  == st.out
           m  == s[n]
           kept == m.results \cap st.pending
           sent == [m EXCEPT !.results = kept]
<1>1. u \in Seq(Message) /\ Len(u) \in Nat /\ Len(s) \in Nat /\ m \in Message
  BY DEF Sanitized
<1>2. m.role = "user"
  BY DEF EndsWithUser
<1>3. CASE m.results = {}
  <2>1. SanitizeStep(st, m).out = Append(u, m)
    BY <1>3 DEF SanitizeStep
  <2> HIDE DEF u, m
  <2>2. Append(u, m) # << >> /\ Append(u, m)[Len(Append(u, m))] = m
    BY <1>1
  <2> QED
    BY <1>2, <2>1, <2>2 DEF SendsUser, m
<1>4. CASE m.results # {}
  <2>1. Len(s) > 1 /\ m.results \cap s[n - 1].calls # {}
    BY <1>4 DEF EndsWithUser
  <2>2. n - 1 \in 1 .. Len(s) /\ n - 1 > 0
    BY <1>1, <2>1
  <2>3. s[n - 1].role = "assistant"
    BY <2>1, <2>2 DEF Conversation, Roles
  <2>4. s[n - 1].results = {}
    BY <2>2, <2>3 DEF Conversation, Roles
  <2>5. st.pending = s[n - 1].calls
    BY <2>2, <2>4 DEF Sent
  <2>6. kept # {}
    BY <2>1, <2>5
  <2>7. SanitizeStep(st, m).out = Append(u, sent)
    BY <1>4, <2>6 DEF SanitizeStep
  <2>8. sent \in Message /\ sent.role = "user"
    BY <1>1, <1>2 DEF Message
  <2> HIDE DEF u, sent
  <2>9. Append(u, sent) # << >> /\ Append(u, sent)[Len(Append(u, sent))] = sent
    BY <1>1, <2>8
  <2> QED
    BY <2>7, <2>8, <2>9 DEF SendsUser, m
<1> QED
  BY <1>3, <1>4

\* The request, all of it.
LEMMA RequestSent ==
  ASSUME msgs \in Seq(Message), NEW N \in Nat, NEW F, NEW cut \in BOOLEAN, Conversation(msgs, N, F, cut)
  PROVE  /\ Request \in Seq(Message) /\ Len(Request) \in Nat
         /\ \E pd : Sent(msgs, Len(msgs), F, cut, Request, pd)
         /\ EndsWithUser(msgs) => Request # << >> /\ Request[Len(Request)].role = "user"
<1>1. PICK st \in [0 .. Len(msgs) -> Sanitized] :
           /\ st[0] = Unsent /\ st[Len(msgs)].out = Request
           /\ \A n \in 1 .. Len(msgs) : st[n] = SanitizeStep(st[n - 1], msgs[n])
  BY RequestFold
<1> DEFINE G == {n \in 0 .. Len(msgs) : Sent(msgs, n, F, cut, st[n].out, st[n].pending)}
<1>2. Len(msgs) \in Nat
  OBVIOUS
<1>3. 0 \in G
  <2>1. Unsent.out = << >> /\ Unsent.pending = {}
    BY DEF Unsent
  <2>2. Sent(msgs, 0, F, cut, st[0].out, st[0].pending)
    BY <1>1, <2>1 DEF Sent
  <2>3. 0 \in 0 .. Len(msgs)
    BY <1>2
  <2> QED
    BY <2>2, <2>3
<1>4. ASSUME NEW n \in 1 .. Len(msgs), n - 1 \in G PROVE n \in G
  <2>1. n - 1 \in 0 .. Len(msgs) /\ n \in 0 .. Len(msgs) /\ st[n - 1] \in Sanitized
    BY <1>1, <1>2
  <2>2. Sent(msgs, n - 1, F, cut, st[n - 1].out, st[n - 1].pending)
    BY <1>4
  <2> DEFINE st2 == SanitizeStep(st[n - 1], msgs[n])
  <2>3. Sent(msgs, n, F, cut, st2.out, st2.pending)
    BY <2>1, <2>2, SentNext
  <2> QED
    BY <1>1, <2>1, <2>3
<1>5. 0 .. Len(msgs) \subseteq G
  <2> HIDE DEF G
  <2> QED
    BY <1>2, <1>3, <1>4, UpTo
<1>6. st[Len(msgs)] \in Sanitized /\ Sent(msgs, Len(msgs), F, cut, st[Len(msgs)].out, st[Len(msgs)].pending)
  BY <1>1, <1>2, <1>5
<1>7. Request \in Seq(Message) /\ Len(Request) \in Nat
  BY <1>1, <1>6 DEF Sanitized
<1>8. ASSUME EndsWithUser(msgs) PROVE Request # << >> /\ Request[Len(Request)].role = "user"
  <2>1. Len(msgs) \in 1 .. Len(msgs)
    BY <1>2, <1>8 DEF EndsWithUser
  <2>2. PICK n \in 1 .. Len(msgs) : n = Len(msgs)
    BY <2>1
  <2>3. n - 1 \in 0 .. Len(msgs)
    BY <1>2
  <2>4. st[n - 1] \in Sanitized /\ Sent(msgs, n - 1, F, cut, st[n - 1].out, st[n - 1].pending)
    BY <1>1, <1>5, <2>3
  <2>5. SendsUser(SanitizeStep(st[n - 1], msgs[n]), msgs)
    BY <1>8, <2>2, <2>4, SentEnd
  <2> QED
    BY <1>1, <2>2, <2>5 DEF SendsUser
<1> QED
  BY <1>1, <1>6, <1>7, <1>8

-----------------------------------------------------------------------------
(* The theorems *)

\* The variables stay in their types: the conversation of a turn, the session and
\* the history stay sequences of messages through every fold, merge and cut.
THEOREM TypeCorrect == Spec => []TypeOK
<1>1. IInv => TypeOK
  BY DEF IInv
<1> QED
  BY <1>1, Starts, StepKeeps, PTL DEF Spec

\* What the invariant says of the request.
LEMMA WellFormed == IInv => RequestWellFormed
<1> SUFFICES ASSUME IInv, AsksModel
             PROVE  /\ ~truncated =>
                         Request # << >> /\ Head(Request).role = "user" /\ Last(Request).role = "user"
                    /\ \A i \in DOMAIN Request : Request[i].results # {} =>
                         i > 1 /\ Request[i].results \subseteq Request[i - 1].calls
                    /\ \A i \in DOMAIN Request : \A c \in Request[i].calls :
                         c > 0 /\ c \notin flattened => i < Len(Request) /\ c \in Request[i + 1].results
  BY DEF RequestWellFormed
<1> DEFINE r == Request
<1>1. /\ msgs \in Seq(Message) /\ issued \in Nat /\ truncated \in BOOLEAN
      /\ Conversation(msgs, issued, flattened, truncated) /\ (truncated \/ EndsWithUser(msgs))
  BY AtModel DEF AsksModel
<1>2. /\ r \in Seq(Message) /\ Len(r) \in Nat
      /\ \E pd : Sent(msgs, Len(msgs), flattened, truncated, r, pd)
      /\ EndsWithUser(msgs) => r # << >> /\ r[Len(r)].role = "user"
  BY <1>1, RequestSent
<1> HIDE DEF r
<1>3. PICK pd : Sent(msgs, Len(msgs), flattened, truncated, r, pd)
  BY <1>2
<1>4. DOMAIN r = 1 .. Len(r)
  BY <1>2
<1>5. ASSUME ~truncated PROVE r # << >> /\ Head(r).role = "user" /\ Last(r).role = "user"
  <2>1. r # << >> /\ r[Len(r)].role = "user" /\ msgs # << >>
    BY <1>1, <1>2, <1>5 DEF EndsWithUser
  <2>2. Len(msgs) > 0
    BY <1>1, <2>1
  <2>3. r[1].role = "user"
    BY <1>3, <1>5, <2>2 DEF Sent
  <2>4. Head(r) = r[1] /\ Last(r) = r[Len(r)]
    BY <1>2, <2>1 DEF Last
  <2> QED
    BY <2>1, <2>3, <2>4
<1>6. \A i \in DOMAIN r : r[i].results # {} => i > 1 /\ r[i].results \subseteq r[i - 1].calls
  BY <1>3, <1>4 DEF Sent
<1>7. ASSUME NEW i \in DOMAIN r, NEW c \in r[i].calls, c > 0, c \notin flattened
      PROVE  i < Len(r) /\ c \in r[i + 1].results
  <2>1. \/ i < Len(r) /\ c \in r[i + 1].results
        \/ Len(msgs) > 0 /\ c \in msgs[Len(msgs)].calls
    BY <1>3, <1>4, <1>7 DEF Sent
  <2>2. ~(Len(msgs) > 0 /\ c \in msgs[Len(msgs)].calls)
    <3>1. Len(msgs) > 0 => Len(msgs) \in 1 .. Len(msgs)
      BY <1>1
    <3>2. ~(Len(msgs) < Len(msgs))
      BY <1>1
    <3> QED
      BY <1>1, <1>7, <3>1, <3>2 DEF Conversation, Answered
  <2> QED
    BY <2>1, <2>2
<1> QED
  BY <1>5, <1>6, <1>7 DEF r

LEMMA Reaches == IInv => AskReachesModel
<1> SUFFICES ASSUME IInv, AsksModel, ~crowded PROVE \E i \in DOMAIN Request : Request[i].own
  BY DEF AskReachesModel
<1>1. /\ msgs \in Seq(Message) /\ issued \in Nat /\ truncated \in BOOLEAN
      /\ Conversation(msgs, issued, flattened, truncated) /\ OwnKept(msgs)
  BY AtModel DEF AsksModel
<1>2. /\ Request \in Seq(Message)
      /\ \E pd : Sent(msgs, Len(msgs), flattened, truncated, Request, pd)
  BY <1>1, RequestSent
<1>3. \E j \in 1 .. Len(Request) : Request[j].own
  BY <1>1, <1>2 DEF OwnKept, Sent
<1>4. DOMAIN Request = 1 .. Len(Request)
  BY <1>2
<1> QED
  BY <1>3, <1>4

\* Whatever was compacted, retried, given up or left waiting for approval before,
\* the request begins and ends with the user, results follow their calls, and every
\* call a provider has named is answered by the next message.
THEOREM RequestWellFormedCorrect == Spec => []RequestWellFormed
BY WellFormed, Starts, StepKeeps, PTL DEF Spec

\* What the turn is for is in the request, unless it was more than a compaction keeps.
THEOREM AskReachesModelCorrect == Spec => []AskReachesModel
BY Reaches, Starts, StepKeeps, PTL DEF Spec

=============================================================================
