----------------------------- MODULE AgentLoop -----------------------------
(***************************************************************************)
(* The turns of one chat: how the agent loop makes the conversation that   *)
(* it sends to the model, out of the saved session, the new messages, the  *)
(* model's tool calls and their results, and how it compacts it.           *)
(*                                                                         *)
(* A message is a text, or blocks: the calls of the assistant, or their    *)
(* results. A text holds, word for word, what the turn is for (a user's    *)
(* message, or the prompt of a scheduled run), or it does not. Turns of a  *)
(* chat follow each other here; what happens when they overlap is in       *)
(* AgentSession. Images are left out.                                      *)
(***************************************************************************)
EXTENDS Integers, FiniteSets, SequencesExt

CONSTANTS
  MaxSession,     \* max_session_messages
  KeepRecent,     \* compact_keep_recent
  ProtectFirst,   \* protect_first_n (3)
  MaxIterations,  \* max_tool_iterations
  MaxStreak,      \* MAX_IDENTICAL_TOOL_USE_STREAK (6)
  MaxCalls,       \* bound: tool calls of one answer
  MaxTurns        \* bound: turns

ASSUME LoopAssumption ==
  /\ {MaxSession, KeepRecent, ProtectFirst, MaxTurns} \subseteq Nat
  /\ {MaxIterations, MaxStreak, MaxCalls} \subseteq Nat \ {0}

VARIABLES
  session,    \* sessions.messages_json; empty: no session
  history,    \* the texts in the messages table, kept while there is no session
  unseen,     \* users' messages stored since the session was saved
  turns,      \* turns so far
  pc,         \* "idle", "compact" or "model"
  msgs,       \* the conversation of the turn
  round,      \* iterations done
  streak,     \* repeated_tool_use_streak
  retried,    \* empty_visible_reply_retry_attempted
  issued,     \* tool calls that providers have named so far
  crowded,    \* history: the tail of this turn's compaction was empty
  truncated,  \* history: a compaction kept its tail alone
  flattened   \* history: calls whose result a compaction made a text of

stored  == <<session, history, unseen>>
turn    == <<pc, msgs, round, streak, retried, crowded>>
vars    == <<stored, turns, turn, issued, truncated, flattened>>

Ids == {-i : i \in 1 .. MaxCalls} \cup (Nat \ {0})
Message == [role : {"user", "assistant"}, calls : SUBSET Ids, results : SUBSET Ids, own : BOOLEAN]

Text(role, own) == [role |-> role, calls |-> {}, results |-> {}, own |-> own]
Said == Text("assistant", FALSE)
Other == Text("user", FALSE)
Own == Text("user", TRUE)
IsText(m) == m.calls = {} /\ m.results = {}

TypeOK ==
  /\ session \in Seq(Message) /\ history \in Seq(Message) /\ unseen \in Nat
  /\ turns \in Nat /\ issued \in Nat /\ round \in 0 .. MaxIterations /\ streak \in 0 .. MaxStreak
  /\ pc \in {"idle", "compact", "model"}
  /\ msgs \in Seq(Message)
  /\ {retried, crowded, truncated} \subseteq BOOLEAN /\ flattened \subseteq Ids

Init ==
  /\ session = << >> /\ history = << >> /\ unseen = 0 /\ turns = 0
  /\ pc = "idle" /\ msgs = << >> /\ round = 0 /\ streak = 0 /\ retried = FALSE /\ crowded = FALSE
  /\ issued = 0 /\ truncated = FALSE /\ flattened = {}

-----------------------------------------------------------------------------
(* The conversation of a turn *)

\* A mutant of AddText: after results of tools the text is lost.
AddTextOrNothing(s, m) ==
  IF s # << >> /\ Last(s).role = m.role
    THEN IF IsText(Last(s)) THEN Append(Front(s), Text(m.role, Last(s).own \/ m.own)) ELSE s
    ELSE Append(s, m)

\* A text is added to the last message when that is a text of the same role.
AddText(s, m) ==
  IF s # << >> /\ Last(s).role = m.role /\ IsText(Last(s))
    THEN Append(Front(s), Text(m.role, Last(s).own \/ m.own))
    ELSE Append(s, m)

\* history_to_claude_messages: the history from the first to the last user's text.
FromHistory(h) ==
  LET tail == IF h # << >> /\ Last(h).role = "assistant" THEN Front(h) ELSE h IN
  IF tail # << >> /\ Head(tail).role = "assistant" THEN Tail(tail) ELSE tail

\* The session with the new messages, last the turn's own if it has one; without a
\* session, the history.
Loaded(h, new) ==
  IF session = << >> THEN FromHistory(h) ELSE FoldLeft(AddText, session, new)
Others(n) == [i \in 1 .. n |-> Other]

Begin(m) ==
  /\ msgs' = m
  /\ pc' = IF Len(m) > MaxSession THEN "compact" ELSE "model"
  /\ UNCHANGED <<round, streak, retried, crowded, issued, truncated, flattened>>

\* A user's message is stored, and starts a turn.
Receive ==
  /\ pc = "idle" /\ turns < MaxTurns
  /\ turns' = turns + 1 /\ unseen' = unseen + 1
  /\ history' = IF session = << >> THEN AddText(history, Other) ELSE history
  /\ Begin(Loaded(AddText(history, Own), Append(Others(unseen), Own)))
  /\ UNCHANGED session

\* A scheduled run brings a prompt, which is not stored; it is a message of its own.
Prompt ==
  /\ pc = "idle" /\ turns < MaxTurns
  /\ turns' = turns + 1
  /\ Begin(Append(Loaded(history, Others(unseen)), Own))
  /\ UNCHANGED stored

-----------------------------------------------------------------------------
(* compact_messages, and ContextCompressor *)

Calls(s)   == UNION {s[i].calls : i \in DOMAIN s}
Results(s) == UNION {s[i].results : i \in DOMAIN s}

\* A mutant of SanitizePairs: a call keeps its place without its result.
SanitizePairsOfResults(s) ==
  [i \in DOMAIN s |-> [s[i] EXCEPT !.results = @ \cap Calls(s)]]

\* sanitize_tool_pairs: calls and results stay whose other half is anywhere; what is
\* left of a message without them is a text.
SanitizePairs(s) ==
  [i \in DOMAIN s |-> [s[i] EXCEPT !.calls = @ \cap Results(s), !.results = @ \cap Calls(s)]]

\* A message after one of the same role is made one text with it.
Merge(s, m) ==
  IF s # << >> /\ Last(s).role = m.role
    THEN Append(Front(s), Text(m.role, Last(s).own \/ m.own))
    ELSE Append(s, m)
Alternating(s) == FoldLeft(Merge, << >>, s)

\* The last message is the user's.
UserLast(s) == IF Last(s).role = "assistant" THEN Front(s) ELSE s

\* Head, summary and tail, with each call next to its result again.
Paired(s, head, tail) ==
  SanitizePairs(SubSeq(s, 1, head) \o <<Other, Said>> \o SubSeq(s, tail + 1, Len(s)))

EndTurn ==
  /\ pc' = "idle" /\ msgs' = << >> /\ round' = 0 /\ streak' = 0
  /\ retried' = FALSE /\ crowded' = FALSE

\* The tail is what fits into its budget of tokens, from the last message on. The
\* summary may fail, or the text to summarize may be cut inside a character, which
\* panics.
Compact ==
  /\ pc = "compact"
  /\ \E cut \in 0 .. Len(msgs) :
       LET head == Min({ProtectFirst, Len(msgs)})
           tail == Max({cut, head}) IN
       IF Len(msgs) <= KeepRecent \/ tail <= head
         THEN pc' = "model" /\ UNCHANGED <<msgs, round, streak, retried, crowded, truncated, flattened>>
         ELSE \/ LET paired == Paired(msgs, head, tail) IN
                 /\ msgs' = UserLast(Alternating(paired))
                 /\ flattened' = flattened \cup (Results(paired) \ Results(msgs'))
                 /\ crowded' = (tail = Len(msgs))
                 /\ pc' = "model" /\ UNCHANGED <<round, streak, retried, truncated>>
              \/ /\ msgs' = SubSeq(msgs, tail + 1, Len(msgs))
                 /\ crowded' = (tail = Len(msgs)) /\ truncated' = TRUE
                 /\ pc' = "model" /\ UNCHANGED <<round, streak, retried, flattened>>
              \/ EndTurn /\ UNCHANGED <<truncated, flattened>>
  /\ UNCHANGED <<stored, turns, issued>>

-----------------------------------------------------------------------------
(* The request to the model *)

\* Results stay whose call is in the assistant's message before them; a message
\* without any left is dropped.
SanitizeStep(st, m) ==
  LET kept == m.results \cap st.pending
      sent == [m EXCEPT !.results = kept] IN
  IF m.results = {} THEN [out |-> Append(st.out, m), pending |-> m.calls]
  ELSE [out |-> IF kept = {} THEN st.out ELSE Append(st.out, sent), pending |-> st.pending \ kept]

\* sanitize_messages, and for the OpenAI providers translate_messages_to_oai.
Request == FoldLeft(SanitizeStep, [out |-> << >>, pending |-> {}], msgs).out

-----------------------------------------------------------------------------
(* The loop *)

\* persist_session, whose failure is only logged, and the reply in the messages
\* table.
Save(m) ==
  /\ \/ /\ session' = [i \in DOMAIN m |-> [m[i] EXCEPT !.own = FALSE]]
        /\ unseen' = 0 /\ history' = << >>
     \/ /\ history' = IF session = << >> THEN AddText(history, Said) ELSE history
        /\ UNCHANGED <<session, unseen>>
  /\ EndTurn

\* A hook blocks the request: its reason is the reply, and nothing is saved.
Block ==
  /\ pc = "model" /\ round < MaxIterations
  /\ history' = IF session = << >> THEN AddText(history, Said) ELSE history
  /\ EndTurn
  /\ UNCHANGED <<session, unseen, turns, issued, truncated, flattened>>

\* The call of the model fails: nothing is saved.
Fail ==
  /\ pc = "model" /\ round < MaxIterations
  /\ EndTurn
  /\ UNCHANGED <<stored, turns, issued, truncated, flattened>>

\* The model ends its turn, or stops for an unknown reason, or says tool_use and
\* names no call.
Answer ==
  /\ pc = "model" /\ round < MaxIterations
  /\ Save(Append(msgs, Said))
  /\ UNCHANGED <<turns, issued, truncated, flattened>>

\* The first empty answer is given back to the model, with a remark.
AnswerEmpty ==
  /\ pc = "model" /\ round < MaxIterations /\ ~retried
  /\ retried' = TRUE /\ streak' = 0 /\ round' = round + 1
  /\ msgs' = msgs \o <<Said, Other>>
  /\ UNCHANGED <<stored, turns, pc, crowded, issued, truncated, flattened>>

\* The ids of k calls: some providers name each call, and for others the calls of
\* an answer are numbered.
NewIds(k) == {{issued + i : i \in 1 .. k}, {-i : i \in 1 .. k}}

\* The calls of an answer are executed, and their results are put together; a tool
\* that waits for the user's approval ends the turn. After too many answers with
\* the same calls they are not executed.
CallTools ==
  /\ pc = "model" /\ round < MaxIterations
  /\ \E k \in 1 .. MaxCalls, same \in BOOLEAN : \E ids \in NewIds(k) :
       LET run == IF same /\ streak > 0 THEN streak + 1 ELSE 1
           after == msgs \o <<[Said EXCEPT !.calls = ids],
                              [Other EXCEPT !.results = ids]>> IN
       /\ issued' = IF -1 \in ids THEN issued ELSE issued + k
       /\ IF run >= MaxStreak THEN Save(Append(msgs, Said))
          ELSE \/ Save(after)
               \/ /\ msgs' = after /\ round' = round + 1 /\ streak' = run
                  /\ UNCHANGED <<stored, pc, retried, crowded>>
  /\ UNCHANGED <<turns, truncated, flattened>>

\* The iterations are used up.
GiveUp ==
  /\ pc = "model" /\ round = MaxIterations
  /\ Save(Append(msgs, Said))
  /\ UNCHANGED <<turns, issued, truncated, flattened>>

Next ==
  \/ Receive \/ Prompt \/ Compact
  \/ Block \/ Fail \/ Answer \/ AnswerEmpty \/ CallTools \/ GiveUp

Spec == Init /\ [][Next]_vars

-----------------------------------------------------------------------------
(* Properties *)

AsksModel == pc = "model" /\ round < MaxIterations

\* What is asked of the model is a conversation that begins and ends with the user,
\* in which results follow their calls, and every call a provider has named is
\* answered by the next message: whatever was compacted, retried, given up or left
\* waiting for approval before. It is not so after a compaction that kept its tail
\* alone, nor for a call whose result became part of a summary's message.
RequestWellFormed ==
  AsksModel =>
    LET r == Request IN
    /\ ~truncated => r # << >> /\ Head(r).role = "user" /\ Last(r).role = "user"
    /\ \A i \in DOMAIN r : r[i].results # {} => i > 1 /\ r[i].results \subseteq r[i - 1].calls
    /\ \A i \in DOMAIN r : \A c \in r[i].calls :
         c > 0 /\ c \notin flattened => i < Len(r) /\ c \in r[i + 1].results

\* The model is asked what the turn is for, word for word, unless that message
\* alone was more than a compaction keeps.
AskReachesModel ==
  AsksModel /\ ~crowded => \E i \in DOMAIN Request : Request[i].own

(* What the documentation says, and the code does not do *)

\* compressor.rs:141 "Post-phase: Remove orphaned ToolUse/ToolResult blocks.": a
\* conversation that was compacted holds no call without its result.
NoOrphanedCalls ==
  AsksModel => \A c \in Calls(msgs) : c > 0 => c \in Results(msgs)

=============================================================================
