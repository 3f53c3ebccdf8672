----------------------------- MODULE WebStream -----------------------------
(***************************************************************************)
(* The web API's requests to the agent: the quota of RequestHub, the       *)
(* session locks of SessionHub, and the events of a streamed run, which    *)
(* RunHub keeps for a while and passes on to its viewers.                  *)
(*                                                                         *)
(* A send is a request whose handler runs the turn itself, so that a       *)
(* client that goes away drops it; a stream starts a task that outlives    *)
(* the request. The turn's events go through a channel to a forwarder,     *)
(* which publishes them; the task itself publishes the last one. What a    *)
(* turn does to the chat is in AgentSession.                               *)
(***************************************************************************)
EXTENDS Integers, Sequences, FiniteSets

CONSTANTS
  Streams, Sends,  \* requests of the two kinds
  Quotas,          \* the quotas of RequestHub: sessions and actors
  KeyOf,           \* the session of each request
  ActorOf,         \* its actor
  Viewers,         \* clients of /api/stream, and forwarders of a websocket
  NoRun,           \* a viewer watches no run yet
  MaxInflight,     \* web_max_inflight_per_session
  HistoryLimit,    \* web_run_history_limit
  Capacity,        \* of the broadcast channel of a run (512)
  MaxEvents,       \* bound: events of a turn
  MaxDrops         \* bound: clients that go away

Requests == Streams \cup Sends

ASSUME RequestsAssumption ==
  /\ IsFiniteSet(Streams) /\ IsFiniteSet(Sends) /\ Streams \cap Sends = {}
  /\ KeyOf \in [Requests -> Quotas] /\ ActorOf \in [Requests -> Quotas]
  /\ \A q, r \in Requests : KeyOf[q] # ActorOf[r]
  /\ NoRun \notin Requests
ASSUME LimitsAssumption ==
  /\ MaxInflight \in Nat \ {0} /\ HistoryLimit \in Nat \ {0} /\ Capacity \in Nat \ {0}
  /\ MaxEvents \in Nat /\ MaxDrops \in Nat

VARIABLES
  pc,         \* where each request is
  inflight,   \* SessionQuota.inflight
  entry,      \* SessionHub.locks: the lock object in the map; 0: none
  ref,        \* the lock object a request holds a reference to
  made,       \* lock objects made so far
  channel,    \* RunHub.channels: "none", "open" or "removed"
  published,  \* events published in a run; their ids are 1 to that
  last,       \* the id of its 'done' or 'error'; 0: not yet
  queued,     \* events on their way to the forwarder
  emitted,    \* events of the turn so far
  kind,       \* "sse" or "ws", for each viewer
  vpc,        \* where it is
  watch,      \* the run it watches
  backlog,    \* the events it was given when it subscribed and has not sent on
  next,       \* the id its receiver gives next
  ended,      \* the run was done when it subscribed
  seen,       \* the ids the client has got
  excused,    \* history: events were out of the history or of the channel
  drops       \* clients that went away

locks   == <<entry, ref, made>>
run     == <<channel, published, last, queued, emitted>>
viewer  == <<kind, vpc, watch, backlog, next, ended, seen, excused>>
vars    == <<pc, inflight, locks, run, viewer, drops>>

Counted == {"begun", "named", "lock", "turn", "drain", "panicked", "end"}
Holding == {"turn", "drain"}

TypeOK ==
  /\ pc \in [Requests -> {"new", "timer", "done", "gone"} \cup Counted]
  /\ inflight \in [Quotas -> Nat]
  /\ made \in Nat
  /\ entry \in [Quotas -> 0 .. made] /\ ref \in [Requests -> 0 .. made]
  /\ channel \in [Streams -> {"none", "open", "removed"}]
  /\ published \in [Streams -> Nat] /\ last \in [Streams -> Nat]
  /\ queued \in [Streams -> Nat] /\ emitted \in [Streams -> Nat]
  /\ kind \in [Viewers -> {"sse", "ws"}]
  /\ vpc \in [Viewers -> {"idle", "replay", "live", "over", "cut"}]
  /\ watch \in [Viewers -> Streams \cup {NoRun}]
  /\ backlog \in [Viewers -> Seq(Nat)] /\ seen \in [Viewers -> Seq(Nat)]
  /\ next \in [Viewers -> Nat]
  /\ ended \in [Viewers -> BOOLEAN] /\ excused \in [Viewers -> BOOLEAN]
  /\ drops \in Nat

Init ==
  /\ pc = [q \in Requests |-> "new"]
  /\ inflight = [b \in Quotas |-> 0]
  /\ entry = [b \in Quotas |-> 0] /\ ref = [q \in Requests |-> 0] /\ made = 0
  /\ channel = [q \in Streams |-> "none"]
  /\ published = [q \in Streams |-> 0] /\ last = [q \in Streams |-> 0]
  /\ queued = [q \in Streams |-> 0] /\ emitted = [q \in Streams |-> 0]
  /\ kind \in [Viewers -> {"sse", "ws"}]
  /\ vpc = [v \in Viewers |-> "idle"] /\ watch = [v \in Viewers |-> NoRun]
  /\ backlog = [v \in Viewers |-> << >>] /\ seen = [v \in Viewers |-> << >>]
  /\ next = [v \in Viewers |-> 1]
  /\ ended = [v \in Viewers |-> FALSE] /\ excused = [v \in Viewers |-> FALSE]
  /\ drops = 0

Goto(q, p) == pc' = [pc EXCEPT ![q] = p]
Drop == drops < MaxDrops /\ drops' = drops + 1

-----------------------------------------------------------------------------
(* RequestHub *)

QuotasOf(q) == {KeyOf[q], ActorOf[q]}

\* A mutant of Count: the session alone is counted back.
CountSession(q, d) ==
  inflight' = [b \in Quotas |->
                 IF b \in QuotasOf(q) /\ (d = 1 \/ b = KeyOf[q]) THEN inflight[b] + d ELSE inflight[b]]

\* Both counters of the request change by d.
Count(q, d) ==
  inflight' = [b \in Quotas |-> IF b \in QuotasOf(q) THEN inflight[b] + d ELSE inflight[b]]

\* begin: both quotas have room.
Begin(q) ==
  /\ pc[q] = "new"
  /\ \A b \in QuotasOf(q) : inflight[b] < MaxInflight
  /\ Count(q, 1)
  /\ Goto(q, "begun")
  /\ UNCHANGED <<locks, run, viewer, drops>>

\* begin: one of them has none, or the requests of the window are used up.
Refuse(q) ==
  /\ pc[q] = "new"
  /\ Goto(q, "done")
  /\ UNCHANGED <<inflight, locks, run, viewer, drops>>

\* end_with_limits.
End(q) ==
  /\ pc[q] = "end"
  /\ Count(q, -1)
  /\ Goto(q, IF q \in Streams THEN "timer" ELSE "done")
  /\ UNCHANGED <<locks, run, viewer, drops>>

-----------------------------------------------------------------------------
(* SessionHub *)

InUse(b) == {q \in Requests : ref[q] # 0 /\ ref[q] = entry[b]}

\* A mutant of Prunable: a lock that is only waited for may go.
PrunableUnlocked(k) ==
  {b \in Quotas \ {k} : entry[b] # 0 /\ \A q \in InUse(b) : pc[q] \notin Holding}

\* lock_for takes stale entries of other sessions out of the map when nobody has
\* a reference to their lock.
Prunable(k) == {b \in Quotas \ {k} : entry[b] # 0 /\ InUse(b) = {}}

\* lock_for, in one critical section: it prunes, and finds or makes the lock.
LockFor(q) ==
  LET k == KeyOf[q]
      fresh == entry[k] = 0
      mine == IF fresh THEN made + 1 ELSE entry[k] IN
  /\ pc[q] = IF q \in Streams THEN "named" ELSE "begun"
  /\ \E stale \in SUBSET Prunable(k) :
       entry' = [b \in Quotas |-> IF b = k THEN mine ELSE IF b \in stale THEN 0 ELSE entry[b]]
  /\ made' = IF fresh THEN made + 1 ELSE made
  /\ ref' = [ref EXCEPT ![q] = mine]
  /\ Goto(q, "lock")
  /\ UNCHANGED <<inflight, run, viewer, drops>>

LockFree(q) == \A r \in Requests : ref[r] = ref[q] => pc[r] \notin Holding

Unref(q) == ref' = [ref EXCEPT ![q] = 0] /\ UNCHANGED <<entry, made>>

-----------------------------------------------------------------------------
(* RunHub, and the task of a streamed run *)

\* RunHub::create.
Create(q) ==
  /\ pc[q] = "begun" /\ q \in Streams
  /\ channel' = [channel EXCEPT ![q] = "open"]
  /\ Goto(q, "named")
  /\ UNCHANGED <<inflight, locks, published, last, queued, emitted, viewer, drops>>

\* RunHub::publish; a run that was removed gets no more events.
Publish(q) == published' = [published EXCEPT ![q] = IF channel[q] = "open" THEN @ + 1 ELSE @]

\* The lock is taken, and the turn begins; a stream says so.
Start(q) ==
  /\ pc[q] = "lock" /\ LockFree(q)
  /\ Goto(q, "turn")
  /\ IF q \in Streams THEN Publish(q) ELSE UNCHANGED published
  /\ UNCHANGED <<inflight, locks, channel, last, queued, emitted, viewer, drops>>

\* The turn reports an iteration, a tool or a piece of text.
Emit(q) ==
  /\ q \in Streams /\ pc[q] = "turn" /\ emitted[q] < MaxEvents
  /\ emitted' = [emitted EXCEPT ![q] = @ + 1]
  /\ queued' = [queued EXCEPT ![q] = @ + 1]
  /\ UNCHANGED <<pc, inflight, locks, channel, published, last, viewer, drops>>

\* The forwarder publishes the next event.
Forward(q) ==
  /\ queued[q] > 0
  /\ queued' = [queued EXCEPT ![q] = @ - 1]
  /\ Publish(q)
  /\ UNCHANGED <<pc, inflight, locks, channel, last, emitted, viewer, drops>>

\* The end of a stream's turn: 'done' or 'error' is published, and then the
\* forwarder is waited for.
Finish(q) ==
  /\ q \in Streams /\ pc[q] = "turn"
  /\ Publish(q) /\ last' = [last EXCEPT ![q] = published[q] + 1]
  /\ Goto(q, "drain")
  /\ UNCHANGED <<inflight, locks, channel, queued, emitted, viewer, drops>>

\* The forwarder has ended, and the guard is dropped; a send has no events.
Release(q) ==
  /\ IF q \in Streams THEN pc[q] = "drain" /\ queued[q] = 0 ELSE pc[q] = "turn"
  /\ Unref(q)
  /\ Goto(q, "end")
  /\ UNCHANGED <<inflight, run, viewer, drops>>

\* The turn panics: the guard is dropped, the forwarder goes on by itself.
Panic(q) ==
  /\ q \in Streams /\ pc[q] = "turn" /\ Drop
  /\ Unref(q)
  /\ Goto(q, "panicked")
  /\ UNCHANGED <<inflight, run, viewer>>

PublishError(q) ==
  /\ pc[q] = "panicked"
  /\ Publish(q) /\ last' = [last EXCEPT ![q] = published[q] + 1]
  /\ Goto(q, "end")
  /\ UNCHANGED <<inflight, locks, channel, queued, emitted, viewer, drops>>

\* A mutant of Remove: the channel stays in the map.
RemoveNothing(q) ==
  /\ pc[q] = "timer"
  /\ Goto(q, "done")
  /\ UNCHANGED <<inflight, locks, run, viewer, drops>>

\* remove_later: after 300 seconds the channel goes, and its receivers are closed.
Remove(q) ==
  /\ pc[q] = "timer"
  /\ channel' = [channel EXCEPT ![q] = "removed"]
  /\ Goto(q, "done")
  /\ UNCHANGED <<inflight, locks, published, last, queued, emitted, viewer, drops>>

\* The client of a request goes away, and its handler is dropped at an await.
\* The task of a stream is out of reach once it is spawned.
Abandon(q) ==
  /\ pc[q] \in IF q \in Sends THEN {"begun", "lock", "turn", "end"} ELSE {"begun", "named"}
  /\ Drop
  /\ Unref(q)
  /\ Goto(q, "gone")
  /\ UNCHANGED <<inflight, run, viewer>>

-----------------------------------------------------------------------------
(* Viewers: api_stream, and the forwarder of a websocket *)

\* The oldest event in the history.
Oldest(q) == IF published[q] > HistoryLimit THEN published[q] - HistoryLimit + 1 ELSE 1
Known(q)  == pc[q] \notin {"new", "begun", "named", "gone"} /\ channel[q] = "open"
Got(v)    == IF seen[v] = << >> THEN 0 ELSE seen[v][Len(seen[v])]

\* A mutant of Replay: the event after the last one is left out too.
ReplayAfterNext(q, after) ==
  LET from == IF Oldest(q) > after THEN Oldest(q) ELSE after + 2 IN
  [i \in 1 .. (IF published[q] < from THEN 0 ELSE published[q] - from + 1) |-> from + i - 1]

\* The events of the history with a greater id.
Replay(q, after) ==
  LET from == IF Oldest(q) > after THEN Oldest(q) ELSE after + 1 IN
  [i \in 1 .. (IF published[q] < from THEN 0 ELSE published[q] - from + 1) |-> from + i - 1]

\* subscribe_with_replay, in one critical section; an SSE client that comes back
\* names the last event it got.
Subscribe(v, q) ==
  /\ vpc[v] = "idle" /\ watch[v] \in {NoRun, q} /\ Known(q)
  /\ watch' = [watch EXCEPT ![v] = q]
  /\ backlog' = [backlog EXCEPT ![v] = Replay(q, Got(v))]
  /\ next' = [next EXCEPT ![v] = published[q] + 1]
  /\ ended' = [ended EXCEPT ![v] = last[q] # 0]
  /\ excused' = [excused EXCEPT ![v] = @ \/ Oldest(q) > Got(v) + 1]
  /\ vpc' = [vpc EXCEPT ![v] = "replay"]
  /\ UNCHANGED <<pc, inflight, locks, run, kind, seen, drops>>

\* The client gets event n; the last one ends the stream.
Give(v, n, where) ==
  /\ seen' = [seen EXCEPT ![v] = Append(@, n)]
  /\ vpc' = [vpc EXCEPT ![v] = IF n = last[watch[v]] THEN "over" ELSE where]

SendReplay(v) ==
  /\ vpc[v] = "replay" /\ backlog[v] # << >>
  /\ Give(v, Head(backlog[v]), "replay")
  /\ backlog' = [backlog EXCEPT ![v] = Tail(@)]
  /\ UNCHANGED <<pc, inflight, locks, run, kind, watch, next, ended, excused, drops>>

EndReplay(v) ==
  /\ vpc[v] = "replay" /\ backlog[v] = << >>
  /\ vpc' = [vpc EXCEPT ![v] = IF ended[v] THEN "over" ELSE "live"]
  /\ UNCHANGED <<pc, inflight, locks, run, kind, watch, backlog, next, ended, seen, excused, drops>>

Behind(v) == published[watch[v]] - next[v] + 1

Receive(v) ==
  /\ vpc[v] = "live" /\ Behind(v) \in 1 .. Capacity
  /\ Give(v, next[v], "live")
  /\ next' = [next EXCEPT ![v] = @ + 1]
  /\ UNCHANGED <<pc, inflight, locks, run, kind, watch, backlog, ended, excused, drops>>

\* The receiver was overtaken: api_stream goes on with the oldest event that is
\* left, and the forwarder of a websocket ends.
Lag(v) ==
  /\ vpc[v] = "live" /\ Behind(v) > Capacity
  /\ IF kind[v] = "sse"
       THEN next' = [next EXCEPT ![v] = published[watch[v]] - Capacity + 1] /\ UNCHANGED vpc
       ELSE vpc' = [vpc EXCEPT ![v] = "cut"] /\ UNCHANGED next
  /\ excused' = [excused EXCEPT ![v] = TRUE]
  /\ UNCHANGED <<pc, inflight, locks, run, kind, watch, backlog, ended, seen, drops>>

\* The channel is gone, and what it held is read.
Closed(v) ==
  /\ vpc[v] = "live" /\ Behind(v) = 0 /\ channel[watch[v]] = "removed"
  /\ vpc' = [vpc EXCEPT ![v] = "over"]
  /\ UNCHANGED <<pc, inflight, locks, run, kind, watch, backlog, next, ended, seen, excused, drops>>

\* The client goes away; an SSE client may come back.
Hangup(v) ==
  /\ vpc[v] \in {"replay", "live"} /\ Drop
  /\ vpc' = [vpc EXCEPT ![v] = IF kind[v] = "sse" THEN "idle" ELSE "cut"]
  /\ UNCHANGED <<pc, inflight, locks, run, kind, watch, backlog, next, ended, seen, excused>>

-----------------------------------------------------------------------------
Serve(q) == Begin(q) \/ Refuse(q) \/ LockFor(q) \/ Start(q) \/ Release(q) \/ End(q) \/ Abandon(q)
Task(q)  == Create(q) \/ Emit(q) \/ Forward(q) \/ Finish(q) \/ Panic(q) \/ PublishError(q) \/ Remove(q)
View(v)  == SendReplay(v) \/ EndReplay(v) \/ Receive(v) \/ Lag(v) \/ Closed(v) \/ Hangup(v)

Next ==
  \/ \E q \in Requests : Serve(q)
  \/ \E q \in Streams : Task(q)
  \/ \E v \in Viewers : View(v) \/ \E q \in Streams : Subscribe(v, q)

Spec == Init /\ [][Next]_vars

(* The tasks of the process go on, and a connected client reads what it is  *)
(* sent; the turn itself need not end. Forward has no fairness of its own   *)
(* against the clients: the queue of events is finite.                      *)
FairSpec ==
  /\ Spec
  /\ \A q \in Streams : WF_vars(Forward(q)) /\ WF_vars(Release(q)) /\ WF_vars(PublishError(q))
                          /\ WF_vars(End(q)) /\ WF_vars(Remove(q))
  /\ \A v \in Viewers : WF_vars(SendReplay(v)) /\ WF_vars(EndReplay(v)) /\ WF_vars(Receive(v))
                          /\ WF_vars(Lag(v)) /\ WF_vars(Closed(v))

-----------------------------------------------------------------------------
(* Properties *)

\* Two turns of one session never overlap, although the map forgets the locks it
\* takes for stale: a lock that somebody waits for is never replaced.
SessionMutex ==
  \A q, r \in Requests :
    q # r /\ KeyOf[q] = KeyOf[r] => ~(pc[q] \in Holding /\ pc[r] \in Holding)

\* What a quota counts is the requests that have begun and not ended, and those
\* whose client went away, which are counted for ever.
InflightAccounted ==
  \A b \in Quotas :
    inflight[b] = Cardinality({q \in Requests : pc[q] \in Counted \cup {"gone"} /\ b \in QuotasOf(q)})

\* A client whose stream is over got every event up to the last one, each once and
\* in order, however often it came back and whenever it subscribed, unless the
\* history or the channel had lost some of them before it read them.
SeenWhole ==
  \A v \in Viewers :
    vpc[v] = "over" /\ ~excused[v] => seen[v] = [i \in 1 .. last[watch[v]] |-> i]

\* A viewer of a run that has published its last event does not wait for ever, even
\* if later events have pushed that one out of the channel before it read it.
ViewEnds ==
  \A v \in Viewers :
    vpc[v] \in {"replay", "live"} /\ last[watch[v]] # 0 ~> vpc[v] \notin {"replay", "live"}

=============================================================================
