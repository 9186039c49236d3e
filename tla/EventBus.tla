------------------------------ MODULE EventBus ------------------------------
(***************************************************************************)
(* The in-process event bus of the web UI and one browser tab that listens *)
(* to it over server-sent events (gateway/webui/events.py, and the client  *)
(* side of the cursor in frontend/src/sse/events.ts).                      *)
(*                                                                         *)
(* A publisher thread numbers an event and stores it in a bounded backlog  *)
(* under the publish lock, then hands it to the event loop without the     *)
(* lock.  The loop puts it in the bounded queue of the subscription, and   *)
(* the SSE handler writes it to the client.  A client that comes back      *)
(* names the last event it remembers, the handler replays the backlog      *)
(* after it, raises the connection's watermark, and drops from its queue   *)
(* what the replay has already written.  Lost events are to be announced   *)
(* with a version_gap frame, on which the client reads a snapshot.         *)
(*                                                                         *)
(* Writing a frame and the client's receiving it are one step: a frame     *)
(* lost in the network is a connection lost before the frame was written.  *)
(***************************************************************************)
EXTENDS Naturals, Sequences, FiniteSets, SequencesExt

CONSTANTS
    Threads,        \* threads that call EventBus.publish
    Topics,         \* what an event is about: a conversation, a bridge, a global notice
    Scope,          \* the topics the client's subscription scope matches
    Conversations,  \* topics whose events carry a conversation_id
    Keyed,          \* topics whose events carry a conversation_id or a session_key
    QueueMax,       \* _QUEUE_MAX, the size of a subscriber's queue
    BacklogMax,     \* _BACKLOG_MAX, the size of the ring backlog
    Expiry,         \* whether backlog entries may outlive _BACKLOG_TTL
    MaxEvents,      \* bound: events published in a behaviour
    MaxConns,       \* bound: connections of the client
    MaxRestarts     \* bound: restarts of the gateway process

ASSUME BusAssumption ==
    /\ Scope \subseteq Topics /\ Keyed \subseteq Topics /\ Conversations \subseteq Keyed
    /\ QueueMax \in Nat \ {0} /\ BacklogMax \in Nat \ {0}
    /\ Expiry \in BOOLEAN
    /\ MaxEvents \in Nat /\ MaxConns \in Nat /\ MaxRestarts \in Nat
    /\ "none" \notin Topics

VARIABLES
    seq,        \* EventBus._seq, the last event_id of this process
    backlog,    \* EventBus._backlog
    horizon,    \* event_ids up to here are older than _BACKLOG_TTL
    pub,        \* per thread: the event it has numbered and not yet handed to the loop
    soon,       \* the loop's call_soon_threadsafe callbacks, in order
    conn,       \* number of the client's latest connection
    phase,      \* where that connection's SSEHandler.handle is
    subscribed, \* whether the connection is in EventBus._subs
    queue,      \* its asyncio.Queue
    watermark,  \* its de-duplication watermark
    toSend,     \* replayed events and gap frame still to write
    stored,     \* the client's event id in sessionStorage
    pending,    \* pendingEventId: received and not yet stored, 0 if none
    closed,     \* close_all has run
    restarts,   \* process restarts so far
    total,      \* history: events published so far, over all processes
    topicOf,    \* history: topic of the n-th event
    known,      \* history: events the client got, or was told to read from a snapshot
    delivered   \* history: the events written on this connection, in order

server == <<seq, backlog, horizon, pub, soon>>
link == <<conn, phase, subscribed, queue, watermark, toSend>>
client == <<stored, pending, known, delivered>>
vars == <<server, link, client, closed, restarts, total, topicOf>>

-----------------------------------------------------------------------------
(* Frames: events, version_gap notices and the shutdown sentinel.  n is the  *)
(* event's place in the history, event_id starts again with the process.     *)

Frame == [kind: {"event", "gap", "stop"}, id: 0..MaxEvents, n: 0..MaxEvents,
          topic: Topics \cup {"none"}]
Event(i, n, t) == [kind |-> "event", id |-> i, n |-> n, topic |-> t]
Stop == [kind |-> "stop", id |-> 0, n |-> 0, topic |-> "none"]
NoEvent == Event(0, 0, "none")

\* _gap_event: the notice stands for the dropped event and carries its id.
Gap(e) == [e EXCEPT !.kind = "gap"]
HasGap(e) == e.kind # "stop" /\ e.topic \in Keyed

\* A plausible slip: make room for the event and forget the notice.
PutDropSilently(q, e) ==
    Append(IF Len(q) >= QueueMax THEN Tail(q) ELSE q, e)

\* _put_drop_oldest: a full queue loses its oldest entry to the new event, and
\* one more to the notice about the first.
PutDropOldest(q, e) ==
    LET room(s) == IF Len(s) >= QueueMax THEN Tail(s) ELSE s
        put == Append(room(q), e)
    IN  IF Len(q) >= QueueMax /\ HasGap(Head(q))
        THEN Append(room(put), Gap(Head(q)))
        ELSE put

\* A plausible slip: a list instead of a ring.
RememberAll(b, e) == Append(b, e)

\* The ring forgets its oldest entry when it is full.
Remember(b, e) == LET all == Append(b, e)
                  IN  IF Len(all) > BacklogMax THEN Tail(all) ELSE all

-----------------------------------------------------------------------------
(* Publishing. *)

\* publish, under the lock: number the event, store it, copy the subscribers.
PublishNumber(t) ==
    /\ pub[t].evt = NoEvent
    /\ total < MaxEvents
    /\ \E topic \in Topics :
         LET e == Event(seq + 1, total + 1, topic)
         IN  /\ backlog' = Remember(backlog, e)
             /\ pub' = [pub EXCEPT ![t] = [evt |-> e, sub |-> IF subscribed THEN conn ELSE 0]]
             /\ topicOf' = Append(topicOf, topic)
    /\ seq' = seq + 1
    /\ total' = total + 1
    /\ UNCHANGED <<horizon, soon, link, client, closed, restarts>>

\* publish, after the lock: encode, filter by scope, call_soon_threadsafe.
PublishSchedule(t) ==
    /\ pub[t].evt # NoEvent
    /\ soon' = IF pub[t].sub # 0 /\ pub[t].evt.topic \in Scope
               THEN Append(soon, pub[t]) ELSE soon
    /\ pub' = [pub EXCEPT ![t] = [evt |-> NoEvent, sub |-> 0]]
    /\ UNCHANGED <<seq, backlog, horizon, link, client, closed, restarts, total, topicOf>>

\* The loop runs the callback; the queue of an ended connection is unread.
RunSoon ==
    /\ soon # <<>>
    /\ soon' = Tail(soon)
    /\ queue' = IF Head(soon).sub = conn /\ phase # "off"
                THEN PutDropOldest(queue, Head(soon).evt) ELSE queue
    /\ UNCHANGED <<seq, backlog, horizon, pub, conn, phase, subscribed, watermark, toSend,
                   client, closed, restarts, total, topicOf>>

\* Time passes: backlog entries become older than the TTL, the oldest first.
Expire ==
    /\ Expiry
    /\ horizon < seq
    /\ horizon' = horizon + 1
    /\ UNCHANGED <<seq, backlog, pub, soon, link, client, closed, restarts, total, topicOf>>

-----------------------------------------------------------------------------
(* The SSE handler. *)

\* A client that names no event asks for nothing that happened before.
Subscribe ==
    /\ phase = "off" /\ ~closed
    /\ conn < MaxConns
    /\ conn' = conn + 1
    /\ phase' = "connected"
    /\ subscribed' = TRUE
    /\ queue' = <<>>
    /\ watermark' = seq
    /\ toSend' = <<>>
    /\ delivered' = <<>>
    /\ known' = IF stored = 0 THEN 1..total ELSE known
    /\ UNCHANGED <<server, stored, pending, closed, restarts, total, topicOf>>

Live(e) == e.id > horizon
\* A plausible slip: start one event too late.
ReplayedLate(last) ==
    {e \in Range(backlog) : e.id > last + 1 /\ Live(e) /\ e.topic \in Scope}

\* replay: unexpired entries of the scope after the named event.
Replayed(last) ==
    {e \in Range(backlog) : e.id > last /\ Live(e) /\ e.topic \in Scope}

\* The order of the ring: the sequence (there is one) of the entries in S by event_id.
InOrder(S) == {q \in [1..Cardinality(S) -> S] : \A a, b \in DOMAIN q : a < b => q[a].id < q[b].id}

\* min_replayable_event_id
MinReplayable == LET usable == {e.id : e \in {f \in Range(backlog) : Live(f)}}
                 IN  IF usable = {} THEN 0 ELSE Min(usable)

\* The last replayed entry with a conversation_id: there is one, or none.
LastNamed(replayed) ==
    {e \in Range(replayed) : /\ e.topic \in Conversations
                             /\ \A f \in Range(replayed) : f.topic \in Conversations => f.id <= e.id}

\* A plausible slip: the comparison off by one more.
BacklogGapLate(last, replayed) ==
    IF MinReplayable <= last + 2 \/ LastNamed(replayed) = {} THEN {<<>>}
    ELSE {<< [Gap(e) EXCEPT !.id = Last(replayed).id] >> : e \in LastNamed(replayed)}

\* _backlog_gap_frame: one frame or none; only with a conversation_id found among the
\* replayed events.
BacklogGap(last, replayed) ==
    IF MinReplayable <= last + 1 \/ LastNamed(replayed) = {} THEN {<<>>}
    ELSE {<< [Gap(e) EXCEPT !.id = Last(replayed).id] >> : e \in LastNamed(replayed)}

\* A plausible slip: keep the watermark of the subscription.
ReplayPlanSameMark ==
    \E replayed \in InOrder(Replayed(stored)) :
        /\ \E gap \in BacklogGap(stored, replayed) : toSend' = replayed \o gap
        /\ watermark' = watermark

\* _replay_plan: what to write first and the raised watermark.
ReplayPlan ==
    \E replayed \in InOrder(Replayed(stored)) :
        /\ \E gap \in BacklogGap(stored, replayed) : toSend' = replayed \o gap
        /\ watermark' = IF replayed # <<>> /\ Last(replayed).id > watermark
                        THEN Last(replayed).id ELSE watermark

\* After ": connected" the handler plans the replay, if an id was named.
PlanReplay ==
    /\ phase = "connected"
    /\ phase' = "replay"
    /\ IF stored > 0 THEN ReplayPlan ELSE UNCHANGED <<toSend, watermark>>
    /\ UNCHANGED <<server, conn, subscribed, queue, client, closed, restarts, total, topicOf>>

\* recordSseEventId: at once when the last write is a second old, else with
\* the largest id of the window; the first id ever is written at once.
Record(id) ==
    LET top == IF id > pending THEN id ELSE pending
    IN  \/ stored' = top /\ pending' = 0
        \/ stored > 0 /\ stored' = stored /\ pending' = top

\* The client gets a frame.  An event it has; on a gap of a conversation it
\* reads the snapshot, which covers everything published so far.
Deliver(f) ==
    /\ Record(f.id)
    /\ delivered' = IF f.kind = "event" THEN Append(delivered, f.n) ELSE delivered
    /\ known' = IF f.kind = "event" THEN known \cup {f.n}
                ELSE IF f.topic \in Conversations
                     THEN known \cup {n \in 1..total : topicOf[n] = f.topic}
                     ELSE known

\* flushPendingEventId: the throttle window ends.
FlushPending ==
    /\ pending > 0
    /\ stored' = pending
    /\ pending' = 0
    /\ UNCHANGED <<server, link, known, delivered, closed, restarts, total, topicOf>>

SendReplay ==
    /\ phase = "replay" /\ toSend # <<>>
    /\ Deliver(Head(toSend))
    /\ toSend' = Tail(toSend)
    /\ UNCHANGED <<server, conn, phase, subscribed, queue, watermark,
                   closed, restarts, total, topicOf>>

GoLive ==
    /\ phase = "replay" /\ toSend = <<>>
    /\ phase' = "live"
    /\ UNCHANGED <<server, conn, subscribed, queue, watermark, toSend,
                   client, closed, restarts, total, topicOf>>

\* The live loop: leave on the sentinel, drop what the replay covered, write the rest.
SendLive ==
    /\ phase = "live" /\ queue # <<>>
    /\ queue' = Tail(queue)
    /\ IF Head(queue) = Stop
       THEN phase' = "off" /\ subscribed' = FALSE /\ UNCHANGED client
       ELSE /\ UNCHANGED <<phase, subscribed>>
            /\ IF Head(queue).id <= watermark THEN UNCHANGED client
               ELSE Deliver(Head(queue))
    /\ UNCHANGED <<server, conn, watermark, toSend, closed, restarts, total, topicOf>>

\* The connection breaks: a write raises and the handler unsubscribes.
Disconnect ==
    /\ phase # "off"
    /\ phase' = "off"
    /\ subscribed' = FALSE
    /\ queue' = <<>>
    /\ toSend' = <<>>
    /\ UNCHANGED <<server, conn, watermark, client, closed, restarts, total, topicOf>>

\* A plausible slip: clear the subscriptions and wake nobody.
PutNoSentinel == queue

\* close_all: the sentinel is given up when the queue is full.
PutSentinel == IF phase # "off" /\ subscribed /\ Len(queue) < QueueMax
               THEN Append(queue, Stop) ELSE queue

CloseAll ==
    /\ ~closed
    /\ closed' = TRUE
    /\ subscribed' = FALSE
    /\ queue' = PutSentinel
    /\ UNCHANGED <<server, conn, phase, watermark, toSend, client, restarts, total, topicOf>>

\* The process is started again: numbering and backlog begin anew, the client's
\* stored id does not.
Restart ==
    /\ restarts < MaxRestarts
    /\ restarts' = restarts + 1
    /\ seq' = 0 /\ backlog' = <<>> /\ horizon' = 0
    /\ pub' = [t \in Threads |-> [evt |-> NoEvent, sub |-> 0]] /\ soon' = <<>>
    /\ phase' = "off" /\ subscribed' = FALSE /\ queue' = <<>> /\ toSend' = <<>>
    /\ closed' = FALSE
    /\ UNCHANGED <<conn, watermark, client, total, topicOf>>

-----------------------------------------------------------------------------
Init ==
    /\ seq = 0 /\ backlog = <<>> /\ horizon = 0
    /\ pub = [t \in Threads |-> [evt |-> NoEvent, sub |-> 0]] /\ soon = <<>>
    /\ conn = 0 /\ phase = "off" /\ subscribed = FALSE
    /\ queue = <<>> /\ watermark = 0 /\ toSend = <<>>
    /\ stored = 0 /\ pending = 0 /\ known = {} /\ delivered = <<>>
    /\ closed = FALSE /\ restarts = 0
    /\ total = 0 /\ topicOf = <<>>

Handler == PlanReplay \/ SendReplay \/ GoLive \/ SendLive

Next ==
    \/ \E t \in Threads : PublishNumber(t) \/ PublishSchedule(t)
    \/ RunSoon \/ Expire
    \/ Subscribe \/ Handler \/ Disconnect
    \/ FlushPending
    \/ CloseAll \/ Restart

Spec == Init /\ [][Next]_vars

\* The handler is a coroutine of the running loop, and the client reads.
FairSpec == Spec /\ WF_vars(Handler) /\ WF_vars(RunSoon)

-----------------------------------------------------------------------------
(* Properties. *)

\* Types; a subscriber's queue stays within _QUEUE_MAX, the backlog within its ring.
TypeOK ==
    /\ seq \in 0..MaxEvents /\ total \in 0..MaxEvents /\ horizon \in 0..seq
    /\ backlog \in Seq(Frame) /\ Len(backlog) <= BacklogMax
    /\ pub \in [Threads -> [evt: Frame, sub: 0..MaxConns]]
    /\ soon \in Seq([evt: Frame, sub: 0..MaxConns])
    /\ conn \in 0..MaxConns /\ phase \in {"off", "connected", "replay", "live"}
    /\ subscribed \in BOOLEAN
    /\ queue \in Seq(Frame) /\ Len(queue) <= QueueMax
    /\ watermark \in 0..MaxEvents /\ toSend \in Seq(Frame)
    /\ stored \in 0..MaxEvents /\ pending \in 0..MaxEvents
    /\ known \subseteq 1..total /\ delivered \in Seq(1..MaxEvents)
    /\ closed \in BOOLEAN /\ restarts \in 0..MaxRestarts
    /\ topicOf \in Seq(Topics) /\ Len(topicOf) = total

\* events.py handle: "保证同 id 事件只投递一次".  Whatever is published while a
\* client reconnects, one connection carries an event at most once: replay and
\* live queue overlap, and the raised watermark separates them.
OncePerConnection == IsInjective(delivered)

\* Events published by one thread reach a connection in their order, across
\* the seam between replay and live queue.
DeliveredInOrder ==
    \A i, j \in 1..Len(delivered) : i < j => delivered[i] < delivered[j]

Quiet == /\ phase = "live" /\ queue = <<>> /\ soon = <<>>
         /\ \A t \in Threads : pub[t].evt = NoEvent

\* events.py: "支持 Last-Event-ID 断线补齐", and lost events are announced by
\* version_gap.  When nothing is on its way any more, a connected client has
\* every event of its scope, or was told to read the snapshot that holds it.
NoSilentLoss ==
    Quiet /\ ~closed => \A n \in 1..total : topicOf[n] \in Scope => n \in known

\* _put_drop_oldest: a subscriber too slow for its queue loses events and is told.
\* While it stays connected it has every event of its conversation, or was told,
\* in whatever order threads publish.
OverflowAnnounced == conn = 1 /\ restarts = 0 => NoSilentLoss

\* Under pressure a connection carries no event twice, and a client that stays connected is
\* told of everything the full queue of its connection lost (_put_drop_oldest, version_gap).
PressureIsTold == OncePerConnection /\ OverflowAnnounced

\* events.py close_all: the sentinel is there to make every SSE handler exit,
\* so that the server's cleanup does not hang on a stream that never ends.
ShutdownEndsStreams == closed ~> (phase = "off" \/ ~closed)
=============================================================================
