----------------------------- MODULE BusProofs ------------------------------
(***************************************************************************)
(* Proofs about EventBus, for any set of threads and topics, any size of   *)
(* queue and backlog, and any number of events and connections.            *)
(*                                                                         *)
(* What is on its way to a connection stands in one line: the events a     *)
(* thread has numbered, the callbacks of the loop, the queue (InLine).  A  *)
(* replay writes a sorted part of the backlog that ends at the watermark   *)
(* it raises (ReplayOrder); whatever waits above the watermark has not     *)
(* been written, and whatever waits below it is dropped (Seam).  So no     *)
(* connection writes an event twice, and with one publisher it writes them *)
(* in order.                                                               *)
(*                                                                         *)
(* That nothing is lost silently is a balance: an event of the scope is    *)
(* known to the client, or on its way (Coming), or a notice about it is.   *)
(* Told keeps it for a client that stays connected, under any pressure on  *)
(* its queue.  Across reconnections it takes what the cursor promises      *)
(* (Cursor: nothing unknown lies before an event the client may name),     *)
(* what the replay makes of it (Seen: up to the watermark) and what is     *)
(* published after it (Supply: above the watermark).                       *)
(***************************************************************************)
EXTENDS EventBus, TLAPS, FiniteSetTheorems

\* One publishing thread.
Lone == \A s, t \in Threads : s = t

\* x may come before y: another event, and an earlier one if one thread publishes.
Follows(x, y) == x # y /\ (Lone => x < y)

\* An event's place in the history follows from the event_id the process gave it.
Numbered(f, s, past) == f.kind = "event" => f.id \in 1..s /\ f.n = f.id + past

EventsNumbered ==
    /\ seq <= total
    /\ \A i \in 1..Len(backlog) : backlog[i].kind = "event" /\ Numbered(backlog[i], seq, total - seq)
    /\ \A t \in Threads : pub[t].evt # NoEvent => pub[t].evt.kind = "event" /\ Numbered(pub[t].evt, seq, total - seq)
    /\ \A i \in 1..Len(soon) : soon[i].evt.kind = "event" /\ Numbered(soon[i].evt, seq, total - seq)
    /\ \A i \in 1..Len(queue) : Numbered(queue[i], seq, total - seq)
    /\ \A i \in 1..Len(toSend) : Numbered(toSend[i], seq, total - seq)
    /\ \A i \in 1..Len(delivered) : delivered[i] \in 1..total

\* What is on its way to the connection holds no event twice, and holds the events of
\* one thread in their order.
InLine ==
    /\ \A s, t \in Threads : s # t /\ pub[s].evt # NoEvent /\ pub[t].evt # NoEvent
         => pub[s].evt.n # pub[t].evt.n
    /\ \A i, j \in 1..Len(soon) : i < j => Follows(soon[i].evt.n, soon[j].evt.n)
    /\ \A i \in 1..Len(soon), t \in Threads :
         pub[t].evt # NoEvent => Follows(soon[i].evt.n, pub[t].evt.n)
    /\ \A i, j \in 1..Len(queue) : i < j /\ queue[i].kind = "event" /\ queue[j].kind = "event"
         => Follows(queue[i].n, queue[j].n)
    /\ \A i \in 1..Len(queue), j \in 1..Len(soon) :
         queue[i].kind = "event" => Follows(queue[i].n, soon[j].evt.n)
    /\ \A i \in 1..Len(queue), t \in Threads :
         queue[i].kind = "event" /\ pub[t].evt # NoEvent => Follows(queue[i].n, pub[t].evt.n)

\* Whatever is still to be written may come after the event at place x.
Ahead(x) ==
    /\ \A i \in 1..Len(queue) : queue[i].kind = "event" /\ queue[i].id > watermark => Follows(x, queue[i].n)
    /\ \A i \in 1..Len(soon) : soon[i].evt.id > watermark => Follows(x, soon[i].evt.n)
    /\ \A t \in Threads :
         pub[t].evt # NoEvent /\ pub[t].evt.id > watermark => Follows(x, pub[t].evt.n)

\* A replay writes what is not above the watermark, each event once and in order.
ReplayOrder ==
    /\ phase \in {"connected", "live"} => toSend = <<>>
    /\ \A i \in 1..Len(toSend) : toSend[i].kind = "event" =>
         /\ toSend[i].id <= watermark
         /\ \A j \in 1..Len(toSend) : i < j /\ toSend[j].kind = "event" => toSend[i].n < toSend[j].n
         /\ \A d \in 1..Len(delivered) : Follows(delivered[d], toSend[i].n)

\* The seam: what waits above the watermark has not been written.
Seam ==
    /\ phase # "off" => watermark <= seq /\ \A d \in 1..Len(delivered) : Ahead(delivered[d])
    /\ phase = "connected" => delivered = <<>>
    /\ phase = "replay" => \A d \in 1..Len(delivered) : delivered[d] <= watermark + (total - seq)
    /\ \A c, d \in 1..Len(delivered) : c < d => Follows(delivered[c], delivered[d])

\* While the process has not been restarted and the client is on its first connection.
FirstConn == conn = 1 /\ restarts = 0 /\ phase # "off"

\* The event at place n is on its way to the connection.
Coming(n) ==
    \/ \E i \in 1..Len(queue) : queue[i].kind = "event" /\ queue[i].n = n
    \/ \E i \in 1..Len(soon) : soon[i].sub = conn /\ soon[i].evt.n = n
    \/ \E t \in Threads : pub[t].evt # NoEvent /\ pub[t].sub = conn /\ pub[t].evt.n = n

\* An event names the topic it was published under, and only the scope is delivered.
Named ==
    /\ \A t \in Threads : pub[t].evt # NoEvent => topicOf[pub[t].evt.n] = pub[t].evt.topic
    /\ \A i \in 1..Len(soon) : soon[i].evt.topic \in Scope
    /\ FirstConn => \A i \in 1..Len(queue) : queue[i].kind # "stop" => queue[i].topic \in Scope

\* The first connection subscribes before it has named an event, so it replays nothing and
\* its watermark lies before everything it is sent; and it stays subscribed until the close.
Fresh ==
    /\ conn = 0 \/ (conn = 1 /\ phase = "connected") => stored = 0 /\ pending = 0
    /\ conn = 0 => phase = "off"
    /\ restarts = 0 => seq = total
    /\ \A t \in Threads : pub[t].sub <= conn
    /\ \A i \in 1..Len(soon) : soon[i].sub <= conn
    /\ FirstConn =>
         /\ toSend = <<>>
         /\ ~closed => subscribed
         /\ \A t \in Threads : pub[t].evt # NoEvent /\ pub[t].sub = 1 => pub[t].evt.id > watermark
         /\ \A i \in 1..Len(soon) : soon[i].sub = 1 => soon[i].evt.id > watermark
         /\ \A i \in 1..Len(queue) : queue[i].kind # "stop" => queue[i].id > watermark
         /\ \A i \in 1..Len(queue) : queue[i].kind = "stop" => closed

\* A client that stays connected has an event of its scope, will get it, or will be told.
Told ==
    FirstConn /\ ~closed =>
        \/ \E i \in 1..Len(queue) : queue[i].kind = "gap"
        \/ \A n \in 1..total : topicOf[n] \in Scope => n \in known \/ Coming(n)

-----------------------------------------------------------------------------
(* Types and numbers. *)

\* An event with the connection it was handed to.
Slot == [evt: Frame, sub: 0..MaxConns]

Shape == TypeOK /\ EventsNumbered

\* Sequences, element by element.
LEMMA AppendElements ==
    ASSUME NEW S, NEW q \in Seq(S), NEW x \in S
    PROVE  /\ Append(q, x) \in Seq(S) /\ Len(Append(q, x)) = Len(q) + 1 /\ Len(q) \in Nat
           /\ \A i \in 1..Len(q) : Append(q, x)[i] = q[i]
           /\ Append(q, x)[Len(q) + 1] = x
OBVIOUS

LEMMA TailElements ==
    ASSUME NEW S, NEW q \in Seq(S), q # <<>>
    PROVE  /\ Tail(q) \in Seq(S) /\ Len(Tail(q)) = Len(q) - 1 /\ Len(q) \in Nat \ {0}
           /\ Head(q) \in S /\ Head(q) = q[1]
           /\ \A i \in 1..Len(Tail(q)) : i + 1 \in 1..Len(q) /\ Tail(q)[i] = q[i + 1]
OBVIOUS

LEMMA FrameFacts ==
    /\ \A i, n \in 0..MaxEvents, t \in Topics : Event(i, n, t) \in Frame
    /\ NoEvent \in Frame /\ Stop \in Frame
    /\ \A e \in Frame : Gap(e) \in Frame
    /\ \A e \in Frame, i \in 0..MaxEvents : [Gap(e) EXCEPT !.id = i] \in Frame
<1>1. 0 \in 0..MaxEvents
  BY BusAssumption
<1>2. \A i, n \in 0..MaxEvents, t \in Topics \cup {"none"} : Event(i, n, t) \in Frame
  BY DEF Frame, Event
<1>3. NoEvent \in Frame
  BY <1>1, <1>2 DEF NoEvent
<1>4. Stop \in Frame
  BY <1>1 DEF Frame, Stop
<1>5. \A e \in Frame : Gap(e) \in Frame
  BY DEF Frame, Gap
<1>6. \A e \in Frame, i \in 0..MaxEvents : [e EXCEPT !.id = i] \in Frame
  BY DEF Frame
<1> QED
  BY <1>2, <1>3, <1>4, <1>5, <1>6

\* Making room drops from the front, so every frame of the result is an old one or new.
LEMMA PutDropOldestFacts ==
    ASSUME NEW q \in Seq(Frame), Len(q) <= QueueMax, NEW e \in Frame
    PROVE  LET p == PutDropOldest(q, e)
           IN  /\ p \in Seq(Frame) /\ Len(p) <= QueueMax
               /\ \/ p = Append(q, e)
                  \/ q # <<>> /\ p = Append(Tail(q), e) /\ ~HasGap(Head(q))
                  \/ /\ q # <<>> /\ HasGap(Head(q))
                     /\ p = Append(Tail(Append(Tail(q), e)), Gap(Head(q)))
<1> DEFINE p == PutDropOldest(q, e)
<1>1. CASE Len(q) < QueueMax
  <2>1. ~(Len(q) >= QueueMax)
    BY <1>1, BusAssumption
  <2>2. p = Append(q, e)
    BY <2>1 DEF PutDropOldest
  <2> QED
    BY <2>2, <1>1, BusAssumption
<1>2. CASE Len(q) = QueueMax
  <2>1. q # <<>> /\ Len(q) >= QueueMax /\ Head(q) \in Frame /\ Tail(q) \in Seq(Frame)
        /\ Len(Tail(q)) = QueueMax - 1
    BY <1>2, BusAssumption
  <2>2. Append(Tail(q), e) \in Seq(Frame) /\ Len(Append(Tail(q), e)) = QueueMax
    BY <2>1, BusAssumption
  <2>3. CASE HasGap(Head(q))
    <3>1. p = Append(Tail(Append(Tail(q), e)), Gap(Head(q)))
      BY <2>1, <2>2, <2>3, BusAssumption DEF PutDropOldest
    <3>2. Gap(Head(q)) \in Frame
      BY <2>1, FrameFacts
    <3>3. Tail(Append(Tail(q), e)) \in Seq(Frame) /\ Len(Tail(Append(Tail(q), e))) = QueueMax - 1
      BY <2>2, BusAssumption
    <3>4. p \in Seq(Frame) /\ Len(p) = QueueMax
      BY <3>1, <3>2, <3>3, BusAssumption
    <3> QED
      BY <3>1, <3>4, <2>1, <2>3, BusAssumption
  <2>4. CASE ~HasGap(Head(q))
    <3>1. p = Append(Tail(q), e)
      BY <2>1, <2>4 DEF PutDropOldest
    <3> QED
      BY <3>1, <2>1, <2>2, <2>4, BusAssumption
  <2> QED
    BY <2>3, <2>4
<1>3. Len(q) < QueueMax \/ Len(q) = QueueMax
  BY BusAssumption
<1> QED
  BY <1>1, <1>2, <1>3

\* The events left in the queue keep their order, and the new one comes last.
LEMMA PutDropOldestShift ==
    ASSUME NEW q \in Seq(Frame), Len(q) <= QueueMax, NEW e \in Frame,
           NEW p, p = PutDropOldest(q, e)
    PROVE  \E k \in 0..2 : \A i \in 1..Len(p) : p[i].kind = "event" =>
             i + k \in 1..Len(q) + 1 /\ p[i] = IF i + k = Len(q) + 1 THEN e ELSE q[i + k]
<1> DEFINE put == Append(Tail(q), e)
<1>1. CASE p = Append(q, e)
  <2>1. \A i \in 1..Len(p) : i + 0 \in 1..Len(q) + 1 /\ p[i] = IF i + 0 = Len(q) + 1 THEN e ELSE q[i + 0]
    BY <1>1, AppendElements
  <2> QED
    BY <2>1
<1>2. CASE q # <<>> /\ p = put
  <2>1. /\ Tail(q) \in Seq(Frame) /\ Len(Tail(q)) = Len(q) - 1 /\ Len(q) \in Nat \ {0}
        /\ \A i \in 1..Len(Tail(q)) : Tail(q)[i] = q[i + 1]
    BY <1>2, TailElements
  <2>2. /\ Len(p) = Len(q) /\ p[Len(q)] = e /\ \A i \in 1..(Len(q) - 1) : p[i] = q[i + 1]
    BY <2>1, <1>2, AppendElements
  <2>3. \A i \in 1..Len(p) : i + 1 \in 1..Len(q) + 1 /\ p[i] = IF i + 1 = Len(q) + 1 THEN e ELSE q[i + 1]
    BY <2>1, <2>2
  <2> QED
    BY <2>3
<1>3. CASE q # <<>> /\ p = Append(Tail(put), Gap(Head(q)))
  <2>1. /\ Tail(q) \in Seq(Frame) /\ Len(Tail(q)) = Len(q) - 1 /\ Len(q) \in Nat \ {0}
        /\ Head(q) \in Frame /\ \A i \in 1..Len(Tail(q)) : Tail(q)[i] = q[i + 1]
    BY <1>3, TailElements
  <2>2. put \in Seq(Frame) /\ Len(put) = Len(q) /\ put[Len(q)] = e /\ \A i \in 1..(Len(q) - 1) : put[i] = q[i + 1]
    BY <2>1, AppendElements
  <2>3. Gap(Head(q)) \in Frame /\ Gap(Head(q)).kind = "gap"
    BY <2>1, FrameFacts DEF Gap, Frame
  <2> HIDE DEF put
  <2>4. put # <<>>
    BY <2>1, <2>2
  <2>5. /\ Tail(put) \in Seq(Frame) /\ Len(Tail(put)) = Len(q) - 1
        /\ \A i \in 1..(Len(q) - 1) : Tail(put)[i] = put[i + 1]
    BY <2>1, <2>2, <2>4, TailElements
  <2>6. Len(p) = Len(q) /\ p[Len(q)].kind = "gap" /\ \A i \in 1..(Len(q) - 1) : p[i] = put[i + 1]
    BY <2>1, <2>3, <2>5, <1>3, AppendElements
  <2>7. \A i \in 1..Len(p) : p[i].kind = "event" =>
          i + 2 \in 1..Len(q) + 1 /\ p[i] = IF i + 2 = Len(q) + 1 THEN e ELSE q[i + 2]
    <3> SUFFICES ASSUME NEW i \in 1..Len(p), p[i].kind = "event"
                 PROVE  i + 2 \in 1..Len(q) + 1 /\ p[i] = IF i + 2 = Len(q) + 1 THEN e ELSE q[i + 2]
      OBVIOUS
    <3>1. i \in 1..(Len(q) - 1) /\ p[i] = put[i + 1]
      BY <2>1, <2>6
    <3>2. CASE i + 1 = Len(q)
      BY <3>1, <3>2, <2>1, <2>2
    <3>3. CASE i + 1 \in 1..(Len(q) - 1)
      <4>1. put[i + 1] = q[(i + 1) + 1] /\ (i + 1) + 1 = i + 2
        BY <3>3, <2>2
      <4> QED
        BY <4>1, <3>1, <3>3, <2>1
    <3>4. i + 1 = Len(q) \/ i + 1 \in 1..(Len(q) - 1)
      <4>1. i \in 1..(Len(q) - 1) /\ Len(q) \in Nat
        BY <3>1, <2>1
      <4> QED
        BY ONLY <4>1
    <3> QED
      BY <3>2, <3>3, <3>4
  <2> QED
    BY <2>7
<1> QED
  BY <1>1, <1>2, <1>3, PutDropOldestFacts

\* The events of p are those of q from some place on, and then e.
Shifted(q, e, p) ==
    \E k \in 0..2 : \A i \in 1..Len(p) : p[i].kind = "event" =>
      \/ i + k \in 1..Len(q) /\ p[i] = q[i + k]
      \/ i + k = Len(q) + 1 /\ p[i] = e

LEMMA PutDropOldestFrames ==
    ASSUME NEW q \in Seq(Frame), Len(q) <= QueueMax, NEW e \in Frame,
           NEW p, p = PutDropOldest(q, e)
    PROVE  Shifted(q, e, p)
<1>1. PICK k \in 0..2 : \A i \in 1..Len(p) : p[i].kind = "event" =>
        i + k \in 1..Len(q) + 1 /\ p[i] = IF i + k = Len(q) + 1 THEN e ELSE q[i + k]
  BY PutDropOldestShift
<1>2. ASSUME NEW i \in 1..Len(p), p[i].kind = "event"
      PROVE  \/ i + k \in 1..Len(q) /\ p[i] = q[i + k]
             \/ i + k = Len(q) + 1 /\ p[i] = e
  <2>1. i + k \in 1..Len(q) + 1 /\ p[i] = IF i + k = Len(q) + 1 THEN e ELSE q[i + k]
    BY <1>1, <1>2
  <2>2. Len(q) \in Nat
    OBVIOUS
  <2> QED
    BY ONLY <2>1, <2>2
<1> QED
  BY ONLY <1>2 DEF Shifted

\* Whoever is dropped is named by a notice, if it can be, and a notice is never the last
\* of its kind to go.
LEMMA PutDropOldestTells ==
    ASSUME NEW q \in Seq(Frame), Len(q) <= QueueMax, NEW e \in Frame,
           NEW p, p = PutDropOldest(q, e)
    PROVE  /\ \A i \in 1..Len(p) : \/ (p[i] = e \/ \E j \in 1..Len(q) : p[i] = q[j])
                                  \/ (1 \in 1..Len(q) /\ HasGap(q[1]) /\ p[i] = Gap(q[1]))
           /\ (\A j \in 1..Len(q) : HasGap(q[j])) =>
                \/ p = Append(q, e)
                \/ \E i \in 1..Len(p) : p[i].kind = "gap"
<1> DEFINE put == Append(Tail(q), e)
           Old(f) == f = e \/ \E j \in 1..Len(q) : f = q[j]
           Notice(f) == 1 \in 1..Len(q) /\ HasGap(q[1]) /\ f = Gap(q[1])
           Elements == \A i \in 1..Len(p) : Old(p[i]) \/ Notice(p[i])
           Tells == (\A j \in 1..Len(q) : HasGap(q[j])) => \/ p = Append(q, e)
                                                           \/ \E i \in 1..Len(p) : p[i].kind = "gap"
<1>1. ASSUME p = Append(q, e) PROVE Elements /\ Tells
  <2>1. /\ Len(p) = Len(q) + 1 /\ Len(q) \in Nat /\ p[Len(q) + 1] = e
        /\ \A i \in 1..Len(q) : p[i] = q[i]
    BY <1>1, AppendElements
  <2>2. \A i \in 1..Len(p) : i \in 1..Len(q) \/ i = Len(q) + 1
    BY <2>1
  <2>3. \A i \in 1..Len(p) : Old(p[i])
    BY <2>1, <2>2
  <2>4. Elements
    BY <2>3
  <2>5. Tells
    BY <1>1
  <2> QED
    BY <2>4, <2>5
<1>2. ASSUME q # <<>> PROVE Elements /\ Tells
  <2>1. /\ Tail(q) \in Seq(Frame) /\ Len(Tail(q)) = Len(q) - 1 /\ Len(q) \in Nat \ {0}
        /\ Head(q) \in Frame /\ Head(q) = q[1]
        /\ \A i \in 1..Len(Tail(q)) : i + 1 \in 1..Len(q) /\ Tail(q)[i] = q[i + 1]
    BY <1>2, TailElements
  <2>2. 1 \in 1..Len(q)
    BY <2>1
  <2>3. /\ put \in Seq(Frame) /\ Len(put) = Len(Tail(q)) + 1 /\ Len(Tail(q)) \in Nat
        /\ put[Len(Tail(q)) + 1] = e /\ \A i \in 1..Len(Tail(q)) : put[i] = Tail(q)[i]
    BY <2>1, AppendElements
  <2>4. \A i \in 1..Len(put) : Old(put[i])
    <3> HIDE DEF put
    <3>1. \A i \in 1..Len(put) : i \in 1..Len(Tail(q)) \/ i = Len(Tail(q)) + 1
      BY <2>3
    <3> QED
      BY <3>1, <2>1, <2>3
  <2>5. CASE p = put /\ ~HasGap(Head(q))
    <3>1. ~HasGap(q[1]) /\ 1 \in 1..Len(q)
      BY <2>1, <2>2, <2>5
    <3>2. \A i \in 1..Len(p) : Old(p[i])
      BY <2>4, <2>5
    <3>3. Elements
      BY <3>2
    <3>4. Tells
      BY <3>1
    <3> QED
      BY <3>3, <3>4
  <2>6. CASE p = Append(Tail(put), Gap(Head(q))) /\ HasGap(Head(q))
    <3>1. Gap(q[1]) \in Frame /\ Gap(q[1]).kind = "gap" /\ Gap(Head(q)) = Gap(q[1]) /\ Notice(Gap(q[1]))
      <4>1. q[1] \in Frame /\ Head(q) = q[1] /\ 1 \in 1..Len(q) /\ HasGap(q[1])
        BY <2>1, <2>2, <2>6
      <4>2. Gap(q[1]) \in Frame /\ Gap(q[1]).kind = "gap"
        BY <4>1, FrameFacts DEF Gap, Frame
      <4> QED
        BY <4>1, <4>2
    <3> HIDE DEF put
    <3>2. put # <<>>
      BY <2>3
    <3>3. Tail(put) \in Seq(Frame) /\ \A i \in 1..Len(Tail(put)) : i + 1 \in 1..Len(put) /\ Tail(put)[i] = put[i + 1]
      BY <2>3, <3>2, TailElements
    <3>4. /\ Len(p) = Len(Tail(put)) + 1 /\ Len(Tail(put)) \in Nat
          /\ p[Len(Tail(put)) + 1] = Gap(q[1])
          /\ \A i \in 1..Len(Tail(put)) : p[i] = Tail(put)[i]
      BY <2>6, <3>1, <3>3, AppendElements
    <3>5. \A i \in 1..Len(p) : i \in 1..Len(Tail(put)) \/ i = Len(Tail(put)) + 1
      BY <3>4
    <3>6. Len(Tail(put)) + 1 \in 1..Len(p)
      BY <3>4
    <3>7. \E i \in 1..Len(p) : p[i].kind = "gap"
      BY <3>1, <3>4, <3>6
    <3> HIDE DEF Old, Notice
    <3>8. \A i \in 1..Len(p) : Old(p[i]) \/ Notice(p[i])
      BY <2>4, <3>1, <3>3, <3>4, <3>5
    <3> QED
      BY <3>7, <3>8
  <2>7. (p = put /\ ~HasGap(Head(q))) \/ (p = Append(Tail(put), Gap(Head(q))) /\ HasGap(Head(q))) \/ p = Append(q, e)
    BY PutDropOldestFacts
  <2> QED
    BY <1>1, <2>5, <2>6, <2>7
<1>3. q # <<>> \/ p = Append(q, e)
  BY PutDropOldestFacts
<1>4. Elements
  BY <1>1, <1>2, <1>3
<1>5. Tells
  BY <1>1, <1>2, <1>3
<1> QED
  BY <1>4, <1>5

\* The ring keeps its size, and holds what it held and the new entry.
LEMMA RememberFacts ==
    ASSUME NEW b \in Seq(Frame), Len(b) <= BacklogMax, NEW e \in Frame
    PROVE  LET r == Remember(b, e)
           IN  /\ r \in Seq(Frame) /\ Len(r) <= BacklogMax
               /\ \A i \in 1..Len(r) : r[i] = e \/ \E j \in 1..Len(b) : r[i] = b[j]
<1> DEFINE all == Append(b, e)
<1>1. /\ all \in Seq(Frame) /\ Len(all) = Len(b) + 1
      /\ \A i \in 1..Len(all) : all[i] = IF i = Len(b) + 1 THEN e ELSE b[i]
  OBVIOUS
<1>2. CASE Len(all) > BacklogMax
  <2>1. Remember(b, e) = Tail(all)
    BY <1>2 DEF Remember
  <2>2. /\ Tail(all) \in Seq(Frame) /\ Len(Tail(all)) = Len(b)
        /\ \A i \in 1..Len(Tail(all)) : Tail(all)[i] = all[i + 1]
    BY <1>1
  <2> HIDE DEF all
  <2> QED
    BY <2>1, <2>2, <1>1
<1>3. CASE ~(Len(all) > BacklogMax)
  <2>1. Remember(b, e) = all
    BY <1>3 DEF Remember
  <2> HIDE DEF all
  <2> QED
    BY <2>1, <1>1, <1>3, BusAssumption
<1> QED
  BY <1>2, <1>3

\* What a replay takes from the ring is a sequence of its live events in rising order.
LEMMA ReplayFacts ==
    ASSUME Shape, NEW last, NEW r \in InOrder(Replayed(last))
    PROVE  /\ r \in Seq(Frame)
           /\ \A i \in 1..Len(r) : r[i].kind = "event" /\ Numbered(r[i], seq, total - seq)
           /\ \A i, j \in 1..Len(r) : i < j => r[i].id < r[j].id
<1> DEFINE S == Replayed(last)
<1>1. IsFiniteSet(Range(backlog))
  <2>1. backlog \in Surjection(1..Len(backlog), Range(backlog))
    <3>1. backlog \in [1..Len(backlog) -> Range(backlog)]
      BY DEF Shape, TypeOK, Range
    <3>2. \A f \in Range(backlog) : \E i \in 1..Len(backlog) : backlog[i] = f
      BY DEF Shape, TypeOK, Range
    <3> QED
      BY <3>1, <3>2 DEF Surjection
  <2>2. IsFiniteSet(1..Len(backlog))
    BY FS_Interval DEF Shape, TypeOK
  <2> QED
    BY <2>1, <2>2, FS_Surjection
<1>2. S \in SUBSET Range(backlog)
  BY DEF Replayed
<1>3. Cardinality(S) \in Nat
  BY <1>1, <1>2, FS_Subset, FS_CardinalityType
<1>4. \A e \in S : e \in Frame /\ e.kind = "event" /\ Numbered(e, seq, total - seq)
  <2>1. \A e \in S : \E i \in 1..Len(backlog) : e = backlog[i]
    BY <1>2 DEF Shape, TypeOK, Range
  <2>2. \A i \in 1..Len(backlog) : /\ backlog[i] \in Frame /\ backlog[i].kind = "event"
                                   /\ Numbered(backlog[i], seq, total - seq)
    <3>1. \A i \in 1..Len(backlog) : backlog[i] \in Frame
      BY DEF Shape, TypeOK
    <3> QED
      BY <3>1 DEF Shape, EventsNumbered
  <2> HIDE DEF S
  <2> QED
    BY <2>1, <2>2
<1>5. r \in [1..Cardinality(S) -> S] /\ \A a, b \in DOMAIN r : a < b => r[a].id < r[b].id
  BY DEF InOrder
<1> HIDE DEF S
<1>6. r \in Seq(S) /\ Len(r) = Cardinality(S)
  BY <1>3, <1>5
<1> QED
  BY <1>3, <1>4, <1>5, <1>6

\* The frame about lost events, if there is one, follows the replayed events.
LEMMA PlanFacts ==
    ASSUME Shape, ReplayPlan
    PROVE  /\ toSend' \in Seq(Frame) /\ watermark' \in 0..MaxEvents
           /\ \A i \in 1..Len(toSend') : toSend'[i].kind = "event" => Numbered(toSend'[i], seq, total - seq)
           /\ watermark <= watermark' /\ (watermark <= seq => watermark' <= seq)
           /\ \A i \in 1..Len(toSend') : toSend'[i].kind = "event" => toSend'[i].id <= watermark'
           /\ \A i, j \in 1..Len(toSend') :
                i < j /\ toSend'[i].kind = "event" /\ toSend'[j].kind = "event"
                  => toSend'[i].n < toSend'[j].n
<1>1. PICK r \in InOrder(Replayed(stored)) :
        /\ \E gap \in BacklogGap(stored, r) : toSend' = r \o gap
        /\ watermark' = IF r # <<>> /\ Last(r).id > watermark THEN Last(r).id ELSE watermark
  BY DEF ReplayPlan
<1>2. /\ r \in Seq(Frame)
      /\ \A i \in 1..Len(r) : r[i].kind = "event" /\ Numbered(r[i], seq, total - seq)
      /\ \A i, j \in 1..Len(r) : i < j => r[i].id < r[j].id
  BY ReplayFacts
<1>3. PICK gap \in BacklogGap(stored, r) : toSend' = r \o gap
  BY <1>1
<1>4. seq \in Nat /\ total \in Nat /\ seq <= total /\ total <= MaxEvents /\ seq <= MaxEvents /\ watermark \in Nat
      /\ watermark <= MaxEvents
  BY BusAssumption DEF Shape, TypeOK, EventsNumbered
<1>5. \A i \in 1..Len(r) : r[i].id \in 1..seq /\ r[i].n = r[i].id + (total - seq)
  BY <1>2 DEF Numbered
<1>6. r # <<>> => Len(r) \in 1..Len(r) /\ Last(r) = r[Len(r)] /\ Last(r).id \in 1..seq
  BY <1>2, <1>5 DEF Last
<1>7. \A i \in 1..Len(r) : r[i].id <= Last(r).id
  BY <1>2, <1>5, <1>6
<1>8. gap \in Seq(Frame) /\ Len(gap) <= 1 /\ \A i \in 1..Len(gap) : gap[i].kind = "gap"
  <2>1. CASE gap = <<>>
    BY <2>1
  <2>2. CASE gap # <<>>
    <3>1. LastNamed(r) # {} /\ \E e \in LastNamed(r) : gap = << [Gap(e) EXCEPT !.id = Last(r).id] >>
      BY <2>2 DEF BacklogGap
    <3>2. PICK e \in LastNamed(r) : gap = << [Gap(e) EXCEPT !.id = Last(r).id] >>
      BY <3>1
    <3>3. e \in Frame /\ r # <<>>
      BY <1>2 DEF LastNamed, Range
    <3>4. [Gap(e) EXCEPT !.id = Last(r).id] \in Frame
      <4>1. Last(r).id \in 0..MaxEvents
        BY <3>3, <1>6, <1>4, BusAssumption
      <4> QED
        BY <4>1, <3>3, FrameFacts
    <3>5. [Gap(e) EXCEPT !.id = Last(r).id].kind = "gap"
      BY <3>3 DEF Gap, Frame
    <3> DEFINE g == [Gap(e) EXCEPT !.id = Last(r).id]
    <3>6. gap = <<g>> /\ g \in Frame /\ g.kind = "gap"
      BY <3>2, <3>4, <3>5
    <3> HIDE DEF g
    <3> QED
      BY <3>6
  <2> QED
    BY <2>1, <2>2
<1>9. /\ toSend' \in Seq(Frame) /\ Len(toSend') = Len(r) + Len(gap)
      /\ \A i \in 1..Len(r) : toSend'[i] = r[i]
      /\ \A i \in 1..Len(gap) : toSend'[Len(r) + i] = gap[i]
  BY <1>2, <1>3, <1>8
<1>10. \A i \in 1..Len(toSend') : toSend'[i].kind = "event" => i \in 1..Len(r) /\ toSend'[i] = r[i]
  <2> SUFFICES ASSUME NEW i \in 1..Len(toSend'), i \notin 1..Len(r) PROVE toSend'[i].kind # "event"
    BY <1>9
  <2>1. i - Len(r) \in 1..Len(gap) /\ i = Len(r) + (i - Len(r))
    BY <1>2, <1>8, <1>9
  <2>2. toSend'[i] = gap[i - Len(r)]
    BY <2>1, <1>9
  <2> QED
    BY <2>1, <2>2, <1>8
<1>11. /\ watermark' \in 0..MaxEvents /\ watermark <= watermark'
       /\ (watermark <= seq => watermark' <= seq)
       /\ \A i \in 1..Len(r) : r[i].id <= watermark'
  <2>1. CASE r # <<>> /\ Last(r).id > watermark
    <3>1. watermark' = Last(r).id
      BY <2>1, <1>1
    <3> QED
      BY <3>1, <2>1, <1>4, <1>6, <1>7, BusAssumption
  <2>2. CASE r = <<>>
    <3>1. watermark' = watermark
      BY <2>2, <1>1
    <3> QED
      BY <3>1, <2>2, <1>4, BusAssumption
  <2>3. CASE r # <<>> /\ ~(Last(r).id > watermark)
    <3>1. watermark' = watermark
      BY <2>3, <1>1
    <3> QED
      BY <3>1, <2>3, <1>4, <1>5, <1>6, <1>7, BusAssumption
  <2> QED
    BY <2>1, <2>2, <2>3
<1>12. \A i, j \in 1..Len(r) : i < j => r[i].n < r[j].n
  <2> TAKE i, j \in 1..Len(r)
  <2> HAVE i < j
  <2>1. r[i].id < r[j].id
    BY <1>2
  <2>2. r[i].n = r[i].id + (total - seq) /\ r[j].n = r[j].id + (total - seq)
        /\ r[i].id \in Nat /\ r[j].id \in Nat
    BY <1>5, <1>4
  <2> QED
    BY <2>1, <2>2, <1>4
<1> QED
  BY <1>2, <1>9, <1>10, <1>11, <1>12

LEMMA SlotTypes == TypeOK => pub \in [Threads -> Slot] /\ soon \in Seq(Slot)
BY DEF TypeOK, Slot

LEMMA DeliverFacts ==
    ASSUME Shape, NEW f \in Frame, Numbered(f, seq, total - seq), Deliver(f)
    PROVE  /\ stored' \in 0..MaxEvents /\ pending' \in 0..MaxEvents
           /\ known' \subseteq 1..total /\ known \subseteq known'
           /\ delivered' \in Seq(1..MaxEvents)
           /\ \A d \in 1..Len(delivered') : delivered'[d] \in 1..total
           /\ f.kind = "event" => f.n \in 1..total
<1>1. f.id \in 0..MaxEvents /\ stored \in 0..MaxEvents /\ pending \in 0..MaxEvents
      /\ total \in 0..MaxEvents /\ seq \in 0..MaxEvents /\ seq <= total
  BY DEF Frame, Shape, TypeOK, EventsNumbered
<1>2. stored' \in 0..MaxEvents /\ pending' \in 0..MaxEvents
  BY <1>1, BusAssumption DEF Deliver, Record
<1>3. f.kind = "event" => f.n \in 1..total /\ f.n \in 1..MaxEvents
  BY <1>1, BusAssumption DEF Numbered
<1>4. known' \subseteq 1..total /\ known \subseteq known'
  BY <1>3 DEF Deliver, Shape, TypeOK
<1>5. CASE f.kind = "event"
  <2>1. delivered' = Append(delivered, f.n) /\ delivered \in Seq(1..MaxEvents)
        /\ \A d \in 1..Len(delivered) : delivered[d] \in 1..total
    BY <1>5 DEF Deliver, Shape, TypeOK, EventsNumbered
  <2>2. delivered' \in Seq(1..MaxEvents) /\ \A d \in 1..Len(delivered') : delivered'[d] \in 1..total
    BY <2>1, <1>3, <1>5, AppendElements
  <2> QED
    BY <2>2, <1>2, <1>3, <1>4
<1>6. CASE f.kind # "event"
  <2>1. delivered' = delivered
    BY <1>6 DEF Deliver
  <2> QED
    BY <2>1, <1>2, <1>4, <1>6 DEF Shape, TypeOK, EventsNumbered
<1> QED
  BY <1>5, <1>6

LEMMA ShapeInit == Init => Shape
<1> SUFFICES ASSUME Init PROVE Shape
  OBVIOUS
<1>1. pub \in [Threads -> Slot] /\ soon \in Seq(Slot)
  <2>1. [evt |-> NoEvent, sub |-> 0] \in Slot
    BY BusAssumption, FrameFacts DEF Slot
  <2> QED
    BY <2>1 DEF Init
<1>2. TypeOK
  <2>1. pub \in [Threads -> [evt: Frame, sub: 0..MaxConns]] /\ soon \in Seq([evt: Frame, sub: 0..MaxConns])
    BY <1>1 DEF Slot
  <2>2. seq \in 0..MaxEvents /\ total \in 0..MaxEvents /\ horizon \in 0..seq
        /\ conn \in 0..MaxConns /\ watermark \in 0..MaxEvents /\ stored \in 0..MaxEvents
        /\ pending \in 0..MaxEvents /\ restarts \in 0..MaxRestarts
    BY BusAssumption DEF Init
  <2>3. /\ backlog \in Seq(Frame) /\ Len(backlog) <= BacklogMax
        /\ queue \in Seq(Frame) /\ Len(queue) <= QueueMax
        /\ toSend \in Seq(Frame) /\ delivered \in Seq(1..MaxEvents)
        /\ topicOf \in Seq(Topics) /\ Len(topicOf) = total
    BY BusAssumption DEF Init
  <2> QED
    BY <2>1, <2>2, <2>3 DEF Init, TypeOK
<1> QED
  BY <1>2 DEF Init, Shape, EventsNumbered

LEMMA ShapePublishNumber == ASSUME Shape, NEW t \in Threads, PublishNumber(t) PROVE Shape'
<1> USE DEF Shape
<1>1. PICK topic \in Topics :
        LET e == Event(seq + 1, total + 1, topic)
        IN  /\ backlog' = Remember(backlog, e)
            /\ pub' = [pub EXCEPT ![t] = [evt |-> e, sub |-> IF subscribed THEN conn ELSE 0]]
            /\ topicOf' = Append(topicOf, topic)
  BY DEF PublishNumber
<1> DEFINE e == Event(seq + 1, total + 1, topic)
<1>2. seq \in Nat /\ total \in Nat /\ seq <= total /\ total < MaxEvents
      /\ seq' = seq + 1 /\ total' = total + 1 /\ total' - seq' = total - seq
  BY BusAssumption DEF PublishNumber, TypeOK, EventsNumbered
<1>3. e \in Frame /\ e.kind = "event" /\ e.id = seq + 1 /\ e.n = total + 1
  <2>1. seq + 1 \in 0..MaxEvents /\ total + 1 \in 0..MaxEvents
    BY <1>2, BusAssumption
  <2> QED
    BY <2>1, FrameFacts DEF Event
<1>4. e.id \in 1..seq' /\ e.n = e.id + (total' - seq')
  BY <1>2, <1>3
<1> HIDE DEF e
<1>5. backlog' = Remember(backlog, e)
      /\ pub' = [pub EXCEPT ![t] = [evt |-> e, sub |-> IF subscribed THEN conn ELSE 0]]
      /\ UNCHANGED <<horizon, soon, link, client, closed, restarts>>
  BY <1>1 DEF e, PublishNumber
<1>6. TypeOK'
  <2>1. backlog' \in Seq(Frame) /\ Len(backlog') <= BacklogMax
    BY <1>3, <1>5, RememberFacts DEF TypeOK
  <2>2. pub' \in [Threads -> Slot]
    <3>1. [evt |-> e, sub |-> IF subscribed THEN conn ELSE 0] \in Slot
      BY <1>3, BusAssumption DEF TypeOK, Slot
    <3> QED
      BY <3>1, <1>5, SlotTypes
  <2>3. topicOf' \in Seq(Topics) /\ Len(topicOf') = total'
    <3>1. topicOf \in Seq(Topics) /\ Len(topicOf) = total /\ topicOf' = Append(topicOf, topic)
      BY <1>1 DEF TypeOK
    <3>2. topicOf' \in Seq(Topics) /\ Len(topicOf') = Len(topicOf) + 1
      BY ONLY <3>1, AppendElements
    <3> QED
      BY <1>2, <3>1, <3>2
  <2>4. seq' \in 0..MaxEvents /\ total' \in 0..MaxEvents /\ horizon' \in 0..seq'
    <3>1. horizon' = horizon /\ horizon \in 0..seq
      BY <1>5 DEF TypeOK
    <3> QED
      BY <1>2, <3>1, BusAssumption
  <2>5. known' \subseteq 1..total'
    <3>1. known' = known /\ known \subseteq 1..total
      BY <1>5 DEF TypeOK, client
    <3> QED
      BY ONLY <1>2, <3>1
  <2> QED
    BY <2>1, <2>2, <2>3, <2>4, <2>5, <1>5 DEF TypeOK, link, client, Slot
<1>7. EventsNumbered'
  <2>1. ASSUME NEW f, Numbered(f, seq, total - seq) PROVE Numbered(f, seq', total' - seq')
    BY <2>1, <1>2 DEF Numbered
  <2>2. Numbered(e, seq', total' - seq')
    BY <1>4 DEF Numbered
  <2>3. \A i \in 1..Len(backlog') : backlog'[i].kind = "event" /\ Numbered(backlog'[i], seq', total' - seq')
    <3>1. \A i \in 1..Len(backlog') : backlog'[i] = e \/ \E j \in 1..Len(backlog) : backlog'[i] = backlog[j]
      BY <1>3, <1>5, RememberFacts DEF TypeOK
    <3>2. \A j \in 1..Len(backlog) : backlog[j] \in Frame /\ backlog[j].kind = "event" /\ Numbered(backlog[j], seq', total' - seq')
      <4>1. \A j \in 1..Len(backlog) : backlog[j] \in Frame
        BY DEF TypeOK
      <4>2. \A j \in 1..Len(backlog) : backlog[j].kind = "event" /\ Numbered(backlog[j], seq, total - seq)
        BY DEF EventsNumbered
      <4> QED
        BY ONLY <2>1, <4>1, <4>2
    <3> TAKE i \in 1..Len(backlog')
    <3>3. CASE backlog'[i] = e
      BY <3>3, <2>2, <1>3 DEF Numbered
    <3>4. CASE \E j \in 1..Len(backlog) : backlog'[i] = backlog[j]
      BY <3>4, <3>2 DEF Numbered
    <3> QED
      BY <3>1, <3>3, <3>4
  <2>4. \A s \in Threads : pub'[s].evt # NoEvent => pub'[s].evt.kind = "event" /\ Numbered(pub'[s].evt, seq', total' - seq')
    <3> TAKE s \in Threads
    <3>1. CASE s = t
      <4>1. pub'[s].evt = e
        BY <3>1, <1>5 DEF TypeOK
      <4> QED
        BY <4>1, <2>2, <1>3 DEF Numbered
    <3>2. CASE s # t
      <4>1. pub'[s] = pub[s] /\ pub[s].evt \in Frame
        BY <3>2, <1>5 DEF TypeOK
      <4> QED
        BY <4>1, <2>1 DEF EventsNumbered, Numbered
    <3> QED
      BY <3>1, <3>2
  <2>5. \A i \in 1..Len(soon') : soon'[i].evt.kind = "event" /\ Numbered(soon'[i].evt, seq', total' - seq')
    BY <1>5, <2>1 DEF EventsNumbered
  <2>6. /\ \A i \in 1..Len(queue') : Numbered(queue'[i], seq', total' - seq')
        /\ \A i \in 1..Len(toSend') : Numbered(toSend'[i], seq', total' - seq')
    BY <1>5, <2>1 DEF EventsNumbered, link
  <2>7. seq' <= total' /\ \A i \in 1..Len(delivered') : delivered'[i] \in 1..total'
    <3>1. delivered' = delivered /\ \A i \in 1..Len(delivered) : delivered[i] \in 1..total
      BY <1>5 DEF EventsNumbered, client
    <3>2. \A x \in 1..total : x \in 1..total'
      BY ONLY <1>2
    <3> QED
      BY <1>2, <3>1, <3>2
  <2> QED
    BY <2>3, <2>4, <2>5, <2>6, <2>7 DEF EventsNumbered
<1> QED
  BY <1>6, <1>7

LEMMA ShapePublishSchedule == ASSUME Shape, NEW t \in Threads, PublishSchedule(t) PROVE Shape'
<1> USE DEF Shape
<1>1. pub[t] \in Slot /\ pub[t].evt.kind = "event" /\ Numbered(pub[t].evt, seq, total - seq)
  BY SlotTypes DEF PublishSchedule, EventsNumbered
<1>2. pub' = [pub EXCEPT ![t] = [evt |-> NoEvent, sub |-> 0]]
      /\ (soon' = soon \/ soon' = Append(soon, pub[t]))
      /\ UNCHANGED <<seq, backlog, horizon, link, client, closed, restarts, total, topicOf>>
  BY DEF PublishSchedule
<1>3. soon \in Seq(Slot) /\ pub \in [Threads -> Slot]
  BY SlotTypes
<1>4. soon' \in Seq(Slot) /\ \A i \in 1..Len(soon') : soon'[i] = pub[t] \/ \E j \in 1..Len(soon) : soon'[i] = soon[j]
  <2>1. CASE soon' = soon
    BY <2>1, <1>3
  <2>2. CASE soon' = Append(soon, pub[t])
    BY <2>2, <1>1, <1>3, AppendElements
  <2> QED
    BY <2>1, <2>2, <1>2
<1>5. pub' \in [Threads -> Slot]
  <2>1. [evt |-> NoEvent, sub |-> 0] \in Slot
    BY FrameFacts, BusAssumption DEF Slot
  <2> QED
    BY <2>1, <1>2, <1>3
<1>6. TypeOK'
  BY <1>2, <1>4, <1>5 DEF TypeOK, link, client, Slot
<1>7. \A i \in 1..Len(soon') : soon'[i].evt.kind = "event" /\ Numbered(soon'[i].evt, seq, total - seq)
  BY <1>1, <1>4 DEF EventsNumbered
<1>8. \A s \in Threads : pub'[s].evt # NoEvent => pub'[s] = pub[s]
  BY <1>2, <1>3
<1>9. EventsNumbered'
  BY <1>2, <1>7, <1>8 DEF EventsNumbered, link, client
<1> QED
  BY <1>6, <1>9

LEMMA ShapeRunSoon == ASSUME Shape, RunSoon PROVE Shape'
<1> USE DEF Shape
<1>1. Head(soon) \in Slot /\ Head(soon) = soon[1] /\ 1 \in 1..Len(soon)
  BY SlotTypes, TailElements DEF RunSoon
<1>2. Head(soon).evt \in Frame /\ Numbered(Head(soon).evt, seq, total - seq)
  BY <1>1 DEF EventsNumbered, Slot
<1>3. soon' = Tail(soon) /\ (queue' = queue \/ queue' = PutDropOldest(queue, Head(soon).evt))
      /\ UNCHANGED <<seq, backlog, horizon, pub, conn, phase, subscribed, watermark, toSend,
                     client, closed, restarts, total, topicOf>>
  BY DEF RunSoon
<1>4. soon' \in Seq(Slot)
      /\ \A i \in 1..Len(soon') : i + 1 \in 1..Len(soon) /\ soon'[i] = soon[i + 1]
  BY <1>3, SlotTypes, TailElements DEF RunSoon
<1>5. queue' \in Seq(Frame) /\ Len(queue') <= QueueMax
  BY <1>2, <1>3, PutDropOldestFacts DEF TypeOK
<1>6. TypeOK'
  BY <1>3, <1>4, <1>5 DEF TypeOK, client, Slot
<1>7. \A i \in 1..Len(queue') : Numbered(queue'[i], seq, total - seq)
  <2>1. CASE queue' = queue
    BY <2>1 DEF EventsNumbered
  <2>2. CASE queue' = PutDropOldest(queue, Head(soon).evt)
    <3> DEFINE e == Head(soon).evt
    <3>1. e \in Frame /\ Numbered(e, seq, total - seq) /\ queue' = PutDropOldest(queue, e)
      BY <1>2, <2>2
    <3> HIDE DEF e
    <3>2. Shifted(queue, e, queue')
      <4>1. queue \in Seq(Frame) /\ Len(queue) <= QueueMax
        BY DEF TypeOK
      <4> QED
        BY ONLY <4>1, <3>1, PutDropOldestFrames
    <3>3. \A i \in 1..Len(queue') : queue'[i].kind = "event" => queue'[i] = e \/ \E j \in 1..Len(queue) : queue'[i] = queue[j]
      BY ONLY <3>2 DEF Shifted
    <3> QED
      BY <3>1, <3>3 DEF EventsNumbered, Numbered
  <2> QED
    BY <2>1, <2>2, <1>3
<1>8. EventsNumbered'
  BY <1>3, <1>4, <1>7 DEF EventsNumbered, client
<1> QED
  BY <1>6, <1>8

LEMMA ShapeSubscribe == ASSUME Shape, Subscribe PROVE Shape'
<1> USE DEF Shape
<1>1. /\ conn' = conn + 1 /\ conn < MaxConns /\ phase' = "connected" /\ subscribed' = TRUE
      /\ queue' = <<>> /\ watermark' = seq /\ toSend' = <<>> /\ delivered' = <<>>
      /\ known' \in {1..total, known}
      /\ UNCHANGED <<server, stored, pending, closed, restarts, total, topicOf>>
  BY DEF Subscribe
<1>2. conn' \in 0..MaxConns
  BY <1>1, BusAssumption DEF TypeOK
<1>3. known' \subseteq 1..total'
  BY <1>1 DEF TypeOK
<1>4. TypeOK'
  BY <1>1, <1>2, <1>3, BusAssumption DEF TypeOK, server
<1>5. EventsNumbered'
  BY <1>1 DEF EventsNumbered, server
<1> QED
  BY <1>4, <1>5

LEMMA ShapePlanReplay == ASSUME Shape, PlanReplay PROVE Shape'
<1> USE DEF Shape
<1>1. toSend' \in Seq(Frame) /\ watermark' \in 0..MaxEvents
      /\ \A i \in 1..Len(toSend') : Numbered(toSend'[i], seq, total - seq)
  <2>1. CASE stored > 0
    <3>1. ReplayPlan
      BY <2>1 DEF PlanReplay
    <3> QED
      BY <3>1, PlanFacts DEF Numbered
  <2>2. CASE ~(stored > 0)
    <3>1. toSend' = toSend /\ watermark' = watermark
      BY <2>2 DEF PlanReplay
    <3> QED
      BY <3>1 DEF TypeOK, EventsNumbered
  <2> QED
    BY <2>1, <2>2
<1>2. phase' = "replay"
      /\ UNCHANGED <<server, conn, subscribed, queue, client, closed, restarts, total, topicOf>>
  BY DEF PlanReplay
<1>3. TypeOK'
  BY <1>1, <1>2 DEF TypeOK, server, client
<1>4. EventsNumbered'
  BY <1>1, <1>2 DEF EventsNumbered, server, client
<1> QED
  BY <1>3, <1>4

LEMMA ShapeSendReplay == ASSUME Shape, SendReplay PROVE Shape'
<1> USE DEF Shape
<1>1. /\ toSend # <<>> /\ Deliver(Head(toSend)) /\ toSend' = Tail(toSend)
      /\ UNCHANGED <<server, conn, phase, subscribed, queue, watermark, closed, restarts, total, topicOf>>
  BY DEF SendReplay
<1>2. /\ toSend' \in Seq(Frame) /\ Head(toSend) \in Frame /\ Head(toSend) = toSend[1] /\ 1 \in 1..Len(toSend)
      /\ \A i \in 1..Len(toSend') : i + 1 \in 1..Len(toSend) /\ toSend'[i] = toSend[i + 1]
  BY <1>1, TailElements DEF TypeOK
<1>3. Numbered(Head(toSend), seq, total - seq)
  BY <1>2 DEF EventsNumbered
<1>4. TypeOK'
  BY <1>1, <1>2, <1>3, DeliverFacts DEF TypeOK, server
<1>5. EventsNumbered'
  BY <1>1, <1>2, <1>3, DeliverFacts DEF EventsNumbered, server
<1> QED
  BY <1>4, <1>5

LEMMA ShapeSendLive == ASSUME Shape, SendLive PROVE Shape'
<1> USE DEF Shape
<1>1. /\ queue # <<>> /\ queue' = Tail(queue)
      /\ phase' \in {"off", phase} /\ subscribed' \in BOOLEAN
      /\ UNCHANGED client \/ Deliver(Head(queue))
      /\ UNCHANGED <<server, conn, watermark, toSend, closed, restarts, total, topicOf>>
  BY DEF SendLive, TypeOK
<1>2. /\ queue' \in Seq(Frame) /\ Head(queue) \in Frame /\ Head(queue) = queue[1] /\ 1 \in 1..Len(queue)
      /\ Len(queue') <= QueueMax
      /\ \A i \in 1..Len(queue') : i + 1 \in 1..Len(queue) /\ queue'[i] = queue[i + 1]
  BY <1>1, TailElements, BusAssumption DEF TypeOK
<1>3. Numbered(Head(queue), seq, total - seq)
  BY <1>2 DEF EventsNumbered
<1>4. /\ stored' \in 0..MaxEvents /\ pending' \in 0..MaxEvents
      /\ known' \subseteq 1..total /\ delivered' \in Seq(1..MaxEvents)
      /\ \A d \in 1..Len(delivered') : delivered'[d] \in 1..total
  <2>1. CASE UNCHANGED client
    BY <2>1 DEF client, TypeOK, EventsNumbered
  <2>2. CASE Deliver(Head(queue))
    BY <2>2, <1>2, <1>3, DeliverFacts
  <2> QED
    BY <2>1, <2>2, <1>1
<1>5. TypeOK'
  BY <1>1, <1>2, <1>4 DEF TypeOK, server
<1>6. EventsNumbered'
  BY <1>1, <1>2, <1>4 DEF EventsNumbered, server
<1> QED
  BY <1>5, <1>6

LEMMA ShapeCloseAll == ASSUME Shape, CloseAll PROVE Shape'
<1> USE DEF Shape
<1>1. /\ closed' = TRUE /\ subscribed' = FALSE /\ queue' = PutSentinel
      /\ UNCHANGED <<server, conn, phase, watermark, toSend, client, restarts, total, topicOf>>
  BY DEF CloseAll
<1>2. queue' \in Seq(Frame) /\ Len(queue') <= QueueMax
      /\ \A i \in 1..Len(queue') : queue'[i] = Stop \/ \E j \in 1..Len(queue) : queue'[i] = queue[j]
  <2>1. CASE queue' = queue
    BY <2>1 DEF TypeOK
  <2>2. CASE queue' = Append(queue, Stop) /\ Len(queue) < QueueMax
    <3>1. /\ queue \in Seq(Frame) /\ Stop \in Frame
      BY FrameFacts DEF TypeOK
    <3>2. /\ queue' \in Seq(Frame) /\ Len(queue') = Len(queue) + 1 /\ Len(queue) \in Nat
          /\ \A i \in 1..Len(queue) : queue'[i] = queue[i]
          /\ queue'[Len(queue) + 1] = Stop
      BY <3>1, <2>2, AppendElements
    <3>3. \A i \in 1..Len(queue') : i \in 1..Len(queue) \/ i = Len(queue) + 1
      BY <3>2
    <3> HIDE DEF Stop
    <3> QED
      BY <3>2, <3>3, <2>2, BusAssumption
  <2> QED
    BY <1>1, <2>1, <2>2 DEF PutSentinel
<1>3. \A i \in 1..Len(queue') : Numbered(queue'[i], seq, total - seq)
  BY <1>2 DEF EventsNumbered, Numbered, Stop
<1>4. TypeOK'
  BY <1>1, <1>2 DEF TypeOK, server, client
<1>5. EventsNumbered'
  BY <1>1, <1>3 DEF EventsNumbered, server, client
<1> QED
  BY <1>4, <1>5

LEMMA ShapeRestart == ASSUME Shape, Restart PROVE Shape'
<1> USE DEF Shape
<1>1. /\ restarts' \in 0..MaxRestarts
      /\ seq' = 0 /\ backlog' = <<>> /\ horizon' = 0 /\ soon' = <<>>
      /\ pub' = [t \in Threads |-> [evt |-> NoEvent, sub |-> 0]]
      /\ phase' = "off" /\ subscribed' = FALSE /\ queue' = <<>> /\ toSend' = <<>> /\ closed' = FALSE
      /\ UNCHANGED <<conn, watermark, client, total, topicOf>>
  BY BusAssumption DEF Restart, TypeOK
<1>2. pub' \in [Threads -> [evt: Frame, sub: 0..MaxConns]]
  <2>1. [evt |-> NoEvent, sub |-> 0] \in Slot
    BY BusAssumption, FrameFacts DEF Slot
  <2> QED
    BY <2>1, <1>1 DEF Slot
<1>3. seq' \in 0..MaxEvents /\ horizon' \in 0..seq' /\ seq' <= total'
  BY <1>1, BusAssumption DEF TypeOK
<1>4. backlog' \in Seq(Frame) /\ Len(backlog') <= BacklogMax /\ queue' \in Seq(Frame) /\ Len(queue') <= QueueMax
      /\ toSend' \in Seq(Frame)
  BY <1>1, BusAssumption
<1>5. soon' \in Seq([evt: Frame, sub: 0..MaxConns])
  BY <1>1
<1>6. TypeOK'
  BY <1>1, <1>2, <1>3, <1>4, <1>5 DEF TypeOK, client
<1>7. EventsNumbered'
  BY <1>1, <1>3 DEF EventsNumbered, client
<1> QED
  BY <1>6, <1>7

LEMMA ShapeStep == Shape /\ [Next]_vars => Shape'
<1> SUFFICES ASSUME Shape, [Next]_vars PROVE Shape'
  OBVIOUS
<1> USE DEF Shape
<1>1. CASE Expire
  <2>1. horizon' \in 0..seq
    BY <1>1 DEF Expire, TypeOK
  <2> QED
    BY <1>1, <2>1 DEF Expire, TypeOK, EventsNumbered, link, client
<1>2. CASE FlushPending
  <2>1. stored' \in 0..MaxEvents /\ pending' \in 0..MaxEvents
        /\ UNCHANGED <<server, link, known, delivered, closed, restarts, total, topicOf>>
    BY <1>2, BusAssumption DEF FlushPending, TypeOK
  <2> QED
    BY <2>1 DEF TypeOK, EventsNumbered, server, link
<1>3. CASE GoLive
  BY <1>3 DEF GoLive, TypeOK, EventsNumbered, server, client
<1>4. CASE Disconnect
  <2>1. queue' \in Seq(Frame) /\ Len(queue') <= QueueMax /\ toSend' \in Seq(Frame)
    BY <1>4, BusAssumption DEF Disconnect
  <2>2. /\ phase' = "off" /\ subscribed' = FALSE /\ queue' = <<>> /\ toSend' = <<>>
        /\ UNCHANGED <<server, conn, watermark, client, closed, restarts, total, topicOf>>
    BY <1>4 DEF Disconnect
  <2>3. TypeOK'
    BY <2>1, <2>2 DEF TypeOK, server, client
  <2>4. EventsNumbered'
    BY <2>2 DEF EventsNumbered, server, client
  <2> QED
    BY <2>3, <2>4
<1>5. CASE UNCHANGED vars
  BY <1>5 DEF vars, TypeOK, EventsNumbered, server, link, client
<1> QED
  BY <1>1, <1>2, <1>3, <1>4, <1>5, ShapePublishNumber, ShapePublishSchedule, ShapeRunSoon,
     ShapeSubscribe, ShapePlanReplay, ShapeSendReplay, ShapeSendLive, ShapeCloseAll, ShapeRestart
     DEF Next, Handler

\* Types: a subscriber's queue stays within _QUEUE_MAX and the backlog within its ring,
\* whatever _put_drop_oldest, publish, the handler and the client do in which order.
THEOREM BusTypesAlways == Spec => []TypeOK
<1>1. Init => Shape
  BY ShapeInit
<1>2. Shape /\ [Next]_vars => Shape'
  BY ShapeStep
<1>3. Shape => TypeOK
  BY DEF Shape
<1> QED
  BY <1>1, <1>2, <1>3, PTL DEF Spec

-----------------------------------------------------------------------------
(* Order: the line, the replay and the seam between them. *)

LEMMA FollowsFacts ==
    /\ \A x, y \in Int : x < y => Follows(x, y)
    /\ \A x, y : x # y /\ ~Lone => Follows(x, y)
BY DEF Follows

\* The places of the events on their way.
LEMMA Places ==
    ASSUME Shape
    PROVE  /\ total \in Nat /\ seq \in Nat /\ watermark \in Nat
           /\ \A t \in Threads : pub[t].evt # NoEvent => pub[t].evt.n \in 1..total
           /\ \A i \in 1..Len(soon) : soon[i].evt.n \in 1..total
           /\ \A i \in 1..Len(queue) : queue[i].kind = "event" => queue[i].n \in 1..total
           /\ \A i \in 1..Len(toSend) : toSend[i].kind = "event" => toSend[i].n \in 1..total
           /\ \A i \in 1..Len(delivered) : delivered[i] \in 1..total
<1>1. total \in Nat /\ seq \in Nat /\ watermark \in Nat /\ seq <= total
  BY DEF Shape, TypeOK, EventsNumbered
<1>2. ASSUME NEW f, f.kind = "event", Numbered(f, seq, total - seq) PROVE f.n \in 1..total
  BY <1>1, <1>2 DEF Numbered
<1> QED
  BY <1>1, <1>2 DEF Shape, EventsNumbered

LEMMA InLinePublishNumber ==
    ASSUME Shape, InLine, NEW t \in Threads, PublishNumber(t) PROVE InLine'
<1>1. PICK topic \in Topics :
        pub' = [pub EXCEPT ![t] = [evt |-> Event(seq + 1, total + 1, topic), sub |-> IF subscribed THEN conn ELSE 0]]
  BY DEF PublishNumber
<1>2. pub'[t].evt.n = total + 1
  BY <1>1, SlotTypes DEF Event, Shape
<1>3. \A s \in Threads : s # t => pub'[s] = pub[s]
  BY <1>1, SlotTypes DEF Shape
<1>4. soon' = soon /\ queue' = queue
  BY DEF PublishNumber, link
<1>5. total \in Nat
  BY Places
<1>6. \A x \in 1..total : x # total + 1 /\ Follows(x, total + 1)
  BY <1>5, FollowsFacts
<1>7. \A i \in 1..Len(soon), s \in Threads : pub'[s].evt # NoEvent => Follows(soon[i].evt.n, pub'[s].evt.n)
  BY <1>2, <1>3, <1>6, Places DEF InLine
<1>8. \A i \in 1..Len(queue), s \in Threads :
        queue[i].kind = "event" /\ pub'[s].evt # NoEvent => Follows(queue[i].n, pub'[s].evt.n)
  BY <1>2, <1>3, <1>6, Places DEF InLine
<1>9. \A s, r \in Threads : s # r /\ pub'[s].evt # NoEvent /\ pub'[r].evt # NoEvent => pub'[s].evt.n # pub'[r].evt.n
  BY <1>2, <1>3, <1>6, Places DEF InLine
<1> QED
  BY <1>4, <1>7, <1>8, <1>9 DEF InLine

LEMMA InLinePublishSchedule ==
    ASSUME Shape, InLine, NEW t \in Threads, PublishSchedule(t) PROVE InLine'
<1>1. pub' = [pub EXCEPT ![t] = [evt |-> NoEvent, sub |-> 0]] /\ pub[t].evt # NoEvent
      /\ (soon' = soon \/ soon' = Append(soon, pub[t])) /\ queue' = queue
  BY DEF PublishSchedule, link
<1>2. \A s \in Threads : pub'[s].evt # NoEvent => s # t /\ pub'[s] = pub[s]
  BY <1>1, SlotTypes DEF Shape
<1>3. CASE soon' = soon
  BY <1>1, <1>2, <1>3 DEF InLine
<1>4. CASE soon' = Append(soon, pub[t])
  <2>1. soon \in Seq(Slot) /\ pub[t] \in Slot
    BY SlotTypes DEF Shape
  <2>2. /\ Len(soon') = Len(soon) + 1 /\ Len(soon) \in Nat
        /\ \A i \in 1..Len(soon) : soon'[i] = soon[i]
        /\ soon'[Len(soon) + 1] = pub[t]
    BY <1>4, <2>1, AppendElements
  <2>3. \A i \in 1..Len(soon') : (i \in 1..Len(soon) /\ soon'[i] = soon[i]) \/ soon'[i] = pub[t]
    <3>1. \A i \in 1..Len(soon') : i \in 1..Len(soon) \/ i = Len(soon) + 1
      BY <2>2
    <3> QED
      BY <3>1, <2>2
  <2>4. \A i, j \in 1..Len(soon') : i < j => Follows(soon'[i].evt.n, soon'[j].evt.n)
    <3> TAKE i, j \in 1..Len(soon')
    <3> HAVE i < j
    <3>1. i \in 1..Len(soon)
      BY <2>2
    <3> QED
      BY <3>1, <2>2, <2>3, <1>1 DEF InLine
  <2>5. \A s \in Threads : pub'[s].evt # NoEvent => Follows(pub[t].evt.n, pub'[s].evt.n)
    BY <1>1, <1>2, FollowsFacts DEF InLine, Lone
  <2>6. \A i \in 1..Len(soon'), s \in Threads : pub'[s].evt # NoEvent => Follows(soon'[i].evt.n, pub'[s].evt.n)
    BY <1>2, <2>3, <2>5 DEF InLine
  <2>7. \A i \in 1..Len(queue), j \in 1..Len(soon') : queue[i].kind = "event" => Follows(queue[i].n, soon'[j].evt.n)
    BY <2>3, <1>1 DEF InLine
  <2> QED
    BY <1>1, <1>2, <2>4, <2>6, <2>7 DEF InLine
<1> QED
  BY <1>1, <1>3, <1>4

\* The queue after a callback: old events, then the one the callback brought.
LEMMA RunSoonFacts ==
    ASSUME Shape, RunSoon
    PROVE  /\ 1 \in 1..Len(soon)
           /\ \A i \in 1..Len(soon') : i + 1 \in 1..Len(soon) /\ soon'[i] = soon[i + 1]
           /\ Shifted(queue, soon[1].evt, queue')
           /\ UNCHANGED <<seq, total, pub, watermark, phase, delivered, toSend>>
<1>1. /\ Head(soon) = soon[1] /\ 1 \in 1..Len(soon) /\ Head(soon) \in Slot
      /\ \A i \in 1..Len(soon') : i + 1 \in 1..Len(soon) /\ soon'[i] = soon[i + 1]
  BY SlotTypes, TailElements DEF RunSoon, Shape
<1> DEFINE e == soon[1].evt
<1>2. queue \in Seq(Frame) /\ Len(queue) <= QueueMax /\ e \in Frame
  BY <1>1 DEF Shape, TypeOK, Slot
<1>3. UNCHANGED <<seq, total, pub, watermark, phase, delivered, toSend>>
  BY DEF RunSoon, client
<1>4. queue' = queue \/ queue' = PutDropOldest(queue, e)
  BY <1>1 DEF RunSoon
<1> HIDE DEF e
<1>5. CASE queue' = queue
  <2>1. \A i \in 1..Len(queue') : i + 0 \in 1..Len(queue) /\ queue'[i] = queue[i + 0]
    BY <1>5, <1>2
  <2>2. Shifted(queue, e, queue')
    BY ONLY <2>1 DEF Shifted
  <2> QED
    BY <2>2, <1>1, <1>3 DEF e
<1>6. CASE queue' = PutDropOldest(queue, e)
  <2>1. Shifted(queue, e, queue')
    BY ONLY <1>2, <1>6, PutDropOldestFrames
  <2> QED
    BY <2>1, <1>1, <1>3 DEF e
<1> QED
  BY <1>4, <1>5, <1>6

LEMMA InLineRunSoon == ASSUME Shape, InLine, RunSoon PROVE InLine'
<1>1. PICK k \in 0..2 : \A i \in 1..Len(queue') : queue'[i].kind = "event" =>
        \/ i + k \in 1..Len(queue) /\ queue'[i] = queue[i + k]
        \/ i + k = Len(queue) + 1 /\ queue'[i] = soon[1].evt
  BY RunSoonFacts DEF Shifted
<1>2. /\ 1 \in 1..Len(soon) /\ pub' = pub
      /\ \A i \in 1..Len(soon') : i + 1 \in 1..Len(soon) /\ soon'[i] = soon[i + 1]
  BY RunSoonFacts
<1>3. \A i, j \in 1..Len(soon') : i < j => Follows(soon'[i].evt.n, soon'[j].evt.n)
  <2>1. \A i, j \in 1..Len(soon') : i < j => i + 1 < j + 1
    OBVIOUS
  <2> QED
    BY <1>2, <2>1 DEF InLine
<1>4. \A i \in 1..Len(soon'), t \in Threads : pub'[t].evt # NoEvent => Follows(soon'[i].evt.n, pub'[t].evt.n)
  BY <1>2 DEF InLine
<1>5. \A i, j \in 1..Len(queue') : i < j /\ queue'[i].kind = "event" /\ queue'[j].kind = "event"
        => Follows(queue'[i].n, queue'[j].n)
  <2> SUFFICES ASSUME NEW i \in 1..Len(queue'), NEW j \in 1..Len(queue'), i < j,
                      queue'[i].kind = "event", queue'[j].kind = "event"
               PROVE  Follows(queue'[i].n, queue'[j].n)
    OBVIOUS
  <2>0. Len(queue) \in Nat /\ i + k < j + k
    BY DEF Shape, TypeOK
  <2>1. i + k \in 1..Len(queue) /\ queue'[i] = queue[i + k]
    BY <1>1, <2>0
  <2>2. CASE j + k \in 1..Len(queue) /\ queue'[j] = queue[j + k]
    BY <2>0, <2>1, <2>2 DEF InLine
  <2>3. CASE queue'[j] = soon[1].evt
    BY <2>1, <2>3, <1>2 DEF InLine
  <2> QED
    BY <1>1, <2>2, <2>3
<1>6. \A i \in 1..Len(queue'), j \in 1..Len(soon') : queue'[i].kind = "event" => Follows(queue'[i].n, soon'[j].evt.n)
  <2> SUFFICES ASSUME NEW i \in 1..Len(queue'), NEW j \in 1..Len(soon'), queue'[i].kind = "event"
               PROVE  Follows(queue'[i].n, soon'[j].evt.n)
    OBVIOUS
  <2>1. j + 1 \in 1..Len(soon) /\ soon'[j] = soon[j + 1] /\ 1 < j + 1
    BY <1>2
  <2>2. CASE i + k \in 1..Len(queue) /\ queue'[i] = queue[i + k]
    BY <2>1, <2>2 DEF InLine
  <2>3. CASE queue'[i] = soon[1].evt
    BY <2>1, <2>3, <1>2 DEF InLine
  <2> QED
    BY <1>1, <2>2, <2>3
<1>7. \A i \in 1..Len(queue'), t \in Threads :
        queue'[i].kind = "event" /\ pub'[t].evt # NoEvent => Follows(queue'[i].n, pub'[t].evt.n)
  BY <1>1, <1>2 DEF InLine
<1> QED
  BY <1>2, <1>3, <1>4, <1>5, <1>6, <1>7 DEF InLine

LEMMA CloseAllFacts ==
    ASSUME Shape, CloseAll
    PROVE  /\ pub' = pub /\ soon' = soon
           /\ \A i \in 1..Len(queue') : queue'[i].kind = "event" => i \in 1..Len(queue) /\ queue'[i] = queue[i]
<1>1. queue' = queue \/ queue' = Append(queue, Stop)
  BY DEF CloseAll, PutSentinel
<1>2. queue \in Seq(Frame) /\ Stop \in Frame /\ Stop.kind = "stop"
  BY FrameFacts DEF Shape, TypeOK, Stop
<1>3. CASE queue' = Append(queue, Stop)
  <2>1. /\ Len(queue') = Len(queue) + 1 /\ Len(queue) \in Nat
        /\ \A i \in 1..Len(queue) : queue'[i] = queue[i]
        /\ queue'[Len(queue) + 1] = Stop
    BY <1>3, <1>2, AppendElements
  <2> HIDE DEF Stop
  <2>2. \A i \in 1..Len(queue') : i \in 1..Len(queue) \/ i = Len(queue) + 1
    BY <2>1
  <2> QED
    BY <2>1, <2>2, <1>2 DEF CloseAll, server
<1> QED
  BY <1>1, <1>3 DEF CloseAll, server

LEMMA InLineStep == Shape /\ InLine /\ [Next]_vars => InLine'
<1> SUFFICES ASSUME Shape, InLine, [Next]_vars PROVE InLine'
  OBVIOUS
<1>1. CASE UNCHANGED <<pub, soon>> /\ queue' = queue
  BY <1>1 DEF InLine
<1>2. CASE UNCHANGED <<pub, soon>> /\ queue' = <<>>
  BY <1>2 DEF InLine
<1>3. CASE SendLive
  <2>1. /\ pub' = pub /\ soon' = soon
        /\ \A i \in 1..Len(queue') : i + 1 \in 1..Len(queue) /\ queue'[i] = queue[i + 1]
    BY <1>3, TailElements DEF SendLive, server, Shape, TypeOK
  <2>2. \A i, j \in 1..Len(queue') : i < j => i + 1 < j + 1
    OBVIOUS
  <2>3. \A i, j \in 1..Len(queue') : i < j /\ queue'[i].kind = "event" /\ queue'[j].kind = "event"
          => Follows(queue'[i].n, queue'[j].n)
    BY <2>1, <2>2 DEF InLine
  <2>4. \A i \in 1..Len(queue'), j \in 1..Len(soon) :
          queue'[i].kind = "event" => Follows(queue'[i].n, soon[j].evt.n)
    <3>1. \A i \in 1..Len(queue), j \in 1..Len(soon) :
            queue[i].kind = "event" => Follows(queue[i].n, soon[j].evt.n)
      BY DEF InLine
    <3> QED
      BY ONLY <2>1, <3>1
  <2>5. \A i \in 1..Len(queue'), t \in Threads :
          queue'[i].kind = "event" /\ pub[t].evt # NoEvent => Follows(queue'[i].n, pub[t].evt.n)
    <3>1. \A i \in 1..Len(queue), t \in Threads :
            queue[i].kind = "event" /\ pub[t].evt # NoEvent => Follows(queue[i].n, pub[t].evt.n)
      BY DEF InLine
    <3> QED
      BY ONLY <2>1, <3>1
  <2> QED
    BY <2>1, <2>3, <2>4, <2>5 DEF InLine
<1>4. CASE CloseAll
  <2>1. /\ pub' = pub /\ soon' = soon
        /\ \A i \in 1..Len(queue') : queue'[i].kind = "event" => i \in 1..Len(queue) /\ queue'[i] = queue[i]
    BY <1>4, CloseAllFacts
  <2> QED
    BY <2>1 DEF InLine
<1>5. CASE Restart
  <2>1. \A t \in Threads : pub'[t].evt = NoEvent
    BY <1>5 DEF Restart
  <2>2. Len(soon') = 0 /\ Len(queue') = 0
    BY <1>5 DEF Restart
  <2> QED
    BY <2>1, <2>2 DEF InLine
<1>6. CASE Expire \/ FlushPending \/ PlanReplay \/ SendReplay \/ GoLive \/ UNCHANGED vars
  BY <1>1, <1>6 DEF Expire, FlushPending, PlanReplay, SendReplay, GoLive, vars, server, link
<1>7. CASE Subscribe \/ Disconnect
  BY <1>2, <1>7 DEF Subscribe, Disconnect, server
<1> QED
  BY <1>3, <1>4, <1>5, <1>6, <1>7, InLinePublishNumber, InLinePublishSchedule, InLineRunSoon
     DEF Next, Handler

-----------------------------------------------------------------------------
Order == InLine /\ ReplayOrder /\ Seam

\* Above the watermark comes only what no replay has written.
LEMMA AheadOfReplay ==
    ASSUME Shape, NEW x \in Int, x <= watermark + (total - seq)
    PROVE  Ahead(x)
<1>1. total \in Nat /\ seq \in Nat /\ watermark \in Nat
  BY Places
<1>2. ASSUME NEW f, f.kind = "event", Numbered(f, seq, total - seq), f.id > watermark
      PROVE  Follows(x, f.n)
  <2>1. f.n \in Int /\ x < f.n
    BY <1>1, <1>2 DEF Numbered
  <2> QED
    BY <2>1, FollowsFacts
<1> QED
  BY <1>2 DEF Ahead, Shape, EventsNumbered

LEMMA DeliveredFacts ==
    ASSUME Shape, NEW f, Deliver(f)
    PROVE  \A d \in 1..Len(delivered') :
             \/ d \in 1..Len(delivered) /\ delivered'[d] = delivered[d]
             \/ d = Len(delivered) + 1 /\ f.kind = "event" /\ delivered'[d] = f.n
<1>1. delivered \in Seq(1..MaxEvents)
  BY DEF Shape, TypeOK
<1>2. CASE f.kind = "event"
  <2>1. delivered' = Append(delivered, f.n)
    BY <1>2 DEF Deliver
  <2>2. /\ Len(delivered') = Len(delivered) + 1 /\ Len(delivered) \in Nat
        /\ \A d \in 1..Len(delivered) : delivered'[d] = delivered[d]
        /\ delivered'[Len(delivered) + 1] = f.n
    BY <1>1, <2>1
  <2>3. \A d \in 1..Len(delivered') : d \in 1..Len(delivered) \/ d = Len(delivered) + 1
    BY <2>2
  <2> QED
    BY <2>2, <2>3, <1>2
<1>3. CASE f.kind # "event"
  BY <1>3 DEF Deliver
<1> QED
  BY <1>2, <1>3

LEMMA OrderPublishNumber ==
    ASSUME Shape, Order, NEW t \in Threads, PublishNumber(t) PROVE ReplayOrder' /\ Seam'
<1>1. PICK topic \in Topics :
        pub' = [pub EXCEPT ![t] = [evt |-> Event(seq + 1, total + 1, topic), sub |-> IF subscribed THEN conn ELSE 0]]
  BY DEF PublishNumber
<1>2. pub'[t].evt.n = total + 1 /\ \A s \in Threads : s # t => pub'[s] = pub[s]
  BY <1>1, SlotTypes DEF Event, Shape
<1>3. seq \in Nat /\ total \in Nat /\ seq' = seq + 1 /\ total' = total + 1 /\ total' - seq' = total - seq
      /\ watermark \in Nat
  BY Places DEF PublishNumber
<1>4. UNCHANGED <<soon, queue, toSend, watermark, delivered, phase>>
  BY DEF PublishNumber, link, client
<1>5. ASSUME NEW d \in 1..Len(delivered), Ahead(delivered[d]) PROVE Ahead(delivered[d])'
  <2>1. Follows(delivered[d], total + 1)
    <3>1. delivered[d] \in 1..total
      BY Places
    <3> QED
      BY <3>1, <1>3, FollowsFacts
  <2>2. \A s \in Threads : pub'[s].evt # NoEvent /\ pub'[s].evt.id > watermark => Follows(delivered[d], pub'[s].evt.n)
    BY <1>2, <1>5, <2>1 DEF Ahead
  <2> QED
    BY <1>4, <1>5, <2>2 DEF Ahead
<1>6. ReplayOrder'
  BY <1>4 DEF Order, ReplayOrder
<1>7. Seam'
  BY <1>3, <1>4, <1>5 DEF Order, Seam
<1> QED
  BY <1>6, <1>7

LEMMA OrderPublishSchedule ==
    ASSUME Shape, Order, NEW t \in Threads, PublishSchedule(t) PROVE ReplayOrder' /\ Seam'
<1>1. pub' = [pub EXCEPT ![t] = [evt |-> NoEvent, sub |-> 0]] /\ pub[t].evt # NoEvent
      /\ (soon' = soon \/ soon' = Append(soon, pub[t]))
      /\ UNCHANGED <<queue, toSend, watermark, delivered, phase, seq, total>>
  BY DEF PublishSchedule, link, client
<1>2. \A s \in Threads : pub'[s].evt # NoEvent => s # t /\ pub'[s] = pub[s]
  BY <1>1, SlotTypes DEF Shape
<1>3. \A i \in 1..Len(soon') : (i \in 1..Len(soon) /\ soon'[i] = soon[i]) \/ soon'[i] = pub[t]
  <2>1. soon \in Seq(Slot) /\ pub[t] \in Slot
    BY SlotTypes DEF Shape
  <2>2. CASE soon' = Append(soon, pub[t])
    <3>1. /\ Len(soon') = Len(soon) + 1 /\ Len(soon) \in Nat
          /\ \A i \in 1..Len(soon) : soon'[i] = soon[i]
          /\ soon'[Len(soon) + 1] = pub[t]
      BY <2>1, <2>2, AppendElements
    <3>2. \A i \in 1..Len(soon') : i \in 1..Len(soon) \/ i = Len(soon) + 1
      BY <3>1
    <3> QED
      BY <3>1, <3>2
  <2> QED
    BY <2>2, <1>1
<1>4. ASSUME NEW d \in 1..Len(delivered), Ahead(delivered[d]) PROVE Ahead(delivered[d])'
  BY <1>1, <1>2, <1>3, <1>4 DEF Ahead
<1>5. ReplayOrder'
  BY <1>1 DEF Order, ReplayOrder
<1>6. Seam'
  BY <1>1, <1>4 DEF Order, Seam
<1> QED
  BY <1>5, <1>6

LEMMA OrderRunSoon == ASSUME Shape, Order, RunSoon PROVE ReplayOrder' /\ Seam'
<1>1. PICK k \in 0..2 : \A i \in 1..Len(queue') : queue'[i].kind = "event" =>
        \/ i + k \in 1..Len(queue) /\ queue'[i] = queue[i + k]
        \/ i + k = Len(queue) + 1 /\ queue'[i] = soon[1].evt
  BY RunSoonFacts DEF Shifted
<1>2. /\ 1 \in 1..Len(soon)
      /\ \A i \in 1..Len(soon') : i + 1 \in 1..Len(soon) /\ soon'[i] = soon[i + 1]
      /\ UNCHANGED <<seq, total, pub, watermark, phase, delivered, toSend>>
  BY RunSoonFacts
<1>3. ASSUME NEW d \in 1..Len(delivered), Ahead(delivered[d]) PROVE Ahead(delivered[d])'
  <2>1. \A i \in 1..Len(queue') : queue'[i].kind = "event" /\ queue'[i].id > watermark
          => Follows(delivered[d], queue'[i].n)
    BY <1>1, <1>2, <1>3 DEF Ahead
  <2>2. \A i \in 1..Len(soon') : soon'[i].evt.id > watermark => Follows(delivered[d], soon'[i].evt.n)
    BY <1>2, <1>3 DEF Ahead
  <2> QED
    BY <1>2, <1>3, <2>1, <2>2 DEF Ahead
<1>4. ReplayOrder'
  BY <1>2 DEF Order, ReplayOrder
<1>5. Seam'
  BY <1>2, <1>3 DEF Order, Seam
<1> QED
  BY <1>4, <1>5

LEMMA OrderPlanReplay == ASSUME Shape, Order, PlanReplay PROVE ReplayOrder' /\ Seam'
<1>1. phase = "connected" /\ phase' = "replay" /\ delivered' = delivered /\ delivered = <<>> /\ toSend = <<>>
      /\ seq' = seq /\ watermark <= seq
  BY DEF PlanReplay, server, client, Order, Seam, ReplayOrder
<1>2. CASE stored > 0
  <2>1. ReplayPlan
    BY <1>2 DEF PlanReplay
  <2>2. ReplayOrder'
    BY <1>1, <2>1, PlanFacts DEF ReplayOrder
  <2>3. watermark' <= seq'
    BY <1>1, <2>1, PlanFacts
  <2> QED
    BY <1>1, <2>2, <2>3 DEF Seam
<1>3. CASE ~(stored > 0)
  <2>1. toSend' = <<>> /\ watermark' = watermark
    BY <1>1, <1>3 DEF PlanReplay
  <2> QED
    BY <1>1, <2>1 DEF ReplayOrder, Seam
<1> QED
  BY <1>2, <1>3

LEMMA OrderSendReplay == ASSUME Shape, Order, SendReplay PROVE ReplayOrder' /\ Seam'
<1> DEFINE h == toSend[1]
<1>1. /\ h = Head(toSend) /\ 1 \in 1..Len(toSend) /\ Len(toSend) \in Nat /\ Deliver(h) /\ phase = "replay"
      /\ \A i \in 1..Len(toSend') : i + 1 \in 1..Len(toSend) /\ toSend'[i] = toSend[i + 1] /\ 1 < i + 1
      /\ UNCHANGED <<seq, pub, soon, queue, phase, watermark, total>>
  BY TailElements DEF SendReplay, server, Shape, TypeOK
<1>2. \A d \in 1..Len(delivered') :
        \/ d \in 1..Len(delivered) /\ delivered'[d] = delivered[d]
        \/ d = Len(delivered) + 1 /\ h.kind = "event" /\ delivered'[d] = h.n
  BY <1>1, DeliveredFacts
<1>3. h.kind = "event" => /\ h.n \in Int /\ h.n <= watermark + (total - seq)
                          /\ \A d \in 1..Len(delivered) : Follows(delivered[d], h.n)
  <2>1. h.kind = "event" => h.id \in Int /\ h.n = h.id + (total - seq) /\ h.id <= watermark
                           /\ \A d \in 1..Len(delivered) : Follows(delivered[d], h.n)
    BY <1>1 DEF Shape, EventsNumbered, Numbered, Order, ReplayOrder
  <2> QED
    BY <2>1, Places
<1>4. h.kind = "event" => Ahead(h.n)
  BY <1>3, AheadOfReplay
<1>5. h.kind = "event" => \A i \in 1..Len(toSend) : 1 < i /\ toSend[i].kind = "event" => Follows(h.n, toSend[i].n)
  BY <1>1, Places, FollowsFacts DEF Order, ReplayOrder
<1> HIDE DEF h
<1>6. ReplayOrder'
  <2> SUFFICES ASSUME NEW i \in 1..Len(toSend'), toSend'[i].kind = "event"
               PROVE  /\ toSend'[i].id <= watermark
                      /\ \A j \in 1..Len(toSend') : i < j /\ toSend'[j].kind = "event" => toSend'[i].n < toSend'[j].n
                      /\ \A d \in 1..Len(delivered') : Follows(delivered'[d], toSend'[i].n)
    BY <1>1 DEF ReplayOrder
  <2>1. toSend'[i] = toSend[i + 1] /\ i + 1 \in 1..Len(toSend) /\ 1 < i + 1
    BY <1>1
  <2>2. toSend[i + 1].id <= watermark
    BY <2>1 DEF Order, ReplayOrder
  <2>3. \A j \in 1..Len(toSend') : i < j /\ toSend'[j].kind = "event" => toSend'[i].n < toSend'[j].n
    <3> TAKE j \in 1..Len(toSend')
    <3> HAVE i < j /\ toSend'[j].kind = "event"
    <3>1. toSend'[j] = toSend[j + 1] /\ j + 1 \in 1..Len(toSend) /\ i + 1 < j + 1
      BY <1>1
    <3> QED
      BY <2>1, <3>1 DEF Order, ReplayOrder
  <2>4. \A d \in 1..Len(delivered') : Follows(delivered'[d], toSend'[i].n)
    BY <1>2, <1>5, <2>1 DEF Order, ReplayOrder
  <2> QED
    BY <2>1, <2>2, <2>3, <2>4
<1>7. (\A d \in 1..Len(delivered) : Ahead(delivered[d]))'
  <2>1. \A d \in 1..Len(delivered') : Ahead(delivered'[d])
    BY <1>1, <1>2, <1>4 DEF Order, Seam
  <2> QED
    BY <2>1, <1>1 DEF Ahead
<1>8. \A d \in 1..Len(delivered') : delivered'[d] <= watermark + (total - seq)
  BY <1>1, <1>2, <1>3 DEF Order, Seam
<1>9. \A c, d \in 1..Len(delivered') : c < d => Follows(delivered'[c], delivered'[d])
  <2> TAKE c, d \in 1..Len(delivered')
  <2> HAVE c < d
  <2>1. Len(delivered) \in Nat
    BY DEF Shape, TypeOK
  <2>2. c \in 1..Len(delivered) /\ delivered'[c] = delivered[c]
    BY <1>2, <2>1
  <2> QED
    BY <1>2, <1>3, <2>2 DEF Order, Seam
<1> QED
  BY <1>1, <1>6, <1>7, <1>8, <1>9 DEF Order, Seam

LEMMA OrderSendLive == ASSUME Shape, Order, SendLive PROVE ReplayOrder' /\ Seam'
<1> DEFINE h == queue[1]
<1>1. /\ h = Head(queue) /\ 1 \in 1..Len(queue) /\ phase = "live" /\ toSend = <<>> /\ toSend' = <<>>
      /\ \A i \in 1..Len(queue') : i + 1 \in 1..Len(queue) /\ queue'[i] = queue[i + 1] /\ 1 < i + 1
      /\ UNCHANGED <<seq, pub, soon, watermark, total>>
      /\ phase' \in {"live", "off"}
  BY TailElements DEF SendLive, server, Shape, TypeOK, Order, ReplayOrder
<1>2. ReplayOrder'
  BY <1>1 DEF ReplayOrder
<1>3. CASE UNCHANGED client
  <2>1. delivered' = delivered
    BY <1>3 DEF client
  <2>2. \A d \in 1..Len(delivered) : Ahead(delivered[d])'
    BY <1>1, <2>1 DEF Order, Seam, Ahead
  <2> QED
    BY <1>1, <1>2, <2>1, <2>2 DEF Order, Seam
<1>4. CASE Deliver(h) /\ ~(h.id <= watermark)
  <2>1. \A d \in 1..Len(delivered') :
          \/ d \in 1..Len(delivered) /\ delivered'[d] = delivered[d]
          \/ d = Len(delivered) + 1 /\ h.kind = "event" /\ delivered'[d] = h.n
    BY <1>4, DeliveredFacts
  <2>2. h.id > watermark
    <3>1. h.id \in 0..MaxEvents /\ watermark \in Nat
      <4>1. h \in Frame
        BY <1>1 DEF Shape, TypeOK
      <4> HIDE DEF h
      <4> QED
        BY <4>1, Places DEF Frame
    <3> QED
      BY <3>1, <1>4, BusAssumption
  <2>3. \A d \in 1..Len(delivered) : h.kind = "event" => Follows(delivered[d], h.n)
    BY <1>1, <2>2 DEF Order, Seam, Ahead
  <2>4. (\A d \in 1..Len(delivered) : Ahead(delivered[d]))'
    <3> SUFFICES ASSUME NEW d \in 1..Len(delivered') PROVE Ahead(delivered[d])'
      OBVIOUS
    <3>1. CASE d \in 1..Len(delivered) /\ delivered'[d] = delivered[d]
      <4>1. Ahead(delivered[d])
        BY <3>1, <1>1 DEF Order, Seam
      <4> QED
        BY <4>1, <3>1, <1>1 DEF Ahead
    <3>2. CASE h.kind = "event" /\ delivered'[d] = h.n
      <4>1. \A i \in 1..Len(queue') : queue'[i].kind = "event" => Follows(h.n, queue'[i].n)
        BY <1>1, <3>2 DEF Order, InLine
      <4>2. \A i \in 1..Len(soon) : Follows(h.n, soon[i].evt.n)
        BY <1>1, <3>2 DEF Order, InLine
      <4>3. \A t \in Threads : pub[t].evt # NoEvent => Follows(h.n, pub[t].evt.n)
        BY <1>1, <3>2 DEF Order, InLine
      <4> HIDE DEF h
      <4> QED
        BY <4>1, <4>2, <4>3, <3>2, <1>1 DEF Ahead
    <3> QED
      BY <2>1, <3>1, <3>2
  <2>5. \A c, d \in 1..Len(delivered') : c < d => Follows(delivered'[c], delivered'[d])
    <3> TAKE c, d \in 1..Len(delivered')
    <3> HAVE c < d
    <3>1. Len(delivered) \in Nat
      BY DEF Shape, TypeOK
    <3>2. c \in 1..Len(delivered) /\ delivered'[c] = delivered[c]
      BY <2>1, <3>1
    <3> QED
      BY <2>1, <2>3, <3>2 DEF Order, Seam
  <2> QED
    BY <1>1, <1>2, <2>4, <2>5 DEF Order, Seam
<1> QED
  BY <1>3, <1>4, <1>1 DEF SendLive

LEMMA OrderStep == Shape /\ Order /\ [Next]_vars => Order'
<1> SUFFICES ASSUME Shape, Order, [Next]_vars PROVE ReplayOrder' /\ Seam'
  BY InLineStep DEF Order
<1>1. CASE UNCHANGED <<seq, total, pub, soon, queue, watermark, toSend, delivered, phase>>
  BY <1>1 DEF Order, ReplayOrder, Seam, Ahead
<1>2. CASE phase' = "off" /\ toSend' = <<>> /\ delivered' = delivered
  BY <1>2 DEF Order, ReplayOrder, Seam
<1>3. CASE Subscribe
  <2>1. phase' = "connected" /\ watermark' = seq /\ seq' = seq /\ toSend' = <<>> /\ delivered' = <<>>
    BY <1>3 DEF Subscribe, server
  <2> QED
    BY <2>1, Places DEF ReplayOrder, Seam
<1>4. CASE GoLive
  <2>1. phase = "replay" /\ toSend' = <<>> /\ phase' = "live"
        /\ UNCHANGED <<seq, total, pub, soon, queue, watermark, delivered>>
    BY <1>4 DEF GoLive, server, client
  <2> QED
    BY <2>1 DEF Order, ReplayOrder, Seam, Ahead
<1>5. CASE CloseAll
  <2>1. UNCHANGED <<seq, total, pub, soon, watermark, toSend, delivered, phase>>
    BY <1>5 DEF CloseAll, server, client
  <2>2. \A i \in 1..Len(queue') : queue'[i].kind = "event" => i \in 1..Len(queue) /\ queue'[i] = queue[i]
    BY <1>5, CloseAllFacts
  <2> QED
    BY <2>1, <2>2 DEF Order, ReplayOrder, Seam, Ahead
<1>6. CASE Expire \/ FlushPending \/ UNCHANGED vars
  BY <1>1, <1>6 DEF Expire, FlushPending, vars, server, link, client
<1>7. CASE Disconnect \/ Restart
  BY <1>2, <1>7 DEF Disconnect, Restart, client
<1> QED
  BY <1>3, <1>4, <1>5, <1>6, <1>7, OrderPublishNumber, OrderPublishSchedule, OrderRunSoon,
     OrderPlanReplay, OrderSendReplay, OrderSendLive
     DEF Next, Handler

LEMMA OrderInit == Init => Order
<1> SUFFICES ASSUME Init PROVE Order
  OBVIOUS
<1>1. /\ Len(soon) = 0 /\ Len(queue) = 0 /\ Len(toSend) = 0 /\ Len(delivered) = 0
      /\ phase = "off" /\ \A t \in Threads : pub[t].evt = NoEvent
  BY DEF Init
<1> QED
  BY <1>1 DEF Init, Order, InLine, ReplayOrder, Seam

-----------------------------------------------------------------------------
(* What is lost is told. *)

Announced == Named /\ Fresh

LEMMA RunSoonFrames ==
    ASSUME Shape, RunSoon
    PROVE  /\ 1 \in 1..Len(soon) /\ queue \in Seq(Frame)
           /\ \A i \in 1..Len(soon') : i + 1 \in 1..Len(soon) /\ soon'[i] = soon[i + 1]
           /\ IF soon[1].sub = conn /\ phase # "off"
              THEN /\ \A i \in 1..Len(queue') :
                        \/ (queue'[i] = soon[1].evt \/ \E j \in 1..Len(queue) : queue'[i] = queue[j])
                        \/ (1 \in 1..Len(queue) /\ HasGap(queue[1]) /\ queue'[i] = Gap(queue[1]))
                   /\ (\A j \in 1..Len(queue) : HasGap(queue[j])) =>
                        \/ queue' = Append(queue, soon[1].evt)
                        \/ \E i \in 1..Len(queue') : queue'[i].kind = "gap"
              ELSE queue' = queue
           /\ UNCHANGED <<seq, pub, conn, phase, subscribed, watermark, toSend, client,
                          closed, restarts, total, topicOf>>
<1>1. /\ Head(soon) = soon[1] /\ 1 \in 1..Len(soon) /\ Head(soon) \in Slot
      /\ \A i \in 1..Len(soon') : i + 1 \in 1..Len(soon) /\ soon'[i] = soon[i + 1]
  BY SlotTypes, TailElements DEF RunSoon, Shape
<1> DEFINE e == soon[1].evt
<1>2. queue \in Seq(Frame) /\ Len(queue) <= QueueMax /\ e \in Frame
  BY <1>1 DEF Shape, TypeOK, Slot
<1>3. IF soon[1].sub = conn /\ phase # "off" THEN queue' = PutDropOldest(queue, e) ELSE queue' = queue
  BY <1>1 DEF RunSoon
<1> HIDE DEF e
<1>4. ASSUME soon[1].sub = conn, phase # "off"
      PROVE  /\ \A i \in 1..Len(queue') :
                  \/ (queue'[i] = e \/ \E j \in 1..Len(queue) : queue'[i] = queue[j])
                  \/ (1 \in 1..Len(queue) /\ HasGap(queue[1]) /\ queue'[i] = Gap(queue[1]))
             /\ (\A j \in 1..Len(queue) : HasGap(queue[j])) =>
                  \/ queue' = Append(queue, e)
                  \/ \E i \in 1..Len(queue') : queue'[i].kind = "gap"
  BY <1>2, <1>3, <1>4, PutDropOldestTells
<1> QED
  BY <1>1, <1>2, <1>3, <1>4 DEF e, RunSoon

LEMMA GapKeeps == \A f \in Frame : /\ Gap(f).topic = f.topic /\ Gap(f).id = f.id /\ Gap(f).kind = "gap"
                                   /\ HasGap(f) => f.kind # "stop"
BY DEF Gap, Frame, HasGap

\* The frames of a queue that only lost some.
LEMMA SendLiveFrames ==
    ASSUME Shape, SendLive
    PROVE  /\ 1 \in 1..Len(queue) /\ queue[1] = Head(queue) /\ queue[1] \in Frame
           /\ \A i \in 1..Len(queue') : i + 1 \in 1..Len(queue) /\ queue'[i] = queue[i + 1]
BY TailElements DEF SendLive, Shape, TypeOK

\* Taking the head leaves the others.
LEMMA TailLeft ==
    ASSUME NEW S, NEW q \in Seq(S), q # <<>>
    PROVE  \A i \in 1..Len(q) : i = 1 \/ \E j \in 1..Len(Tail(q)) : Tail(q)[j] = q[i]
<1> TAKE i \in 1..Len(q)
<1>1. i = 1 \/ i - 1 \in 1..Len(Tail(q))
  BY TailElements
<1>2. i - 1 \in 1..Len(Tail(q)) => Tail(q)[i - 1] = q[i]
  <2>1. i - 1 \in 1..Len(Tail(q)) => Tail(q)[i - 1] = q[(i - 1) + 1] /\ (i - 1) + 1 = i
    BY TailElements
  <2> QED
    BY <2>1
<1> QED
  BY <1>1, <1>2

LEMMA SoonLeft ==
    ASSUME Shape, RunSoon
    PROVE  \A i \in 1..Len(soon) : i = 1 \/ \E j \in 1..Len(soon') : soon'[j] = soon[i]
BY SlotTypes, TailLeft DEF RunSoon, Shape

LEMMA QueueLeft ==
    ASSUME Shape, SendLive
    PROVE  \A i \in 1..Len(queue) : i = 1 \/ \E j \in 1..Len(queue') : queue'[j] = queue[i]
BY TailLeft DEF SendLive, Shape, TypeOK

LEMMA AppendedToQueue ==
    ASSUME Shape, RunSoon, queue' = Append(queue, soon[1].evt)
    PROVE  /\ \A i \in 1..Len(queue) : i \in 1..Len(queue') /\ queue'[i] = queue[i]
           /\ \E i \in 1..Len(queue') : queue'[i] = soon[1].evt
           /\ \A i \in 1..Len(queue') : i \in 1..Len(queue) \/ (i = Len(queue) + 1 /\ queue'[i] = soon[1].evt)
<1>1. queue \in Seq(Frame) /\ soon[1].evt \in Frame
  <2>1. soon[1] \in Slot
    BY RunSoonFrames, SlotTypes DEF Shape
  <2> QED
    BY <2>1, RunSoonFrames DEF Slot
<1>2. /\ Len(queue') = Len(queue) + 1 /\ Len(queue) \in Nat /\ queue'[Len(queue) + 1] = soon[1].evt
      /\ \A i \in 1..Len(queue) : queue'[i] = queue[i]
  BY <1>1, AppendElements
<1>3. /\ Len(queue) + 1 \in 1..Len(queue') /\ \A i \in 1..Len(queue) : i \in 1..Len(queue')
      /\ \A i \in 1..Len(queue') : i \in 1..Len(queue) \/ i = Len(queue) + 1
  BY <1>2
<1> QED
  BY <1>2, <1>3

LEMMA CloseAllFrames ==
    ASSUME Shape, CloseAll
    PROVE  \A i \in 1..Len(queue') : queue'[i].kind # "stop" => i \in 1..Len(queue) /\ queue'[i] = queue[i]
<1>1. queue' = queue \/ queue' = Append(queue, Stop)
  BY DEF CloseAll, PutSentinel
<1>2. queue \in Seq(Frame) /\ Stop \in Frame /\ Stop.kind = "stop"
  BY FrameFacts DEF Shape, TypeOK, Stop
<1>3. CASE queue' = Append(queue, Stop)
  <2>1. /\ Len(queue') = Len(queue) + 1 /\ Len(queue) \in Nat
        /\ \A i \in 1..Len(queue) : queue'[i] = queue[i]
        /\ queue'[Len(queue) + 1] = Stop
    BY <1>3, <1>2, AppendElements
  <2> HIDE DEF Stop
  <2>2. \A i \in 1..Len(queue') : i \in 1..Len(queue) \/ i = Len(queue) + 1
    BY <2>1
  <2> QED
    BY <2>1, <2>2, <1>2
<1> QED
  BY <1>1, <1>3

LEMMA ScheduleFacts ==
    ASSUME Shape, NEW t \in Threads, PublishSchedule(t)
    PROVE  /\ pub[t].evt # NoEvent
           /\ \A s \in Threads : pub'[s].evt # NoEvent => s # t /\ pub'[s] = pub[s]
           /\ \A s \in Threads : s # t => pub'[s] = pub[s]
           /\ pub'[t].sub = 0
           /\ \A i \in 1..Len(soon) : i \in 1..Len(soon') /\ soon'[i] = soon[i]
           /\ \A i \in 1..Len(soon') : \/ (i \in 1..Len(soon) /\ soon'[i] = soon[i])
                                       \/ (soon'[i] = pub[t] /\ pub[t].evt.topic \in Scope)
           /\ pub[t].sub # 0 /\ pub[t].evt.topic \in Scope => \E i \in 1..Len(soon') : soon'[i] = pub[t]
<1>1. pub' = [pub EXCEPT ![t] = [evt |-> NoEvent, sub |-> 0]] /\ pub[t].evt # NoEvent
  BY DEF PublishSchedule
<1>2. /\ \A s \in Threads : pub'[s].evt # NoEvent => s # t /\ pub'[s] = pub[s]
      /\ \A s \in Threads : s # t => pub'[s] = pub[s]
      /\ pub'[t].sub = 0
  BY <1>1, SlotTypes DEF Shape
<1>3. soon \in Seq(Slot) /\ pub[t] \in Slot
  BY SlotTypes DEF Shape
<1>4. CASE soon' = Append(soon, pub[t]) /\ pub[t].evt.topic \in Scope
  <2>1. /\ Len(soon') = Len(soon) + 1 /\ Len(soon) \in Nat
        /\ \A i \in 1..Len(soon) : soon'[i] = soon[i]
        /\ soon'[Len(soon) + 1] = pub[t]
    BY <1>3, <1>4, AppendElements
  <2>2. /\ \A i \in 1..Len(soon') : i \in 1..Len(soon) \/ i = Len(soon) + 1
        /\ \A i \in 1..Len(soon) : i \in 1..Len(soon')
        /\ Len(soon) + 1 \in 1..Len(soon')
    BY <2>1
  <2> QED
    BY <1>1, <1>2, <1>4, <2>1, <2>2
<1>5. CASE soon' = soon /\ ~(pub[t].sub # 0 /\ pub[t].evt.topic \in Scope)
  BY <1>1, <1>2, <1>5
<1> QED
  BY <1>4, <1>5 DEF PublishSchedule

LEMMA NumberFacts ==
    ASSUME Shape, NEW t \in Threads, PublishNumber(t)
    PROVE  /\ pub[t].evt = NoEvent
           /\ pub'[t].evt # NoEvent /\ pub'[t].evt.n = total + 1 /\ pub'[t].evt.id = seq + 1
           /\ pub'[t].sub = IF subscribed THEN conn ELSE 0
           /\ \A s \in Threads : s # t => pub'[s] = pub[s]
           /\ seq' = seq + 1 /\ total' = total + 1
           /\ topicOf'[total + 1] = pub'[t].evt.topic
           /\ \A n \in 1..total : topicOf'[n] = topicOf[n]
           /\ UNCHANGED <<soon, link, client, closed, restarts>>
<1>1. PICK topic \in Topics :
        /\ pub' = [pub EXCEPT ![t] = [evt |-> Event(seq + 1, total + 1, topic), sub |-> IF subscribed THEN conn ELSE 0]]
        /\ topicOf' = Append(topicOf, topic)
  BY DEF PublishNumber
<1>2. /\ pub'[t].evt = Event(seq + 1, total + 1, topic)
      /\ pub'[t].sub = IF subscribed THEN conn ELSE 0
      /\ \A s \in Threads : s # t => pub'[s] = pub[s]
  BY <1>1, SlotTypes DEF Shape
<1>3. seq \in Nat /\ total \in Nat
  BY Places
<1>4. /\ pub'[t].evt.n = total + 1 /\ pub'[t].evt.id = seq + 1 /\ pub'[t].evt.topic = topic
      /\ pub'[t].evt # NoEvent
  BY <1>2, <1>3 DEF Event, NoEvent
<1>5. topicOf'[total + 1] = topic /\ \A n \in 1..total : topicOf'[n] = topicOf[n]
  <2>1. topicOf \in Seq(Topics) /\ Len(topicOf) = total /\ topicOf' = Append(topicOf, topic)
    BY <1>1 DEF Shape, TypeOK
  <2> QED
    BY ONLY <2>1, AppendElements
<1> QED
  BY <1>2, <1>4, <1>5 DEF PublishNumber

LEMMA NamedStep == ASSUME Shape, Announced, [Next]_vars PROVE Named'
<1>1. ASSUME NEW t \in Threads, PublishNumber(t) PROVE Named'
  <2>1. \A s \in Threads : pub'[s].evt # NoEvent => topicOf'[pub'[s].evt.n] = pub'[s].evt.topic
    <3> TAKE s \in Threads
    <3>1. CASE s = t
      BY <1>1, <3>1, NumberFacts
    <3>2. CASE s # t
      <4>1. pub'[s] = pub[s] /\ \A n \in 1..total : topicOf'[n] = topicOf[n]
        BY <1>1, <3>2, NumberFacts
      <4>2. pub[s].evt # NoEvent => pub[s].evt.n \in 1..total /\ topicOf[pub[s].evt.n] = pub[s].evt.topic
        BY Places DEF Announced, Named
      <4> QED
        BY ONLY <4>1, <4>2
    <3> QED
      BY <3>1, <3>2
  <2> QED
    BY <1>1, <2>1, NumberFacts DEF Announced, Named, FirstConn, link
<1>2. ASSUME NEW t \in Threads, PublishSchedule(t) PROVE Named'
  <2>1. UNCHANGED <<conn, phase, queue, restarts, topicOf>>
    BY <1>2 DEF PublishSchedule, link
  <2>2. \A s \in Threads : pub'[s].evt # NoEvent => topicOf'[pub'[s].evt.n] = pub'[s].evt.topic
    BY <1>2, <2>1, ScheduleFacts DEF Announced, Named
  <2>3. \A i \in 1..Len(soon') : soon'[i].evt.topic \in Scope
    BY <1>2, ScheduleFacts DEF Announced, Named
  <2> QED
    BY <2>1, <2>2, <2>3 DEF Announced, Named, FirstConn
<1>3. CASE RunSoon
  <2>1. FirstConn => \A i \in 1..Len(queue') : queue'[i].kind # "stop" => queue'[i].topic \in Scope
    <3> SUFFICES ASSUME FirstConn, NEW i \in 1..Len(queue'), queue'[i].kind # "stop"
                 PROVE  queue'[i].topic \in Scope
      OBVIOUS
    <3>1. \A j \in 1..Len(queue) : queue[j] \in Frame /\ (queue[j].kind # "stop" => queue[j].topic \in Scope)
      <4>1. \A j \in 1..Len(queue) : queue[j] \in Frame
        BY DEF Shape, TypeOK
      <4> QED
        BY <4>1 DEF Announced, Named
    <3>2. soon[1].evt.topic \in Scope
      BY <1>3, RunSoonFrames DEF Announced, Named
    <3>3. \/ (queue'[i] = soon[1].evt \/ \E j \in 1..Len(queue) : queue'[i] = queue[j])
          \/ (1 \in 1..Len(queue) /\ HasGap(queue[1]) /\ queue'[i] = Gap(queue[1]))
      BY <1>3, RunSoonFrames
    <3> QED
      BY <3>1, <3>2, <3>3, GapKeeps
  <2>2. \A i \in 1..Len(soon') : soon'[i].evt.topic \in Scope
    BY <1>3, RunSoonFrames DEF Announced, Named
  <2> QED
    BY <1>3, <2>1, <2>2, RunSoonFrames DEF Announced, Named, FirstConn
<1>4. CASE SendLive
  <2>1. UNCHANGED <<conn, restarts, pub, soon, topicOf>> /\ (FirstConn' => FirstConn)
    BY <1>4 DEF SendLive, server, FirstConn
  <2> QED
    BY <1>4, <2>1, SendLiveFrames DEF Announced, Named
<1>5. CASE CloseAll
  <2>1. UNCHANGED <<conn, phase, restarts, pub, soon, topicOf>>
    BY <1>5 DEF CloseAll, server
  <2> QED
    BY <1>5, <2>1, CloseAllFrames DEF Announced, Named, FirstConn
<1>6. CASE Restart
  <2>1. /\ \A t \in Threads : pub'[t].evt = NoEvent
        /\ Len(soon') = 0 /\ phase' = "off"
    BY <1>6 DEF Restart
  <2> QED
    BY <2>1 DEF Named, FirstConn
<1>7. CASE UNCHANGED <<pub, soon, topicOf>> /\ (~FirstConn' \/ UNCHANGED <<conn, phase, restarts, queue>> \/ queue' = <<>>)
  BY <1>7 DEF Announced, Named, FirstConn
<1>8. CASE PlanReplay \/ GoLive
  <2>1. UNCHANGED <<pub, soon, topicOf, conn, restarts, queue>> /\ (FirstConn' => FirstConn)
    BY <1>8 DEF PlanReplay, GoLive, server, FirstConn
  <2> QED
    BY <2>1 DEF Announced, Named
<1>9. CASE Expire \/ FlushPending \/ SendReplay \/ Subscribe \/ Disconnect \/ UNCHANGED vars
  BY <1>7, <1>9 DEF Expire, FlushPending, SendReplay, Subscribe, Disconnect, FirstConn, vars, server, link
<1> QED
  BY <1>1, <1>2, <1>3, <1>4, <1>5, <1>6, <1>8, <1>9 DEF Next, Handler

LEMMA FreshStep == ASSUME Shape, Seam, Announced, [Next]_vars PROVE Fresh'
<1>1. ASSUME NEW t \in Threads, PublishNumber(t) PROVE Fresh'
  <2>1. UNCHANGED <<conn, phase, subscribed, queue, watermark, toSend, soon, stored, pending, closed, restarts>>
    BY <1>1, NumberFacts DEF link, client
  <2>2. seq \in Nat /\ total \in Nat /\ seq' = seq + 1 /\ total' = total + 1
    BY <1>1, NumberFacts, Places
  <2>3. \A s \in Threads : pub'[s].sub <= conn
    <3>1. 0 <= conn /\ conn <= conn /\ \A s \in Threads : pub[s].sub <= conn
      BY DEF Announced, Fresh, Shape, TypeOK
    <3> QED
      BY <1>1, <3>1, NumberFacts
  <2>4. FirstConn => \A s \in Threads : pub'[s].evt # NoEvent /\ pub'[s].sub = 1 => pub'[s].evt.id > watermark
    <3>1. FirstConn => watermark < seq + 1
      BY <2>2, Places DEF FirstConn, Seam
    <3> QED
      BY <1>1, <3>1, NumberFacts DEF Announced, Fresh
  <2> QED
    BY <2>1, <2>2, <2>3, <2>4 DEF Announced, Fresh, FirstConn
<1>2. ASSUME NEW t \in Threads, PublishSchedule(t) PROVE Fresh'
  <2>1. UNCHANGED <<seq, total, conn, phase, subscribed, queue, watermark, toSend, stored, pending, closed, restarts>>
    BY <1>2 DEF PublishSchedule, link, client
  <2>2. \A s \in Threads : pub'[s].sub <= conn
    <3>1. 0 <= conn /\ \A s \in Threads : pub[s].sub <= conn
      BY DEF Announced, Fresh, Shape, TypeOK
    <3> QED
      BY <1>2, <3>1, ScheduleFacts
  <2>3. \A i \in 1..Len(soon') : soon'[i].sub <= conn
    BY <1>2, ScheduleFacts DEF Announced, Fresh
  <2>4. FirstConn => \A s \in Threads : pub'[s].evt # NoEvent /\ pub'[s].sub = 1 => pub'[s].evt.id > watermark
    BY <1>2, ScheduleFacts DEF Announced, Fresh
  <2>5. FirstConn => \A i \in 1..Len(soon') : soon'[i].sub = 1 => soon'[i].evt.id > watermark
    BY <1>2, ScheduleFacts DEF Announced, Fresh
  <2> QED
    BY <2>1, <2>2, <2>3, <2>4, <2>5 DEF Announced, Fresh, FirstConn
<1>3. CASE RunSoon
  <2>1. /\ UNCHANGED <<seq, total, pub, conn, phase, subscribed, watermark, toSend, stored, pending, closed, restarts>>
        /\ \A i \in 1..Len(soon') : i + 1 \in 1..Len(soon) /\ soon'[i] = soon[i + 1]
        /\ 1 \in 1..Len(soon)
    BY <1>3, RunSoonFrames DEF client
  <2>2. ASSUME FirstConn, NEW i \in 1..Len(queue')
        PROVE  /\ queue'[i].kind # "stop" => queue'[i].id > watermark
               /\ queue'[i].kind = "stop" => closed
    <3>1. \A j \in 1..Len(queue) : /\ queue[j] \in Frame
                                   /\ queue[j].kind # "stop" => queue[j].id > watermark
                                   /\ queue[j].kind = "stop" => closed
      BY <2>2 DEF Announced, Fresh, Shape, TypeOK
    <3>2. CASE soon[1].sub = conn
      <4>1. soon[1].evt.id > watermark /\ soon[1].evt.kind # "stop"
        BY <2>1, <2>2, <3>2 DEF Announced, Fresh, FirstConn, Shape, EventsNumbered
      <4>2. \/ (queue'[i] = soon[1].evt \/ \E j \in 1..Len(queue) : queue'[i] = queue[j])
            \/ (1 \in 1..Len(queue) /\ HasGap(queue[1]) /\ queue'[i] = Gap(queue[1]))
        BY <1>3, <2>2, <3>2, RunSoonFrames DEF FirstConn
      <4> QED
        BY <3>1, <4>1, <4>2, GapKeeps
    <3>3. CASE soon[1].sub # conn
      BY <1>3, <3>1, <3>3, RunSoonFrames
    <3> QED
      BY <3>2, <3>3
  <2> QED
    BY <2>1, <2>2 DEF Announced, Fresh, FirstConn
<1>4. CASE Subscribe
  <2>1. /\ conn' = conn + 1 /\ conn \in Nat /\ phase' = "connected" /\ toSend' = <<>> /\ queue' = <<>>
        /\ subscribed' = TRUE /\ UNCHANGED <<seq, total, pub, soon, stored, pending, closed, restarts>>
    BY <1>4 DEF Subscribe, server, Shape, TypeOK
  <2>2. conn' = 1 => conn = 0 /\ stored = 0 /\ pending = 0
    BY <2>1 DEF Announced, Fresh
  <2>3. /\ \A t \in Threads : pub[t].sub \in Nat /\ pub[t].sub <= conn
        /\ \A i \in 1..Len(soon) : soon[i].sub \in Nat /\ soon[i].sub <= conn
    <3>1. /\ \A t \in Threads : pub[t] \in Slot
          /\ \A i \in 1..Len(soon) : soon[i] \in Slot
      BY SlotTypes DEF Shape
    <3>2. \A x \in Slot : x.sub \in Nat
      BY BusAssumption DEF Slot
    <3> QED
      BY <3>1, <3>2 DEF Announced, Fresh
  <2>4. /\ \A t \in Threads : pub[t].sub <= conn + 1 /\ (conn = 0 => pub[t].sub # 1)
        /\ \A i \in 1..Len(soon) : soon[i].sub <= conn + 1 /\ (conn = 0 => soon[i].sub # 1)
    BY <2>1, <2>3
  <2>5. conn' # 0
    BY <2>1
  <2> QED
    BY <2>1, <2>2, <2>4, <2>5 DEF Announced, Fresh, FirstConn
<1>5. CASE PlanReplay
  <2>1. /\ phase = "connected" /\ phase' = "replay"
        /\ UNCHANGED <<seq, total, pub, soon, conn, subscribed, queue, stored, pending, closed, restarts>>
    BY <1>5 DEF PlanReplay, server, client
  <2>2. conn = 1 => stored = 0
    BY <2>1 DEF Announced, Fresh
  <2>3. conn = 1 => toSend' = toSend /\ watermark' = watermark
    BY <1>5, <2>2 DEF PlanReplay
  <2> QED
    BY <2>1, <2>3 DEF Announced, Fresh, FirstConn
<1>6. CASE SendReplay
  <2>1. /\ phase = "replay" /\ toSend # <<>> /\ (toSend = <<>> => toSend' = <<>>)
        /\ UNCHANGED <<seq, total, pub, soon, conn, phase, subscribed, queue, watermark, closed, restarts>>
    BY <1>6 DEF SendReplay, server
  <2> QED
    BY <2>1 DEF Announced, Fresh, FirstConn
<1>7. CASE SendLive
  <2>1. /\ phase = "live" /\ phase' \in {"live", "off"} /\ (phase' # "off" => subscribed' = subscribed)
        /\ UNCHANGED <<seq, total, pub, soon, conn, watermark, toSend, closed, restarts>>
    BY <1>7 DEF SendLive, server
  <2>2. \A i \in 1..Len(queue') : i + 1 \in 1..Len(queue) /\ queue'[i] = queue[i + 1]
    BY <1>7, SendLiveFrames
  <2> QED
    BY <2>1, <2>2 DEF Announced, Fresh, FirstConn
<1>8. CASE FlushPending
  <2>1. /\ pending > 0 /\ ~(pending = 0)
        /\ UNCHANGED <<seq, total, pub, soon, conn, phase, subscribed, queue, watermark, toSend, closed, restarts>>
    BY <1>8 DEF FlushPending, server, link, Shape, TypeOK
  <2> QED
    BY <2>1 DEF Announced, Fresh, FirstConn
<1>9. CASE CloseAll
  <2>1. /\ closed' = TRUE
        /\ UNCHANGED <<seq, total, pub, soon, conn, phase, watermark, toSend, stored, pending, restarts>>
    BY <1>9 DEF CloseAll, server, client
  <2>2. \A i \in 1..Len(queue') : queue'[i].kind # "stop" => i \in 1..Len(queue) /\ queue'[i] = queue[i]
    BY <1>9, CloseAllFrames
  <2> QED
    BY <2>1, <2>2 DEF Announced, Fresh, FirstConn
<1>10. CASE Restart
  <2>1. /\ phase' = "off" /\ restarts' = restarts + 1 /\ restarts \in Nat /\ conn' = conn /\ conn \in Nat
        /\ stored' = stored /\ pending' = pending
        /\ pub' = [t \in Threads |-> [evt |-> NoEvent, sub |-> 0]] /\ soon' = <<>>
    BY <1>10 DEF Restart, client, Shape, TypeOK
  <2>2. /\ restarts' # 0 /\ \A t \in Threads : pub'[t].sub <= conn
        /\ Len(soon') = 0
    BY <2>1
  <2> QED
    BY <2>1, <2>2 DEF Announced, Fresh, FirstConn
<1>11. CASE GoLive \/ Disconnect
  <2>1. /\ phase # "off" /\ phase' \in {"live", "off"} /\ (phase' # "off" => UNCHANGED <<subscribed, queue, toSend>>)
        /\ UNCHANGED <<seq, total, pub, soon, conn, watermark, stored, pending, closed, restarts>>
    BY <1>11 DEF GoLive, Disconnect, server, client
  <2> QED
    BY <2>1 DEF Announced, Fresh, FirstConn
<1>12. CASE Expire \/ UNCHANGED vars
  <2>1. UNCHANGED <<seq, total, pub, soon, link, stored, pending, closed, restarts>>
    BY <1>12 DEF Expire, vars, server, client
  <2> QED
    BY <2>1 DEF Announced, Fresh, FirstConn, link
<1> QED
  BY <1>1, <1>2, <1>3, <1>4, <1>5, <1>6, <1>7, <1>8, <1>9, <1>10, <1>11, <1>12 DEF Next, Handler

\* What is coming keeps coming, until it is written.
LEMMA ComingPublishNumber ==
    ASSUME Shape, NEW t \in Threads, PublishNumber(t), NEW n, Coming(n)
    PROVE  Coming(n)'
<1>1. queue' = queue /\ soon' = soon /\ conn' = conn
  BY NumberFacts DEF link
<1> QED
  BY <1>1, NumberFacts DEF Coming

LEMMA ComingPublishSchedule ==
    ASSUME Shape, Announced, NEW t \in Threads, PublishSchedule(t), conn # 0,
           NEW n, topicOf[n] \in Scope, Coming(n)
    PROVE  Coming(n)'
<1>1. queue' = queue /\ conn' = conn
  BY DEF PublishSchedule, link
<1>2. CASE \E i \in 1..Len(queue) : queue[i].kind = "event" /\ queue[i].n = n
  BY <1>1, <1>2 DEF Coming
<1>3. CASE \E i \in 1..Len(soon) : soon[i].sub = conn /\ soon[i].evt.n = n
  BY <1>1, <1>3, ScheduleFacts DEF Coming
<1>4. ASSUME NEW s \in Threads, pub[s].evt # NoEvent, pub[s].sub = conn, pub[s].evt.n = n PROVE Coming(n)'
  <2>1. CASE s = t
    <3>1. pub[t].evt.topic \in Scope /\ pub[t].sub # 0
      BY <1>4, <2>1 DEF Announced, Named
    <3>2. \E i \in 1..Len(soon') : soon'[i] = pub[t]
      BY <3>1, ScheduleFacts
    <3> QED
      BY <1>1, <3>2, <1>4, <2>1 DEF Coming
  <2>2. CASE s # t
    BY <1>1, <1>4, <2>2, ScheduleFacts DEF Coming
  <2> QED
    BY <2>1, <2>2
<1> QED
  BY <1>2, <1>3, <1>4 DEF Coming

LEMMA ComingRunSoon ==
    ASSUME Shape, RunSoon, NEW n, Coming(n),
           (queue' = queue /\ soon[1].sub # conn) \/ queue' = Append(queue, soon[1].evt)
    PROVE  Coming(n)'
<1>1. conn' = conn /\ pub' = pub /\ 1 \in 1..Len(soon) /\ soon[1].evt.kind = "event"
  BY RunSoonFrames DEF Shape, EventsNumbered
<1>2. \A i \in 1..Len(soon) : i = 1 \/ \E j \in 1..Len(soon') : soon'[j] = soon[i]
  BY SoonLeft
<1>3. CASE queue' = queue /\ soon[1].sub # conn
  BY <1>1, <1>2, <1>3 DEF Coming
<1>4. CASE queue' = Append(queue, soon[1].evt)
  <2>1. /\ \A i \in 1..Len(queue) : i \in 1..Len(queue') /\ queue'[i] = queue[i]
        /\ \E i \in 1..Len(queue') : queue'[i] = soon[1].evt
    BY <1>4, AppendedToQueue
  <2>2. CASE \E i \in 1..Len(queue) : queue[i].kind = "event" /\ queue[i].n = n
    BY <2>1, <2>2 DEF Coming
  <2>3. CASE \E i \in 1..Len(soon) : soon[i].sub = conn /\ soon[i].evt.n = n
    <3>1. PICK i \in 1..Len(soon) : soon[i].sub = conn /\ soon[i].evt.n = n
      BY <2>3
    <3>2. CASE i = 1
      BY <1>1, <2>1, <3>1, <3>2 DEF Coming
    <3>3. CASE \E j \in 1..Len(soon') : soon'[j] = soon[i]
      BY <1>1, <3>1, <3>3 DEF Coming
    <3> QED
      BY <1>2, <3>2, <3>3
  <2>4. CASE \E t \in Threads : pub[t].evt # NoEvent /\ pub[t].sub = conn /\ pub[t].evt.n = n
    BY <1>1, <2>4 DEF Coming
  <2> QED
    BY <2>2, <2>3, <2>4 DEF Coming
<1> QED
  BY <1>3, <1>4

LEMMA ComingSendLive ==
    ASSUME Shape, SendLive, NEW n, Coming(n), queue[1].kind = "event" => n # queue[1].n
    PROVE  Coming(n)'
<1>1. UNCHANGED <<pub, soon, conn>>
  BY DEF SendLive, server
<1>2. \A i \in 1..Len(queue) : i = 1 \/ \E j \in 1..Len(queue') : queue'[j] = queue[i]
  BY QueueLeft
<1>3. CASE \E i \in 1..Len(queue) : queue[i].kind = "event" /\ queue[i].n = n
  BY <1>2, <1>3 DEF Coming
<1>4. CASE ~(\E i \in 1..Len(queue) : queue[i].kind = "event" /\ queue[i].n = n)
  BY <1>1, <1>4 DEF Coming
<1> QED
  BY <1>3, <1>4

\* A stream of one conversation.
OneConversation == \E c \in Conversations : Scope = {c}

LEMMA ToldStep ==
    ASSUME OneConversation, Shape, Announced, Told, [Next]_vars, FirstConn', ~closed'
    PROVE  Told'
<1>0. total \in Nat /\ \A i \in 1..Len(queue) : i \in Nat
  BY Places
<1>1. ASSUME NEW t \in Threads, PublishNumber(t) PROVE Told'
  <2>1. FirstConn /\ ~closed /\ UNCHANGED <<queue, soon, known, conn>>
    BY <1>1, NumberFacts DEF FirstConn, link, client
  <2>2. CASE \E i \in 1..Len(queue) : queue[i].kind = "gap"
    BY <2>1, <2>2 DEF Told
  <2>3. CASE \A n \in 1..total : topicOf[n] \in Scope => n \in known \/ Coming(n)
    <3> SUFFICES ASSUME NEW n \in 1..(total + 1), topicOf'[n] \in Scope, n \notin known PROVE Coming(n)'
      BY <1>1, <2>1, NumberFacts DEF Told
    <3>1. CASE n \in 1..total
      <4>1. Coming(n)
        BY <1>1, <2>3, <3>1, NumberFacts
      <4> QED
        BY <1>1, <4>1, ComingPublishNumber
    <3>2. CASE n = total + 1
      <4>1. pub'[t].evt # NoEvent /\ pub'[t].evt.n = n /\ pub'[t].sub = conn'
        BY <1>1, <2>1, <3>2, NumberFacts DEF Announced, Fresh, FirstConn
      <4> QED
        BY <4>1 DEF Coming
    <3> QED
      BY <1>0, <3>1, <3>2
  <2> QED
    BY <2>1, <2>2, <2>3 DEF Told
<1>2. ASSUME NEW t \in Threads, PublishSchedule(t) PROVE Told'
  <2>1. FirstConn /\ ~closed /\ conn' = conn /\ conn = 1 /\ UNCHANGED <<queue, known, total, topicOf>>
    BY <1>2 DEF PublishSchedule, FirstConn, link, client
  <2>2. ASSUME NEW n \in 1..total, topicOf[n] \in Scope, Coming(n) PROVE Coming(n)'
    BY <1>2, <2>1, <2>2, ComingPublishSchedule
  <2> QED
    BY <2>1, <2>2 DEF Told
<1>3. CASE RunSoon
  <2>1. FirstConn /\ ~closed /\ UNCHANGED <<known, total, topicOf, pub, conn>> /\ conn = 1 /\ phase # "off"
    BY <1>3, RunSoonFrames DEF FirstConn, client
  <2>2. \A i \in 1..Len(queue) : HasGap(queue[i])
    <3>1. \A i \in 1..Len(queue) : queue[i].kind # "stop" /\ queue[i].topic \in Scope
      BY <2>1 DEF Announced, Named, Fresh
    <3>2. Scope \subseteq Keyed
      BY BusAssumption DEF OneConversation
    <3> QED
      BY <3>1, <3>2 DEF HasGap
  <2>3. CASE queue' = queue /\ soon[1].sub # 1
    <3>1. ASSUME NEW n, Coming(n) PROVE Coming(n)'
      BY <1>3, <2>1, <2>3, <3>1, ComingRunSoon
    <3> QED
      BY <2>1, <2>3, <3>1 DEF Told
  <2>4. CASE queue' = Append(queue, soon[1].evt)
    <3>1. \A i \in 1..Len(queue) : i \in 1..Len(queue') /\ queue'[i] = queue[i]
      BY <1>3, <2>4, AppendedToQueue
    <3>2. ASSUME NEW n, Coming(n) PROVE Coming(n)'
      BY <1>3, <2>4, <3>2, ComingRunSoon
    <3> QED
      BY <2>1, <3>1, <3>2 DEF Told
  <2>5. CASE \E i \in 1..Len(queue') : queue'[i].kind = "gap"
    BY <2>5 DEF Told
  <2> QED
    BY <1>3, <2>1, <2>2, <2>3, <2>4, <2>5, RunSoonFrames
<1>4. CASE Subscribe
  <2>1. conn' = conn + 1 /\ conn \in Nat /\ conn' = 1 /\ total' = total
    BY <1>4 DEF Subscribe, FirstConn, Shape, TypeOK
  <2>2. stored = 0
    BY <2>1 DEF Announced, Fresh
  <2>3. known' = 1..total'
    BY <1>4, <2>1, <2>2 DEF Subscribe
  <2> QED
    BY <2>3 DEF Told
<1>5. CASE SendReplay
  <2>1. FirstConn /\ toSend # <<>>
    BY <1>5 DEF SendReplay, FirstConn
  <2> QED
    BY <2>1 DEF Announced, Fresh
<1>6. CASE SendLive
  <2> DEFINE h == queue[1]
  <2>1. /\ 1 \in 1..Len(queue) /\ h = Head(queue) /\ h \in Frame
        /\ \A i \in 1..Len(queue') : i + 1 \in 1..Len(queue) /\ queue'[i] = queue[i + 1]
    BY <1>6, SendLiveFrames
  <2>2. \A i \in 1..Len(queue) : i = 1 \/ \E j \in 1..Len(queue') : queue'[j] = queue[i]
    BY <1>6, QueueLeft
  <2>3. FirstConn /\ ~closed /\ UNCHANGED <<pub, soon, total, topicOf, conn>>
    BY <1>6 DEF SendLive, FirstConn, server
  <2>4. h.kind # "stop" /\ h.topic \in Scope /\ h.id > watermark
    BY <2>1, <2>3 DEF Announced, Named, Fresh
  <2>5. Deliver(h)
    <3>1. ~(h.id <= watermark)
      <4>1. h.id \in Nat /\ watermark \in Nat
        BY <2>1, Places DEF Frame
      <4> HIDE DEF h
      <4> QED
        BY <4>1, <2>4
    <3>2. h # Stop
      BY <2>4 DEF Stop
    <3> QED
      BY <1>6, <2>1, <3>1, <3>2 DEF SendLive
  <2>6. CASE h.kind = "event"
    <3>1. known' = known \cup {h.n}
      BY <2>5, <2>6 DEF Deliver
    <3>2. CASE \E i \in 1..Len(queue) : queue[i].kind = "gap"
      <4>1. \E i \in 1..Len(queue') : queue'[i].kind = "gap"
        BY <2>2, <2>6, <3>2
      <4> QED
        BY <4>1 DEF Told
    <3>3. CASE \A n \in 1..total : topicOf[n] \in Scope => n \in known \/ Coming(n)
      <4>1. ASSUME NEW n, Coming(n), n # h.n PROVE Coming(n)'
        BY <1>6, <4>1, ComingSendLive
      <4> HIDE DEF h
      <4> QED
        BY <2>3, <3>1, <3>3, <4>1 DEF Told
    <3> QED
      BY <2>3, <3>2, <3>3 DEF Told
  <2>7. CASE h.kind = "gap"
    <3>1. h.topic \in Conversations
      BY <2>4 DEF OneConversation
    <3>2. known' = known \cup {n \in 1..total : topicOf[n] = h.topic}
      BY <2>5, <2>7, <3>1 DEF Deliver
    <3>3. \A n \in 1..total : topicOf[n] \in Scope => topicOf[n] = h.topic
      BY <2>4 DEF OneConversation
    <3> HIDE DEF h
    <3> QED
      BY <2>3, <3>2, <3>3 DEF Told
  <2>8. h.kind = "event" \/ h.kind = "gap"
    BY <2>1, <2>4 DEF Frame
  <2> QED
    BY <2>6, <2>7, <2>8
<1>7. CASE PlanReplay \/ GoLive \/ Expire \/ FlushPending \/ UNCHANGED vars
  <2>1. FirstConn /\ ~closed /\ UNCHANGED <<queue, soon, pub, known, total, topicOf, conn>>
    BY <1>7 DEF PlanReplay, GoLive, Expire, FlushPending, vars, server, link, client, FirstConn
  <2> QED
    BY <2>1 DEF Told, Coming
<1>8. CASE Disconnect \/ Restart
  BY <1>8 DEF Disconnect, Restart, FirstConn
<1>9. CASE CloseAll
  BY <1>9 DEF CloseAll
<1> QED
  BY <1>1, <1>2, <1>3, <1>4, <1>5, <1>6, <1>7, <1>8, <1>9 DEF Next, Handler

LEMMA AnnouncedInit == Init => Announced /\ Told
<1> SUFFICES ASSUME Init PROVE Announced /\ Told
  OBVIOUS
<1>1. /\ conn = 0 /\ conn <= conn /\ phase = "off" /\ stored = 0 /\ pending = 0 /\ seq = total
      /\ Len(soon) = 0 /\ \A t \in Threads : pub[t].evt = NoEvent /\ pub[t].sub = 0
  BY DEF Init
<1> QED
  BY <1>1 DEF Announced, Named, Fresh, FirstConn, Told

LEMMA BusInvAlways == Spec => [](Shape /\ Order /\ Announced)
<1>1. Init => Shape /\ Order /\ Announced
  BY ShapeInit, OrderInit, AnnouncedInit
<1>2. Shape /\ Order /\ Announced /\ [Next]_vars => (Shape /\ Order /\ Announced)'
  BY ShapeStep, OrderStep, NamedStep, FreshStep DEF Order, Announced
<1> QED
  BY <1>1, <1>2, PTL DEF Spec

\* EventBus.subscribe, publish, replay and SSEHandler.handle: one connection writes an
\* event at most once, whatever threads publish while it replays, overflows or expires.
THEOREM OncePerConnectionAlways == Spec => []OncePerConnection
<1>1. Shape /\ Order => OncePerConnection
  <2> SUFFICES ASSUME Shape, Order, NEW a \in DOMAIN delivered, NEW b \in DOMAIN delivered,
                      delivered[a] = delivered[b]
               PROVE  a = b
    BY DEF OncePerConnection, IsInjective
  <2>1. a \in 1..Len(delivered) /\ b \in 1..Len(delivered)
    BY DEF Shape, TypeOK
  <2>2. ~(a < b) /\ ~(b < a)
    BY <2>1 DEF Order, Seam, Follows
  <2> QED
    BY <2>1, <2>2
<1> QED
  BY <1>1, BusInvAlways, PTL

\* The seam between replay and live queue: what one thread publishes reaches a connection
\* in its order (EventBus.publish, SSEHandler._replay_plan).
THEOREM DeliveredInOrderAlways ==
    ASSUME Lone
    PROVE  Spec => []DeliveredInOrder
<1>1. Shape /\ Order => DeliveredInOrder
  BY DEF Order, Seam, Follows, DeliveredInOrder
<1> QED
  BY <1>1, BusInvAlways, PTL

\* _put_drop_oldest: on the stream of one conversation no connection writes an event twice,
\* and a client that stays connected is told of everything its full queue lost.
THEOREM PressureIsToldAlways ==
    ASSUME OneConversation
    PROVE  Spec => []PressureIsTold
<1>1. Init => Told
  BY AnnouncedInit
<1>2. Shape /\ Announced /\ Told /\ [Next]_vars => Told'
  <2> SUFFICES ASSUME Shape, Announced, Told, [Next]_vars, ~Told' PROVE FALSE
    OBVIOUS
  <2>1. FirstConn' /\ ~closed'
    BY DEF Told
  <2> QED
    BY <2>1, ToldStep
<1>3. Told => OverflowAnnounced
  <2> SUFFICES ASSUME Told, conn = 1, restarts = 0, Quiet, ~closed, NEW n \in 1..total, topicOf[n] \in Scope
               PROVE  n \in known
    BY DEF OverflowAnnounced, NoSilentLoss
  <2>1. FirstConn /\ Len(queue) = 0 /\ Len(soon) = 0 /\ \A t \in Threads : pub[t].evt = NoEvent
    BY DEF Quiet, FirstConn
  <2> QED
    BY <2>1 DEF Told, Coming
<1>4. Spec => []OncePerConnection
  BY OncePerConnectionAlways
<1> QED
  BY <1>1, <1>2, <1>3, <1>4, BusInvAlways, PTL DEF Spec, PressureIsTold

-----------------------------------------------------------------------------
(* Reconnecting: one publisher, a queue that does not overflow, no restart,    *)
(* and a ring that forgets nothing, or a client that comes back once to the    *)
(* stream of the one conversation there is.                                    *)

Remembering == MaxEvents <= BacklogMax

SingleTopic == \E c \in Conversations : Topics = {c} /\ Scope = {c}

Reconnecting == /\ Lone /\ ~Expiry /\ MaxEvents <= QueueMax /\ MaxRestarts = 0
                /\ Remembering \/ (MaxConns <= 2 /\ SingleTopic)

\* The client knows the events of its scope up to the k-th.
Caught(k) == \A n \in 1..total : n <= k /\ topicOf[n] \in Scope => n \in known

\* The ring holds the latest events, and the Lost first ones no more.
Lost == seq - Len(backlog)
Ring ==
    /\ restarts = 0 /\ seq = total /\ horizon = 0
    /\ Len(backlog) <= seq /\ (Len(backlog) = seq \/ Len(backlog) = BacklogMax)
    /\ \A i \in 1..Len(backlog) : backlog[i].id = Lost + i /\ backlog[i].topic = topicOf[backlog[i].n]

\* The queue holds events only, at most as many as were published.
Room == \A i \in 1..Len(queue) : queue[i].kind = "event" /\ queue[i].n >= i

\* A cursor that a further connection may name stands behind nothing unknown.
Cursor ==
    /\ stored = 0 => pending = 0
    /\ phase = "connected" /\ stored = 0 => 1..watermark \subseteq known
    /\ Remembering \/ conn < 2 \/ phase = "connected" =>
         stored <= seq /\ pending <= seq /\ Caught(stored) /\ Caught(pending)

\* What was published after the watermark is on its way.
Supply ==
    phase # "off" =>
        /\ subscribed
        /\ \A n \in 1..total : topicOf[n] \in Scope /\ n > watermark => n \in known \/ Coming(n)

GapAhead == \E i \in 1..Len(toSend) : toSend[i].kind = "gap"

\* What was published up to the watermark is known, or about to be replayed or announced.
Seen ==
    /\ phase = "live" => Caught(watermark)
    /\ phase = "replay" => GapAhead \/
         \A n \in 1..total : n <= watermark /\ topicOf[n] \in Scope
            => n \in known \/ \E i \in 1..Len(toSend) : toSend[i].kind = "event" /\ toSend[i].n = n
    /\ GapAhead => ~Remembering /\ conn = 2
    /\ \A i \in 1..Len(toSend) : toSend[i].kind # "stop" /\ toSend[i].topic \in Scope

Steady == Shape /\ Order /\ Announced /\ Ring
Stream == ~closed => Room /\ Cursor /\ Supply /\ Seen

LEMMA MinIs ==
    ASSUME NEW S \in SUBSET Nat, NEW m \in S, \A x \in S : m <= x
    PROVE  Min(S) = m
<1>1. \E x \in S : \A y \in S : x =< y
  OBVIOUS
<1>2. Min(S) \in S /\ \A y \in S : Min(S) =< y
  BY <1>1 DEF Min
<1>3. Min(S) =< m /\ m =< Min(S) /\ Min(S) \in Nat /\ m \in Nat
  BY <1>2
<1> QED
  BY ONLY <1>3

LEMMA RingPublishNumber ==
    ASSUME Shape, Ring, NEW t \in Threads, PublishNumber(t)
    PROVE  Ring'
<1>1. PICK topic \in Topics : /\ backlog' = Remember(backlog, Event(seq + 1, total + 1, topic))
                              /\ topicOf' = Append(topicOf, topic)
  BY DEF PublishNumber
<1> DEFINE e == Event(seq + 1, total + 1, topic)
           all == Append(backlog, e)
<1>2. seq \in Nat /\ total \in Nat /\ seq = total /\ seq' = seq + 1 /\ total' = total + 1
  BY Places DEF PublishNumber, Ring
<1>3. e \in Frame /\ e.id = seq + 1 /\ e.n = seq + 1 /\ e.topic = topic
  <2>1. seq + 1 \in 0..MaxEvents /\ total + 1 \in 0..MaxEvents
    BY <1>2, BusAssumption DEF PublishNumber, Shape, TypeOK
  <2> QED
    BY <1>2, <2>1, FrameFacts DEF Event
<1>4. topicOf'[seq + 1] = topic /\ \A n \in 1..seq : topicOf'[n] = topicOf[n]
  BY <1>1, <1>2 DEF Shape, TypeOK
<1>5. backlog \in Seq(Frame) /\ Len(backlog) <= BacklogMax /\ Len(backlog) \in Nat
  BY DEF Shape, TypeOK
<1> HIDE DEF e
<1>6. /\ all \in Seq(Frame) /\ Len(all) = Len(backlog) + 1
      /\ \A i \in 1..Len(backlog) : all[i] = backlog[i]
      /\ all[Len(backlog) + 1] = e
  BY <1>3, <1>5, AppendElements
<1> HIDE DEF all
<1>7. \A i \in 1..Len(all) : all[i].id = Lost + i /\ all[i].topic = topicOf'[all[i].n]
  <2> TAKE i \in 1..Len(all)
  <2>1. CASE i \in 1..Len(backlog)
    <3>1. backlog[i].n \in 1..seq
      BY <1>2, <2>1 DEF Shape, EventsNumbered, Numbered
    <3> QED
      BY <1>4, <1>6, <2>1, <3>1 DEF Ring
  <2>2. CASE i = Len(backlog) + 1
    BY <1>2, <1>3, <1>4, <1>5, <1>6, <2>2 DEF Lost
  <2> QED
    BY <1>5, <1>6, <2>1, <2>2
<1>8. backlog' = IF Len(all) > BacklogMax THEN Tail(all) ELSE all
  BY <1>1 DEF Remember, all, e
<1>9. UNCHANGED <<restarts, horizon>>
  BY DEF PublishNumber
<1>10. CASE Len(all) > BacklogMax
  <2>1. backlog' = Tail(all) /\ all # <<>>
    BY <1>5, <1>6, <1>8, <1>10
  <2>2. /\ Len(backlog') = Len(backlog) /\ \A i \in 1..Len(backlog') : i + 1 \in 1..Len(all) /\ backlog'[i] = all[i + 1]
    BY <1>5, <1>6, <2>1, TailElements
  <2>3. Len(backlog) = BacklogMax /\ Len(backlog) <= seq
    BY <1>5, <1>6, <1>10, BusAssumption DEF Ring
  <2>4. Lost' = Lost + 1 /\ Lost \in Int
    BY <1>2, <1>5, <2>2 DEF Lost
  <2>5. \A i \in 1..Len(backlog') : backlog'[i].id = Lost' + i /\ backlog'[i].topic = topicOf'[backlog'[i].n]
    <3> TAKE i \in 1..Len(backlog')
    <3>1. i + 1 \in 1..Len(all) /\ backlog'[i] = all[i + 1] /\ Lost + (i + 1) = Lost' + i
      BY <2>2, <2>4
    <3> QED
      BY <1>7, <3>1
  <2> QED
    BY <1>2, <1>9, <2>2, <2>3, <2>5 DEF Ring
<1>11. CASE ~(Len(all) > BacklogMax)
  <2>1. backlog' = all
    BY <1>8, <1>11
  <2>2. Len(backlog) = seq
    BY <1>5, <1>6, <1>11, BusAssumption DEF Ring
  <2>3. Lost' = Lost
    BY <1>2, <1>5, <1>6, <2>1 DEF Lost
  <2> QED
    BY <1>2, <1>6, <1>7, <1>9, <2>1, <2>2, <2>3 DEF Ring
<1> QED
  BY <1>10, <1>11

LEMMA RingStep == ASSUME Reconnecting, Shape, Ring, [Next]_vars PROVE Ring'
<1>1. CASE UNCHANGED <<seq, total, horizon, backlog, topicOf, restarts>>
  BY <1>1 DEF Ring, Lost
<1>2. ~Restart /\ ~Expire
  BY DEF Restart, Expire, Reconnecting, Shape, TypeOK
<1>3. CASE \E t \in Threads : PublishNumber(t)
  BY <1>3, RingPublishNumber
<1>4. ASSUME NEW t \in Threads, PublishSchedule(t) PROVE Ring'
  BY <1>1, <1>4 DEF PublishSchedule
<1>5. CASE RunSoon \/ Subscribe \/ Handler \/ Disconnect \/ FlushPending \/ CloseAll \/ UNCHANGED vars
  BY <1>1, <1>5 DEF RunSoon, Subscribe, Handler, PlanReplay, SendReplay, GoLive, SendLive, Disconnect,
                    FlushPending, CloseAll, vars, server
<1> QED
  BY <1>2, <1>3, <1>4, <1>5 DEF Next

\* min_replayable_event_id is the oldest event_id in the ring.
LEMMA OldestReplayable ==
    ASSUME Shape, Ring
    PROVE  MinReplayable = IF backlog = <<>> THEN 0 ELSE Lost + 1
<1> DEFINE S == {e.id : e \in {f \in Range(backlog) : Live(f)}}
<1>1. backlog \in Seq(Frame) /\ Len(backlog) \in Nat /\ seq \in Nat /\ Len(backlog) <= seq /\ Lost \in Nat
  BY Places DEF Shape, TypeOK, Ring, Lost
<1>2. Range(backlog) = {backlog[i] : i \in 1..Len(backlog)}
  BY <1>1 DEF Range
<1>3. \A i \in 1..Len(backlog) : Live(backlog[i]) /\ backlog[i].id = Lost + i
  BY <1>1 DEF Ring, Live
<1>4. S = {Lost + i : i \in 1..Len(backlog)}
  BY <1>2, <1>3
<1> HIDE DEF S
<1>5. CASE backlog = <<>>
  <2>1. Len(backlog) = 0
    BY <1>5
  <2>2. S = {}
    BY ONLY <1>4, <2>1
  <2> QED
    BY <2>2, <1>5 DEF MinReplayable, S
<1>6. CASE backlog # <<>>
  <2>1. 1 \in 1..Len(backlog)
    BY <1>1, <1>6
  <2>2. S \in SUBSET Nat /\ Lost + 1 \in S /\ \A x \in S : Lost + 1 <= x
    <3>1. Lost \in Nat /\ Len(backlog) \in Nat
      BY <1>1
    <3>2. \A x \in S : x \in Nat /\ Lost + 1 <= x
      BY ONLY <3>1, <1>4
    <3>3. Lost + 1 \in S
      BY ONLY <3>1, <1>4, <2>1
    <3> QED
      BY <3>2, <3>3
  <2>3. S # {}
    BY <2>2
  <2>4. Min(S) = Lost + 1
    BY <2>2, MinIs
  <2> QED
    BY <2>3, <2>4, <1>6 DEF MinReplayable, S
<1> QED
  BY <1>5, <1>6

\* A replay holds every live entry of the scope after the named event.
LEMMA ReplayReaches ==
    ASSUME Shape, NEW last, NEW r \in InOrder(Replayed(last)), NEW e \in Replayed(last)
    PROVE  \E i \in 1..Len(r) : r[i] = e
<1> DEFINE S == Replayed(last)
<1>1. IsFiniteSet(S)
  <2>1. backlog \in Surjection(1..Len(backlog), Range(backlog))
    <3>1. backlog \in [1..Len(backlog) -> Range(backlog)]
      BY DEF Shape, TypeOK, Range
    <3>2. \A f \in Range(backlog) : \E i \in 1..Len(backlog) : backlog[i] = f
      BY DEF Shape, TypeOK, Range
    <3> QED
      BY <3>1, <3>2 DEF Surjection
  <2>2. IsFiniteSet(Range(backlog))
    BY <2>1, FS_Interval, FS_Surjection DEF Shape, TypeOK
  <2>3. S \in SUBSET Range(backlog)
    BY DEF Replayed
  <2> QED
    BY <2>2, <2>3, FS_Subset
<1>2. Cardinality(S) \in Nat
  BY <1>1, FS_CardinalityType
<1>3. r \in [1..Cardinality(S) -> S] /\ \A a, b \in DOMAIN r : a < b => r[a].id < r[b].id
  BY DEF InOrder
<1>4. \A f \in S : f.id \in Int
  <2>1. \A f \in Range(backlog) : f \in Frame
    BY DEF Shape, TypeOK, Range
  <2> QED
    BY <2>1 DEF Replayed, Frame
<1> HIDE DEF S
<1>5. r \in Injection(1..Cardinality(S), S)
  <2>1. \A a, b \in 1..Cardinality(S) : r[a] = r[b] => a = b
    <3> SUFFICES ASSUME NEW a \in 1..Cardinality(S), NEW b \in 1..Cardinality(S), r[a] = r[b], a # b
                 PROVE  FALSE
      OBVIOUS
    <3>1. a < b \/ b < a
      BY <1>2
    <3>2. r[a].id \in Int
      BY <1>3, <1>4
    <3> QED
      BY <1>3, <3>1, <3>2
  <2> QED
    BY <1>3, <2>1 DEF Injection, IsInjective
<1>6. Cardinality(1..Cardinality(S)) = Cardinality(S)
  BY <1>2, FS_Interval
<1>7. r \in Surjection(1..Cardinality(S), S)
  BY <1>1, <1>5, <1>6, FS_Injection
<1>8. e \in S
  BY DEF S
<1> QED
  BY <1>2, <1>3, <1>7, <1>8 DEF Surjection

\* A replay leaves out only what the ring has lost, and then announces it.
LEMMA PlanReaches ==
    ASSUME Reconnecting, Steady, stored > 0, ReplayPlan, Caught(stored), conn \in 1..MaxConns, conn # 1
    PROVE  /\ GapAhead' => ~Remembering /\ conn = 2
           /\ \A i \in 1..Len(toSend') : toSend'[i].kind # "stop" /\ toSend'[i].topic \in Scope
           /\ GapAhead' \/ \A n \in 1..total : n <= watermark' /\ topicOf[n] \in Scope
                 => n \in known \/ \E i \in 1..Len(toSend') : toSend'[i].kind = "event" /\ toSend'[i].n = n
<1>1. PICK r \in InOrder(Replayed(stored)) :
        /\ \E gap \in BacklogGap(stored, r) : toSend' = r \o gap
        /\ watermark' = IF r # <<>> /\ Last(r).id > watermark THEN Last(r).id ELSE watermark
  BY DEF ReplayPlan
<1>2. PICK gap \in BacklogGap(stored, r) : toSend' = r \o gap
  BY <1>1
<1>3. /\ r \in Seq(Frame)
      /\ \A i \in 1..Len(r) : r[i].kind = "event" /\ Numbered(r[i], seq, total - seq)
      /\ \A i, j \in 1..Len(r) : i < j => r[i].id < r[j].id
  BY ReplayFacts DEF Steady
<1>4. /\ seq \in Nat /\ total = seq /\ Lost \in Nat /\ Len(backlog) \in Nat /\ Lost = seq - Len(backlog)
      /\ seq <= MaxEvents /\ stored \in Nat /\ horizon = 0
      /\ Len(backlog) = seq \/ Len(backlog) = BacklogMax
  BY Places, BusAssumption DEF Steady, Ring, Shape, TypeOK, Lost
<1>5. \A i \in 1..Len(r) : r[i].topic \in Scope /\ r[i] \in Replayed(stored)
  <2>1. r \in [1..Cardinality(Replayed(stored)) -> Replayed(stored)]
    BY DEF InOrder
  <2>2. \A i \in 1..Len(r) : i \in DOMAIN r
    BY <1>3
  <2>3. \A i \in 1..Len(r) : r[i] \in Replayed(stored)
    BY <2>1, <2>2
  <2> QED
    BY <2>3 DEF Replayed
<1>6. \A n \in 1..seq : n > Lost /\ n > stored /\ topicOf[n] \in Scope =>
        \E i \in 1..Len(r) : r[i].kind = "event" /\ r[i].n = n /\ r[i].id = n
  <2> SUFFICES ASSUME NEW n \in 1..seq, n > Lost, n > stored, topicOf[n] \in Scope
               PROVE  \E i \in 1..Len(r) : r[i].kind = "event" /\ r[i].n = n /\ r[i].id = n
    OBVIOUS
  <2> DEFINE k == n - Lost
             e == backlog[k]
  <2>1. k \in 1..Len(backlog) /\ Lost + k = n
    BY <1>4
  <2> HIDE DEF k
  <2>2. e.kind = "event" /\ e.id = n /\ e.n = n /\ e \in Range(backlog) /\ e.topic = topicOf[n]
    <3>1. e.id = n /\ e.topic = topicOf[e.n]
      BY <2>1 DEF Steady, Ring
    <3>2. e.kind = "event" /\ Numbered(e, seq, total - seq)
      BY <2>1 DEF Steady, Shape, EventsNumbered
    <3>3. total - seq = 0 /\ n + 0 = n
      BY <1>4
    <3>4. e.n = e.id + (total - seq)
      BY <3>2 DEF Numbered
    <3>5. e \in Range(backlog)
      BY <2>1 DEF Steady, Shape, TypeOK, Range
    <3>6. e.n = n
      BY ONLY <3>1, <3>3, <3>4
    <3> QED
      BY ONLY <3>1, <3>2, <3>5, <3>6
  <2>3. e \in Replayed(stored)
    BY <1>4, <2>2 DEF Replayed, Live
  <2>4. \E i \in 1..Len(r) : r[i] = e
    BY <2>3, ReplayReaches DEF Steady
  <2> QED
    BY <2>2, <2>4
<1>7. CASE gap = <<>>
  <2>1. toSend' = r
    BY <1>2, <1>3, <1>7
  <2>2. ~GapAhead'
    BY <1>3, <2>1 DEF GapAhead
  <2>3. Lost <= stored
    <3> SUFFICES ASSUME Lost > stored PROVE FALSE
      BY <1>4
    <3>1. Len(backlog) = BacklogMax /\ Len(backlog) > 0 /\ Lost + Len(backlog) = seq /\ seq > stored /\ seq > Lost
      BY <1>4, BusAssumption
    <3>2. ~Remembering
      BY <3>1, <1>4, BusAssumption DEF Remembering
    <3>3. PICK c \in Conversations : Topics = {c} /\ Scope = {c}
      BY <3>2 DEF Reconnecting, SingleTopic
    <3>4. seq \in 1..seq /\ topicOf[seq] = c
      BY <1>4, <3>1, <3>3 DEF Steady, Shape, TypeOK
    <3>5. PICK i \in 1..Len(r) : r[i].id = seq
      BY <1>6, <3>1, <3>3, <3>4
    <3>6. \A j \in 1..Len(r) : r[j].id <= seq /\ r[j].topic = c
      BY <1>3, <1>5, <1>4, <3>3 DEF Numbered
    <3>7. r[i] \in LastNamed(r)
      BY <1>3, <3>3, <3>5, <3>6 DEF LastNamed, Range
    <3>8. ~(MinReplayable <= stored + 1)
      <4>1. MinReplayable = Lost + 1
        BY OldestReplayable, <3>1 DEF Steady
      <4> QED
        BY <4>1, <1>4
    <3> QED
      BY <1>7, <3>7, <3>8 DEF BacklogGap
  <2>4. ASSUME NEW n \in 1..total, n <= watermark', topicOf[n] \in Scope, n \notin known
        PROVE  \E i \in 1..Len(toSend') : toSend'[i].kind = "event" /\ toSend'[i].n = n
    <3>1. n > stored
      BY <1>4, <2>4 DEF Caught
    <3>2. n \in 1..seq /\ n > Lost
      BY <1>4, <2>3, <3>1
    <3> QED
      BY <1>6, <2>1, <2>4, <3>1, <3>2
  <2> QED
    BY <1>3, <1>5, <2>1, <2>2, <2>4
<1>8. CASE gap # <<>>
  <2>1. /\ ~(MinReplayable <= stored + 1)
        /\ \E e \in LastNamed(r) : gap = << [Gap(e) EXCEPT !.id = Last(r).id] >>
    BY <1>8 DEF BacklogGap
  <2>2. PICK e \in LastNamed(r) : gap = << [Gap(e) EXCEPT !.id = Last(r).id] >>
    BY <2>1
  <2>3. e \in Frame /\ e.topic \in Scope
    BY <1>3, <1>5 DEF LastNamed, Range
  <2> DEFINE g == [Gap(e) EXCEPT !.id = Last(r).id]
  <2>4. g.kind = "gap" /\ g.topic \in Scope
    BY <2>3 DEF Gap, Frame
  <2> HIDE DEF g
  <2>5. gap = <<g>>
    BY <2>2 DEF g
  <2>6. /\ Len(toSend') = Len(r) + 1 /\ Len(r) \in Nat /\ toSend'[Len(r) + 1] = g
        /\ \A i \in 1..Len(r) : toSend'[i] = r[i]
    BY <1>2, <1>3, <2>5
  <2>7. /\ Len(r) + 1 \in 1..Len(toSend')
        /\ \A i \in 1..Len(toSend') : i \in 1..Len(r) \/ i = Len(r) + 1
    BY <2>6
  <2>8. GapAhead'
    BY <2>4, <2>6, <2>7 DEF GapAhead
  <2>9. ~Remembering
    <3>1. CASE backlog = <<>>
      BY <2>1, <3>1, <1>4, OldestReplayable DEF Steady
    <3>2. CASE backlog # <<>>
      <4>1. Lost + 1 > stored + 1
        BY <2>1, <3>2, <1>4, OldestReplayable DEF Steady
      <4> QED
        BY <4>1, <1>4, BusAssumption DEF Remembering
    <3> QED
      BY <3>1, <3>2
  <2>10. conn = 2
    BY <2>9, BusAssumption DEF Reconnecting
  <2>11. \A i \in 1..Len(toSend') : toSend'[i].kind # "stop" /\ toSend'[i].topic \in Scope
    BY <1>3, <1>5, <2>4, <2>6, <2>7
  <2> QED
    BY <2>8, <2>9, <2>10, <2>11
<1> QED
  BY <1>7, <1>8


\* Without a restart an event's event_id is its place in the history.
LEMMA SameNumber ==
    ASSUME Steady, NEW f, f.kind = "event", Numbered(f, seq, total - seq)
    PROVE  f.id = f.n /\ f.n \in 1..total
<1>1. f.id \in 1..seq /\ f.n = f.id + (total - seq)
  BY DEF Numbered
<1>2. total = seq /\ total \in Nat
  BY Places DEF Steady, Ring
<1> QED
  BY ONLY <1>1, <1>2

\* The queue has room for every event that is published.
LEMMA RoomForOne ==
    ASSUME Reconnecting, Steady, Room, RunSoon, queue' # queue \/ (soon[1].sub = conn /\ phase # "off")
    PROVE  /\ queue' = Append(queue, soon[1].evt)
           /\ Len(queue) + 1 <= soon[1].evt.n
           /\ soon[1].evt.kind = "event"
<1>1. /\ Head(soon) = soon[1] /\ 1 \in 1..Len(soon)
  BY SlotTypes, TailElements DEF RunSoon, Steady, Shape
<1>2. queue' = PutDropOldest(queue, soon[1].evt)
  BY <1>1 DEF RunSoon
<1>3. /\ Len(queue) \in Nat /\ soon[1].evt.kind = "event" /\ soon[1].evt.n \in 1..total
      /\ total <= MaxEvents /\ MaxEvents <= QueueMax /\ QueueMax \in Nat /\ MaxEvents \in Nat /\ total \in Nat
  <2>1. soon[1].evt.kind = "event" /\ soon[1].evt.n \in 1..total
    BY <1>1, Places DEF Steady, Shape, EventsNumbered
  <2>2. Len(queue) \in Nat /\ total <= MaxEvents /\ total \in Nat
    BY BusAssumption DEF Steady, Shape, TypeOK
  <2> QED
    BY <2>1, <2>2, BusAssumption DEF Reconnecting
<1>4. CASE Len(queue) = 0
  <2>1. Len(queue) + 1 <= soon[1].evt.n /\ ~(Len(queue) >= QueueMax)
    BY <1>3, <1>4, BusAssumption
  <2> QED
    BY <1>2, <1>3, <2>1 DEF PutDropOldest
<1>5. CASE Len(queue) # 0
  <2> DEFINE l == Len(queue)
             last == queue[l]
  <2>1. l \in 1..l
    BY <1>3, <1>5
  <2>2. last.kind = "event" /\ last.n >= l /\ last.n \in 1..total
    BY <2>1, Places DEF Room, Steady
  <2>3. last.n < soon[1].evt.n
    BY <1>1, <2>1, <2>2 DEF Steady, Order, InLine, Follows, Reconnecting
  <2>4. l + 1 <= soon[1].evt.n /\ ~(l >= QueueMax)
    <3> HIDE DEF last
    <3>1. l \in Nat /\ l <= last.n /\ last.n \in 1..total /\ soon[1].evt.n \in 1..total
          /\ total <= MaxEvents /\ MaxEvents <= QueueMax
      BY <1>3, <2>2
    <3> HIDE DEF l
    <3> QED
      BY <1>3, <2>3, <3>1
  <2> QED
    BY <1>2, <1>3, <2>4 DEF PutDropOldest
<1> QED
  BY <1>4, <1>5

LEMMA RoomStep == ASSUME Reconnecting, Steady, Room, ~closed', [Next]_vars PROVE Room'
<1>1. CASE UNCHANGED queue
  BY <1>1 DEF Room
<1>2. CASE queue' = <<>>
  BY <1>2 DEF Room
<1>3. CASE RunSoon
  <2>1. CASE queue' # queue
    <3>1. /\ queue' = Append(queue, soon[1].evt) /\ Len(queue) + 1 <= soon[1].evt.n
          /\ soon[1].evt.kind = "event"
      BY <1>3, <2>1, RoomForOne
    <3>2. \A i \in 1..Len(queue') : (i \in 1..Len(queue) /\ queue'[i] = queue[i])
                                    \/ (i = Len(queue) + 1 /\ queue'[i] = soon[1].evt)
      BY <1>3, <3>1, AppendedToQueue DEF Steady
    <3>3. \A i \in 1..Len(queue') : queue'[i].kind = "event" /\ queue'[i].n >= i
      <4> TAKE i \in 1..Len(queue')
      <4>1. CASE i \in 1..Len(queue) /\ queue'[i] = queue[i]
        BY <4>1 DEF Room
      <4>2. CASE i = Len(queue) + 1 /\ queue'[i] = soon[1].evt
        BY <3>1, <4>2
      <4> QED
        BY <3>2, <4>1, <4>2
    <3> QED
      BY <3>3 DEF Room
  <2> QED
    BY <1>1, <2>1
<1>4. CASE SendLive
  <2>1. \A i \in 1..Len(queue') : i + 1 \in 1..Len(queue) /\ queue'[i] = queue[i + 1]
    BY <1>4, SendLiveFrames DEF Steady
  <2>2. \A i \in 1..Len(queue') : queue'[i].kind = "event" /\ queue'[i].n >= i
    <3> TAKE i \in 1..Len(queue')
    <3>1. i + 1 \in 1..Len(queue) /\ queue'[i] = queue[i + 1]
      BY <2>1
    <3>2. queue[i + 1].kind = "event" /\ queue[i + 1].n >= i + 1 /\ queue[i + 1].n \in 1..total
      BY <3>1, Places DEF Room, Steady
    <3>3. queue[i + 1].n >= i
      BY ONLY <3>2, i \in 1..Len(queue')
    <3> QED
      BY <3>1, <3>2, <3>3
  <2> QED
    BY <2>2 DEF Room
<1>5. ASSUME NEW t \in Threads, PublishNumber(t) \/ PublishSchedule(t) PROVE UNCHANGED queue
  BY <1>5 DEF PublishNumber, PublishSchedule, link
<1>6. CASE Expire \/ PlanReplay \/ SendReplay \/ GoLive \/ FlushPending \/ UNCHANGED vars
  BY <1>1, <1>6 DEF Expire, PlanReplay, SendReplay, GoLive, FlushPending, vars, link
<1>7. CASE Subscribe \/ Disconnect \/ Restart
  BY <1>2, <1>7 DEF Subscribe, Disconnect, Restart
<1>8. CASE CloseAll
  BY <1>8 DEF CloseAll
<1> QED
  BY <1>1, <1>3, <1>4, <1>5, <1>6, <1>7, <1>8 DEF Next, Handler


\* The live loop takes an event, and writes it if the replay has not.
LEMMA SendLiveEvent ==
    ASSUME Steady, Room, SendLive
    PROVE  /\ 1 \in 1..Len(queue) /\ queue[1].kind = "event"
           /\ queue[1].id = queue[1].n /\ queue[1].n \in 1..total
           /\ UNCHANGED <<phase, subscribed, conn, watermark, toSend, seq, total, topicOf>>
           /\ \/ queue[1].n <= watermark /\ UNCHANGED client
              \/ queue[1].n > watermark /\ known' = known \cup {queue[1].n} /\ Record(queue[1].n)
<1> DEFINE h == queue[1]
<1>1. 1 \in 1..Len(queue) /\ h = Head(queue) /\ h.kind = "event"
  BY SendLiveFrames DEF Steady, Room
<1>2. h.id = h.n /\ h.n \in 1..total
  BY <1>1, SameNumber DEF Steady, Shape, EventsNumbered
<1>3. h # Stop
  BY <1>1 DEF Stop
<1>4. total \in Nat /\ watermark \in Nat
  BY Places DEF Steady
<1>5. /\ UNCHANGED <<phase, subscribed, conn, watermark, toSend, seq, total, topicOf>>
      /\ IF h.id <= watermark THEN UNCHANGED client ELSE Deliver(h)
  BY <1>1, <1>3 DEF SendLive, server
<1> HIDE DEF h
<1>6. h.n <= watermark \/ h.n > watermark
  BY ONLY <1>2, <1>4
<1>7. CASE h.n <= watermark
  <2>1. UNCHANGED client
    BY <1>2, <1>5, <1>7
  <2> QED
    BY <2>1, <1>1, <1>2, <1>5, <1>7 DEF h
<1>8. CASE h.n > watermark
  <2>1. ~(h.id <= watermark)
    BY ONLY <1>2, <1>4, <1>8
  <2>2. Deliver(h)
    BY <2>1, <1>5
  <2>3. known' = known \cup {h.n} /\ Record(h.n)
    BY <2>2, <1>1, <1>2 DEF Deliver
  <2> QED
    BY <2>3, <1>1, <1>2, <1>5, <1>8 DEF h
<1> QED
  BY <1>6, <1>7, <1>8

LEMMA SupplyStep ==
    ASSUME Reconnecting, Steady, Room, Supply, [Next]_vars, ~closed'
    PROVE  Supply'
<1>0. total \in Nat /\ seq = total /\ watermark \in Nat
  BY Places DEF Steady, Ring
<1>1. ASSUME NEW t \in Threads, PublishNumber(t) PROVE Supply'
  <2>1. UNCHANGED <<subscribed, phase, conn, known, watermark>> /\ total' = total + 1
    BY <1>1, NumberFacts DEF Steady, link, client
  <2> SUFFICES ASSUME phase # "off", NEW n \in 1..total', topicOf'[n] \in Scope, n > watermark
               PROVE  n \in known \/ Coming(n)'
    BY <2>1 DEF Supply
  <2>2. CASE n \in 1..total
    <3>1. topicOf[n] \in Scope
      BY <1>1, <2>2, NumberFacts DEF Steady
    <3> QED
      BY <1>1, <2>2, <3>1, ComingPublishNumber DEF Supply, Steady
  <2>3. CASE n = total + 1
    <3>1. pub'[t].evt # NoEvent /\ pub'[t].evt.n = n /\ pub'[t].sub = conn'
      BY <1>1, <2>1, <2>3, NumberFacts DEF Steady, Supply
    <3> QED
      BY <3>1 DEF Coming
  <2> QED
    BY <1>0, <2>1, <2>2, <2>3
<1>2. ASSUME NEW t \in Threads, PublishSchedule(t) PROVE Supply'
  <2>1. UNCHANGED <<subscribed, phase, conn, known, watermark, total, topicOf>>
    BY <1>2 DEF PublishSchedule, link, client
  <2>2. phase # "off" => conn # 0
    BY DEF Steady, Announced, Fresh
  <2>3. \A n : topicOf[n] \in Scope /\ Coming(n) /\ phase # "off" => Coming(n)'
    BY <1>2, <2>2, ComingPublishSchedule DEF Steady
  <2> QED
    BY <2>1, <2>3 DEF Supply
<1>3. CASE RunSoon
  <2>1. UNCHANGED <<subscribed, phase, conn, known, watermark, total, topicOf>>
    BY <1>3, RunSoonFrames DEF client, Steady
  <2>2. phase # "off" => (queue' = queue /\ soon[1].sub # conn) \/ queue' = Append(queue, soon[1].evt)
    BY <1>3, RoomForOne
  <2>3. \A n : Coming(n) /\ phase # "off" => Coming(n)'
    BY <1>3, <2>2, ComingRunSoon DEF Steady
  <2> QED
    BY <2>1, <2>3 DEF Supply
<1>4. CASE Subscribe
  <2>1. subscribed' = TRUE /\ watermark' = seq /\ total' = total
    BY <1>4 DEF Subscribe, server
  <2>2. \A n \in 1..total : ~(n > seq)
    BY ONLY <1>0
  <2> QED
    BY <2>1, <2>2 DEF Supply
<1>5. CASE PlanReplay
  <2>1. /\ phase # "off" /\ UNCHANGED <<subscribed, conn, known, total, topicOf, queue, soon, pub>>
    BY <1>5 DEF PlanReplay, server, client
  <2>2. watermark' = watermark \/ watermark' > watermark
    BY <1>5 DEF PlanReplay, ReplayPlan
  <2>3. watermark' \in Nat
    <3>1. Shape'
      BY <1>5, ShapePlanReplay DEF Steady
    <3> QED
      BY <3>1 DEF Shape, TypeOK
  <2>4. \A n \in 1..total : n > watermark' => n > watermark
    BY ONLY <1>0, <2>2, <2>3
  <2> QED
    BY <2>1, <2>4 DEF Supply, Coming
<1>6. CASE SendReplay
  <2>1. UNCHANGED <<subscribed, phase, conn, watermark, total, topicOf, queue, soon, pub>>
    BY <1>6 DEF SendReplay, server
  <2>2. known \subseteq known'
    BY <1>6 DEF SendReplay, Deliver
  <2> QED
    BY <2>1, <2>2 DEF Supply, Coming
<1>7. CASE SendLive
  <2>1. UNCHANGED <<subscribed, phase, conn, watermark, total, topicOf>>
    BY <1>7, SendLiveEvent
  <2>2. queue[1].n \in 1..total /\ \A n : Coming(n) => n = queue[1].n \/ Coming(n)'
    BY <1>7, SendLiveEvent, ComingSendLive DEF Steady
  <2>3. known \subseteq known' /\ (queue[1].n <= watermark \/ queue[1].n \in known')
    BY <1>7, SendLiveEvent DEF client
  <2>4. \A n \in 1..total : n > watermark /\ Coming(n) => n \in known' \/ Coming(n)'
    <3> TAKE n \in 1..total
    <3>1. n > watermark => ~(n <= watermark)
      BY <1>0
    <3> QED
      BY <2>2, <2>3, <3>1
  <2> QED
    BY <2>1, <2>3, <2>4 DEF Supply
<1>8. CASE Expire \/ GoLive \/ FlushPending \/ UNCHANGED vars
  <2>1. /\ phase' # "off" => phase # "off"
        /\ UNCHANGED <<subscribed, conn, known, watermark, total, topicOf, queue, soon, pub>>
    BY <1>8 DEF Expire, GoLive, FlushPending, vars, server, link, client
  <2> QED
    BY <2>1 DEF Supply, Coming
<1>9. CASE Disconnect \/ Restart
  BY <1>9 DEF Disconnect, Restart, Supply
<1>10. CASE CloseAll
  BY <1>10 DEF CloseAll
<1> QED
  BY <1>1, <1>2, <1>3, <1>4, <1>5, <1>6, <1>7, <1>8, <1>9, <1>10 DEF Next, Handler

\* The replay writes an event, or the notice that covers the one conversation there is.
LEMMA SendReplayEvent ==
    ASSUME Reconnecting, Steady, Seen, SendReplay
    PROVE  /\ 1 \in 1..Len(toSend) /\ phase = "replay"
           /\ UNCHANGED <<phase, conn, watermark, seq, total, topicOf>>
           /\ \A i \in 1..Len(toSend) : i = 1 \/ \E j \in 1..Len(toSend') : toSend'[j] = toSend[i]
           /\ \A i \in 1..Len(toSend') : i + 1 \in 1..Len(toSend) /\ toSend'[i] = toSend[i + 1]
           /\ \/ /\ toSend[1].kind = "event" /\ toSend[1].id = toSend[1].n /\ toSend[1].n \in 1..total
                 /\ known' = known \cup {toSend[1].n} /\ Record(toSend[1].n)
              \/ /\ toSend[1].kind = "gap" /\ GapAhead
                 /\ known \subseteq known' /\ Caught(total)'
<1> DEFINE h == toSend[1]
<1>1. /\ 1 \in 1..Len(toSend) /\ h = Head(toSend) /\ h \in Frame /\ Deliver(h) /\ phase = "replay"
      /\ UNCHANGED <<phase, conn, watermark, seq, total, topicOf>>
      /\ toSend # <<>> /\ toSend \in Seq(Frame) /\ toSend' = Tail(toSend)
  BY TailElements DEF SendReplay, server, Steady, Shape, TypeOK
<1>2. \A i \in 1..Len(toSend) : i = 1 \/ \E j \in 1..Len(toSend') : toSend'[j] = toSend[i]
  BY <1>1, TailLeft
<1>3. \A i \in 1..Len(toSend') : i + 1 \in 1..Len(toSend) /\ toSend'[i] = toSend[i + 1]
  BY <1>1, TailElements
<1>4. h.kind \in {"event", "gap"} /\ h.topic \in Scope
  BY <1>1 DEF Frame, Seen
<1>5. CASE h.kind = "event"
  <2>1. h.id = h.n /\ h.n \in 1..total
    BY <1>1, <1>5, SameNumber DEF Steady, Shape, EventsNumbered
  <2>2. known' = known \cup {h.n} /\ Record(h.n)
    BY <1>1, <1>5, <2>1 DEF Deliver
  <2> QED
    BY <1>1, <1>2, <1>3, <1>5, <2>1, <2>2
<1>6. CASE h.kind = "gap"
  <2>1. GapAhead
    BY <1>1, <1>6 DEF GapAhead
  <2>2. PICK c \in Conversations : Topics = {c} /\ Scope = {c}
    BY <2>1 DEF Seen, Reconnecting, SingleTopic
  <2>3. h.topic = c /\ h.topic \in Conversations
    BY <1>4, <2>2
  <2>4. known' = known \cup {n \in 1..total : topicOf[n] = c}
    BY <1>1, <1>6, <2>3 DEF Deliver
  <2>5. Caught(total)'
    BY <1>1, <2>2, <2>4 DEF Caught
  <2> QED
    BY <1>1, <1>2, <1>3, <1>6, <2>1, <2>4, <2>5
<1> QED
  BY <1>4, <1>5, <1>6


\* Once an event is written, so is every event of the scope before it.
LEMMA LiveCaughtUp ==
    ASSUME Reconnecting, Steady, Room, Supply, Seen, SendLive, NEW m, m = queue[1].n, m > watermark
    PROVE  Caught(m)'
<1>1. /\ 1 \in 1..Len(queue) /\ queue[1].kind = "event" /\ m \in 1..total
      /\ UNCHANGED <<total, topicOf>> /\ phase = "live"
      /\ total \in Nat /\ watermark \in Nat
  BY SendLiveEvent, Places DEF Steady, SendLive
<1>2. known' = known \cup {m}
  <2>1. ~(m <= watermark)
    BY ONLY <1>1, m > watermark
  <2> QED
    BY <2>1, SendLiveEvent
<1> SUFFICES ASSUME NEW n \in 1..total, n <= m, topicOf[n] \in Scope, n # m
             PROVE  n \in known
  BY <1>1, <1>2 DEF Caught
<1>3. ~(n > m) /\ (n <= watermark \/ n > watermark) /\ ~(m < n)
  BY <1>1
<1>4. CASE n <= watermark
  BY <1>1, <1>4 DEF Seen, Caught
<1>5. CASE n > watermark
  <2>1. n \in known \/ Coming(n)
    BY <1>1, <1>5 DEF Supply
  <2>2. ~Coming(n)
    <3>1. ASSUME NEW i \in 1..Len(queue), queue[i].kind = "event", queue[i].n = n PROVE FALSE
      <4>1. i # 1 /\ 1 < i
        BY <3>1
      <4> QED
        BY <1>1, <1>3, <3>1, <4>1 DEF Steady, Order, InLine, Follows, Reconnecting
    <3>2. ASSUME NEW i \in 1..Len(soon), soon[i].evt.n = n PROVE FALSE
      BY <1>1, <1>3, <3>2 DEF Steady, Order, InLine, Follows, Reconnecting
    <3>3. ASSUME NEW t \in Threads, pub[t].evt # NoEvent, pub[t].evt.n = n PROVE FALSE
      BY <1>1, <1>3, <3>3 DEF Steady, Order, InLine, Follows, Reconnecting
    <3> QED
      BY <3>1, <3>2, <3>3 DEF Coming
  <2> QED
    BY <2>1, <2>2
<1> QED
  BY <1>3, <1>4, <1>5

LEMMA ReplayCaughtUp ==
    ASSUME Reconnecting, Steady, Seen, SendReplay, ~GapAhead, NEW m, m = toSend[1].n
    PROVE  m <= seq /\ Caught(m)'
<1>1. /\ 1 \in 1..Len(toSend) /\ phase = "replay" /\ UNCHANGED <<total, topicOf>>
      /\ toSend[1].kind = "event" /\ toSend[1].id = m /\ m \in 1..total /\ known' = known \cup {m}
  BY SendReplayEvent
<1>2. total = seq /\ total \in Nat /\ watermark \in Nat /\ m <= watermark
  BY <1>1, Places DEF Steady, Ring, Order, ReplayOrder
<1>3. m <= seq
  BY ONLY <1>1, <1>2
<1> SUFFICES ASSUME NEW n \in 1..total, n <= m, topicOf[n] \in Scope, n # m
             PROVE  n \in known
  BY <1>1, <1>3 DEF Caught
<1>4. n <= watermark /\ ~(m < n)
  BY <1>1, <1>2
<1>5. n \in known \/ \E i \in 1..Len(toSend) : toSend[i].kind = "event" /\ toSend[i].n = n
  BY <1>1, <1>4 DEF Seen
<1>6. ASSUME NEW i \in 1..Len(toSend), toSend[i].kind = "event", toSend[i].n = n PROVE FALSE
  <2>1. i # 1 /\ 1 < i
    BY <1>6
  <2> QED
    BY <1>1, <1>4, <1>6, <2>1 DEF Steady, Order, ReplayOrder
<1> QED
  BY <1>5, <1>6

\* What the client writes down is the old cursor or the new event.
LEMMA RecordFacts ==
    ASSUME Shape, Cursor, NEW m \in Nat \ {0}, Record(m)
    PROVE  /\ stored' = 0 => pending' = 0
           /\ stored' \in {stored, pending, m} /\ pending' \in {0, pending, m}
<1> stored \in Nat /\ pending \in Nat
  BY BusAssumption DEF Shape, TypeOK
<1> QED
  BY DEF Record, Cursor

LEMMA CursorStep ==
    ASSUME Reconnecting, Steady, Room, Cursor, Supply, Seen, [Next]_vars, ~closed'
    PROVE  Cursor'
<1>0. total \in Nat /\ seq = total /\ stored \in Nat /\ pending \in Nat /\ conn \in Nat /\ MaxConns \in Nat
  BY Places, BusAssumption DEF Steady, Ring, Shape, TypeOK
<1>1. ASSUME NEW t \in Threads, PublishNumber(t) PROVE Cursor'
  <2>1. /\ UNCHANGED <<phase, conn, known, watermark, stored, pending>>
        /\ total' = total + 1 /\ seq' = seq + 1
    BY <1>1, NumberFacts DEF Steady, link, client
  <2>2. \A n \in 1..total : topicOf'[n] = topicOf[n]
    BY <1>1, NumberFacts DEF Steady
  <2>3. ASSUME NEW k \in Nat, k <= seq, Caught(k)
        PROVE  k <= seq' /\ \A n \in 1..total' : n <= k /\ topicOf'[n] \in Scope => n \in known
    <3>1. k <= seq' /\ \A n \in 1..total' : n <= k => n \in 1..total
      BY <1>0, <2>1, <2>3
    <3> QED
      BY <2>2, <2>3, <3>1 DEF Caught
  <2>4. ASSUME Remembering \/ conn' < 2 \/ phase' = "connected"
        PROVE  stored' <= seq' /\ pending' <= seq' /\ Caught(stored)' /\ Caught(pending)'
    <3>1. stored <= seq /\ pending <= seq /\ Caught(stored) /\ Caught(pending)
      BY <2>1, <2>4 DEF Cursor
    <3>2. /\ stored <= seq' /\ \A n \in 1..total' : n <= stored /\ topicOf'[n] \in Scope => n \in known
          /\ pending <= seq' /\ \A n \in 1..total' : n <= pending /\ topicOf'[n] \in Scope => n \in known
      BY <1>0, <2>3, <3>1
    <3> QED
      BY <2>1, <3>2 DEF Caught
  <2> QED
    BY <2>1, <2>4 DEF Cursor
<1>2. ASSUME UNCHANGED <<seq, total, topicOf, known, stored, pending, conn>>,
             phase' = "connected" => phase = "connected" /\ watermark' = watermark
      PROVE  Cursor'
  BY <1>2 DEF Cursor, Caught
<1>3. ASSUME NEW t \in Threads, PublishSchedule(t) PROVE Cursor'
  BY <1>2, <1>3 DEF PublishSchedule, link, client
<1>4. CASE RunSoon \/ Expire \/ PlanReplay \/ GoLive \/ Disconnect \/ UNCHANGED vars
  BY <1>2, <1>4 DEF RunSoon, Expire, PlanReplay, GoLive, Disconnect, vars, server, link, client
<1>5. CASE Subscribe
  <2>1. /\ conn < MaxConns /\ watermark' = seq /\ phase' = "connected"
        /\ known' = IF stored = 0 THEN 1..total ELSE known
        /\ UNCHANGED <<seq, total, topicOf, stored, pending>>
    BY <1>5 DEF Subscribe, server
  <2>2. Remembering \/ conn < 2
    BY <1>0, <2>1 DEF Reconnecting
  <2>3. stored <= seq /\ pending <= seq /\ Caught(stored) /\ Caught(pending) /\ (stored = 0 => pending = 0)
    BY <2>2 DEF Cursor
  <2>4. known \subseteq known'
    BY <2>1 DEF Steady, Shape, TypeOK
  <2>5. Caught(stored)' /\ Caught(pending)'
    BY <2>1, <2>3, <2>4 DEF Caught
  <2>6. stored' = 0 => 1..watermark' \subseteq known'
    BY <1>0, <2>1
  <2> QED
    BY <2>1, <2>3, <2>5, <2>6 DEF Cursor
<1>6. CASE FlushPending
  <2>1. /\ pending > 0 /\ stored' = pending /\ pending' = 0
        /\ UNCHANGED <<seq, total, topicOf, known, conn, phase>>
    BY <1>6 DEF FlushPending, server, link
  <2>2. stored' # 0 /\ 0 <= seq /\ Caught(0)'
    BY <1>0, <2>1 DEF Caught
  <2>3. Caught(pending) => Caught(stored)'
    BY <2>1 DEF Caught
  <2> QED
    BY <2>1, <2>2, <2>3 DEF Cursor
<1>7. ASSUME NEW m \in 1..total, Record(m), known \subseteq known', UNCHANGED <<seq, total, topicOf, conn>>,
             phase' # "connected", Remembering \/ conn < 2 => Caught(m)'
      PROVE  Cursor'
  <2>1. /\ stored' = 0 => pending' = 0
        /\ stored' \in {stored, pending, m} /\ pending' \in {0, pending, m}
    BY <1>7, RecordFacts DEF Steady
  <2>2. ASSUME Remembering \/ conn < 2
        PROVE  \A k \in {0, stored, pending, m} : k <= seq /\ \A n \in 1..total : n <= k /\ topicOf[n] \in Scope => n \in known'
    <3>1. Caught(stored) /\ Caught(pending) /\ stored <= seq /\ pending <= seq
      BY <2>2 DEF Cursor
    <3>2. m <= seq /\ 0 <= seq /\ \A n \in 1..total : ~(n <= 0)
      BY <1>0
    <3> QED
      BY <1>7, <2>2, <3>1, <3>2 DEF Caught
  <2>3. ASSUME Remembering \/ conn' < 2
        PROVE  stored' <= seq' /\ pending' <= seq' /\ Caught(stored)' /\ Caught(pending)'
    <3>1. stored' <= seq /\ \A n \in 1..total : n <= stored' /\ topicOf[n] \in Scope => n \in known'
      BY <1>7, <2>1, <2>2, <2>3
    <3>2. pending' <= seq /\ \A n \in 1..total : n <= pending' /\ topicOf[n] \in Scope => n \in known'
      BY <1>7, <2>1, <2>2, <2>3
    <3> QED
      BY <1>7, <3>1, <3>2 DEF Caught
  <2> QED
    BY <1>7, <2>1, <2>3 DEF Cursor
<1>8. CASE SendReplay
  <2>1. conn # 0 /\ conn # 1
    <3>1. phase = "replay" /\ toSend # <<>>
      BY <1>8 DEF SendReplay
    <3> QED
      BY <3>1 DEF Steady, Ring, Announced, Fresh, FirstConn
  <2>2. ~(conn < 2)
    BY <1>0, <2>1
  <2>3. CASE ~GapAhead
    <3>1. /\ toSend[1].n \in 1..total /\ Record(toSend[1].n) /\ known \subseteq known'
          /\ UNCHANGED <<phase, conn, seq, total, topicOf>> /\ phase = "replay"
      BY <1>8, <2>3, SendReplayEvent
    <3> PICK m \in 1..total : m = toSend[1].n
      BY <3>1
    <3>2. Record(m) /\ Caught(m)'
      BY <1>8, <2>3, <3>1, ReplayCaughtUp
    <3> QED
      BY <1>7, <3>1, <3>2
  <2>4. CASE GapAhead
    <3>1. ~Remembering
      BY <2>4 DEF Seen
    <3>2. UNCHANGED <<phase, conn>> /\ phase = "replay"
      BY <1>8, SendReplayEvent
    <3>3. stored' = 0 => pending' = 0
      <4>1. stored' = 0 => pending' = 0 \/ (stored > 0 /\ stored' = stored)
        BY <1>8 DEF SendReplay, Deliver, Record
      <4> QED
        BY <4>1, <1>0
    <3> QED
      BY <2>2, <3>1, <3>2, <3>3 DEF Cursor
  <2> QED
    BY <2>3, <2>4
<1>9. CASE SendLive
  <2>1. /\ UNCHANGED <<phase, conn, watermark, seq, total, topicOf>> /\ phase = "live"
        /\ queue[1].n \in 1..total
    BY <1>9, SendLiveEvent DEF SendLive
  <2>2. CASE UNCHANGED client
    BY <1>2, <2>1, <2>2 DEF client
  <2>3. CASE queue[1].n > watermark /\ known' = known \cup {queue[1].n} /\ Record(queue[1].n)
    <3> PICK m \in 1..total : m = queue[1].n
      BY <2>1
    <3>1. Record(m) /\ known \subseteq known' /\ Caught(m)'
      BY <1>9, <2>3, LiveCaughtUp
    <3> QED
      BY <1>7, <2>1, <2>3, <3>1
  <2> QED
    BY <1>9, <2>2, <2>3, SendLiveEvent
<1>10. CASE CloseAll
  BY <1>10 DEF CloseAll
<1>11. CASE Restart
  BY <1>0, <1>11 DEF Restart, Reconnecting, Steady, Ring
<1> QED
  BY <1>1, <1>3, <1>4, <1>5, <1>6, <1>8, <1>9, <1>10, <1>11 DEF Next, Handler


LEMMA SeenPlanReplay ==
    ASSUME Reconnecting, Steady, Cursor, Seen, PlanReplay
    PROVE  Seen'
<1>1. /\ phase = "connected" /\ phase' = "replay"
      /\ UNCHANGED <<conn, total, topicOf, known>>
  BY DEF PlanReplay, server, client
<1>2. toSend = <<>> /\ conn \in 1..MaxConns /\ (conn = 1 => stored = 0)
  BY <1>1 DEF Steady, Order, ReplayOrder, Announced, Fresh, Shape, TypeOK
<1>3. CASE ~(stored > 0)
  <2>1. stored = 0
    BY <1>3 DEF Steady, Shape, TypeOK
  <2>2. toSend' = <<>> /\ watermark' = watermark
    BY <1>2, <1>3 DEF PlanReplay
  <2>3. 1..watermark \subseteq known /\ watermark \in Nat /\ total \in Nat
    BY <1>1, <2>1, Places DEF Cursor, Steady
  <2>4. \A n \in 1..total : n <= watermark => n \in known
    BY <2>3
  <2>5. Len(toSend') = 0 /\ ~GapAhead'
    BY <2>2 DEF GapAhead
  <2> QED
    BY <1>1, <2>2, <2>4, <2>5 DEF Seen
<1>4. CASE stored > 0
  <2>1. ReplayPlan /\ Caught(stored) /\ conn # 1
    BY <1>1, <1>2, <1>4 DEF PlanReplay, Cursor
  <2>2. /\ GapAhead' => ~Remembering /\ conn = 2
        /\ \A i \in 1..Len(toSend') : toSend'[i].kind # "stop" /\ toSend'[i].topic \in Scope
        /\ GapAhead' \/ \A n \in 1..total : n <= watermark' /\ topicOf[n] \in Scope
              => n \in known \/ \E i \in 1..Len(toSend') : toSend'[i].kind = "event" /\ toSend'[i].n = n
    BY <1>2, <1>4, <2>1, PlanReaches
  <2> QED
    BY <1>1, <2>2 DEF Seen
<1> QED
  BY <1>3, <1>4

LEMMA SeenSendReplay ==
    ASSUME Reconnecting, Steady, Seen, SendReplay
    PROVE  Seen'
<1>1. /\ phase = "replay" /\ UNCHANGED <<phase, conn, watermark, total, topicOf>>
      /\ \A i \in 1..Len(toSend) : i = 1 \/ \E j \in 1..Len(toSend') : toSend'[j] = toSend[i]
      /\ \A i \in 1..Len(toSend') : i + 1 \in 1..Len(toSend) /\ toSend'[i] = toSend[i + 1]
  BY SendReplayEvent
<1>2. \A i \in 1..Len(toSend') : toSend'[i].kind # "stop" /\ toSend'[i].topic \in Scope
  <2>1. \A i \in 1..Len(toSend) : toSend[i].kind # "stop" /\ toSend[i].topic \in Scope
    BY DEF Seen
  <2> QED
    BY ONLY <1>1, <2>1
<1>3. GapAhead' => GapAhead
  BY <1>1 DEF GapAhead
<1>4. CASE toSend[1].kind = "event" /\ known' = known \cup {toSend[1].n}
  <2>1. GapAhead => GapAhead'
    BY <1>1, <1>4 DEF GapAhead
  <2>2. ASSUME NEW n \in 1..total, n <= watermark, topicOf[n] \in Scope, ~GapAhead
        PROVE  n \in known' \/ \E i \in 1..Len(toSend') : toSend'[i].kind = "event" /\ toSend'[i].n = n
    <3>1. n \in known \/ \E i \in 1..Len(toSend) : toSend[i].kind = "event" /\ toSend[i].n = n
      BY <1>1, <2>2 DEF Seen
    <3> QED
      BY <1>1, <1>4, <3>1
  <2> QED
    BY <1>1, <1>2, <1>3, <2>1, <2>2 DEF Seen
<1>5. CASE Caught(total)'
  <2>1. \A n \in 1..total : n <= total
    BY Places DEF Steady
  <2>2. \A n \in 1..total : topicOf[n] \in Scope => n \in known'
    BY <1>1, <1>5, <2>1 DEF Caught
  <2> QED
    BY <1>1, <1>2, <1>3, <2>2 DEF Seen
<1> QED
  BY <1>4, <1>5, SendReplayEvent

LEMMA SeenStep ==
    ASSUME Reconnecting, Steady, Room, Cursor, Supply, Seen, [Next]_vars, ~closed'
    PROVE  Seen'
<1>1. ASSUME NEW t \in Threads, PublishNumber(t) PROVE Seen'
  <2>1. /\ UNCHANGED <<phase, conn, known, watermark, toSend>> /\ total' = total + 1
        /\ \A n \in 1..total : topicOf'[n] = topicOf[n]
    BY <1>1, NumberFacts DEF Steady, link, client
  <2>2. total \in Nat /\ seq = total /\ watermark \in Nat
    BY Places DEF Steady, Ring
  <2>3. phase # "off" => watermark <= total
    BY <2>2 DEF Steady, Order, Seam
  <2>4. phase # "off" => \A n \in 1..total' : n <= watermark => n \in 1..total
    BY <2>1, <2>2, <2>3
  <2> QED
    BY <2>1, <2>4 DEF Seen, Caught, GapAhead
<1>2. ASSUME UNCHANGED <<conn, total, topicOf, watermark>>, known \subseteq known',
             \/ UNCHANGED <<phase, toSend>>
             \/ phase' \in {"off", "connected"} /\ Len(toSend') = 0
      PROVE  Seen'
  BY <1>2 DEF Seen, Caught, GapAhead
<1>3. ASSUME NEW t \in Threads, PublishSchedule(t) PROVE Seen'
  BY <1>2, <1>3 DEF PublishSchedule, link, client
<1>4. CASE RunSoon \/ Expire \/ FlushPending \/ Disconnect \/ UNCHANGED vars
  BY <1>2, <1>4 DEF RunSoon, Expire, FlushPending, Disconnect, vars, server, link, client
<1>5. CASE Subscribe
  <2>1. phase' = "connected" /\ Len(toSend') = 0
    BY <1>5 DEF Subscribe
  <2> QED
    BY <2>1 DEF Seen, GapAhead
<1>6. CASE PlanReplay
  BY <1>6, SeenPlanReplay
<1>7. CASE SendReplay
  BY <1>7, SeenSendReplay
<1>8. CASE GoLive
  <2>1. /\ phase = "replay" /\ phase' = "live" /\ Len(toSend) = 0
        /\ UNCHANGED <<conn, known, watermark, toSend, total, topicOf>>
    BY <1>8 DEF GoLive, server, client
  <2> QED
    BY <2>1 DEF Seen, Caught, GapAhead
<1>9. CASE SendLive
  <2>1. UNCHANGED <<phase, conn, watermark, toSend, total, topicOf>> /\ known \subseteq known'
    BY <1>9, SendLiveEvent DEF client
  <2> QED
    BY <1>2, <2>1
<1>10. CASE CloseAll
  BY <1>10 DEF CloseAll
<1>11. CASE Restart
  BY <1>11 DEF Restart, Reconnecting, Steady, Shape, TypeOK, Ring
<1> QED
  BY <1>1, <1>3, <1>4, <1>5, <1>6, <1>7, <1>8, <1>9, <1>10, <1>11 DEF Next, Handler

\* Without a restart the bus, once closed, stays closed.
LEMMA StaysClosed == ASSUME Reconnecting, Steady, [Next]_vars, ~closed' PROVE ~closed
<1>1. ~Restart
  BY DEF Restart, Reconnecting, Steady, Shape, TypeOK, Ring
<1>2. ASSUME NEW t \in Threads, PublishNumber(t) \/ PublishSchedule(t) PROVE closed' = closed
  BY <1>2 DEF PublishNumber, PublishSchedule
<1> QED
  BY <1>1, <1>2 DEF Next, RunSoon, Expire, Subscribe, Handler, PlanReplay, SendReplay, GoLive, SendLive,
                    Disconnect, FlushPending, CloseAll, vars

LEMMA StreamStep == Reconnecting /\ Steady /\ Stream /\ [Next]_vars => Stream'
<1> SUFFICES ASSUME Reconnecting, Steady, Stream, [Next]_vars, ~closed'
             PROVE  (Room /\ Cursor /\ Supply /\ Seen)'
  BY DEF Stream
<1>1. Room /\ Cursor /\ Supply /\ Seen
  BY StaysClosed DEF Stream
<1> QED
  BY <1>1, RoomStep, CursorStep, SupplyStep, SeenStep

LEMMA StreamInit == Init => Ring /\ Stream
<1> SUFFICES ASSUME Init PROVE Ring /\ Stream
  OBVIOUS
<1>1. /\ restarts = 0 /\ seq = 0 /\ total = 0 /\ horizon = 0 /\ Len(backlog) = 0 /\ Len(queue) = 0
      /\ Len(toSend) = 0 /\ stored = 0 /\ pending = 0 /\ phase = "off"
  BY DEF Init
<1>2. Ring
  BY <1>1 DEF Ring
<1>3. Room /\ Supply /\ Seen
  BY <1>1 DEF Room, Supply, Seen, GapAhead
<1>4. Caught(0)
  BY <1>1 DEF Caught
<1>5. Cursor
  BY <1>1, <1>4 DEF Cursor
<1> QED
  BY <1>2, <1>3, <1>5 DEF Stream

\* events.py: a client that reconnects with Last-Event-ID has, when nothing is on its way any
\* more, every event of its scope, or was told to read the snapshot that holds it.  For one
\* publisher, in one process run, with a queue that does not overflow, and a ring that
\* forgets nothing or one reconnection to a stream of a single conversation.
THEOREM NoSilentLossAlways ==
    ASSUME Reconnecting
    PROVE  Spec => []NoSilentLoss
<1>1. Init => Ring /\ Stream
  BY StreamInit
<1>2. Shape /\ Ring /\ [Next]_vars => Ring'
  BY RingStep
<1>3. Shape /\ Order /\ Announced /\ Ring /\ Stream /\ [Next]_vars => Stream'
  BY StreamStep DEF Steady
<1>4. Shape /\ Ring /\ Stream => NoSilentLoss
  <2> SUFFICES ASSUME Shape, Ring, Stream, Quiet, ~closed, NEW n \in 1..total, topicOf[n] \in Scope
               PROVE  n \in known
    BY DEF NoSilentLoss
  <2>1. phase = "live" /\ Len(queue) = 0 /\ Len(soon) = 0 /\ \A t \in Threads : pub[t].evt = NoEvent
    BY DEF Quiet
  <2>2. Supply /\ Seen /\ ~Coming(n)
    BY <2>1 DEF Stream, Coming
  <2>3. n <= watermark \/ n > watermark
    BY Places
  <2> QED
    BY <2>1, <2>2, <2>3 DEF Supply, Seen, Caught
<1> QED
  BY <1>1, <1>2, <1>3, <1>4, BusInvAlways, PTL DEF Spec
=============================================================================
