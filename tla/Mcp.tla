--------------------------------- MODULE Mcp ---------------------------------
(* The connection to one MCP server (core/mcp_client.py): handshake, receive  *)
(* loop, requests with their time-outs, reconnection on use, and the manager  *)
(* around it (agent.py, tools/mcp_tools.py).  Everything runs in one event    *)
(* loop; a step is what happens between two awaits.                           *)
EXTENDS Naturals, FiniteSets

CONSTANTS
  Kinds,         \* transports: "stdio", "sse", "streamable"
  Callers,       \* calls of a tool of this server
  CallsOverlap,  \* whether a call may begin while another one is under way
  SlowWakeups,   \* whether the link may break between the handshake's reply and the coroutine that awaits it
  InitTries,     \* max_retries of _safe_initialize
  MaxLinks,      \* bound: processes or sessions opened
  MaxAgain,      \* bound: calls begun again
  MaxMcpFaults   \* bound: crashes, failed handshakes and time-outs

VARIABLES
  kind,          \* transport of the server's configuration
  link,          \* the transport: number of its process or session, alive, _closed
  stray,         \* earlier ones that still run
  loops,         \* receive loops that run, by the link they read; and _recv_task
  ready, ever,   \* _initialized, _ever_initialized
  actor,         \* the initializer "boot" and the callers
  pending,       \* _pending: ids
  asked,         \* requests the server has still to answer
  mcpOps

mcpVars == <<kind, link, stray, loops, ready, ever, actor, pending, asked, mcpOps>>

Actors == Callers \cup {"boot"}
Resting == {"idle", "done"}
Step(a, at) == [actor EXCEPT ![a].at = at]
Spend == mcpOps.faults < MaxMcpFaults /\ mcpOps' = [mcpOps EXCEPT !.faults = @ + 1]

\* _fail_pending: the actors that wait are told the connection is gone.
Failed(who) == [a \in Actors |-> IF who[a].at \in {"handshake", "calling"} /\ who[a].id \in pending
                                 THEN [who[a] EXCEPT !.at = "lost"] ELSE who[a]]
-----------------------------------------------------------------------------
(* The transport                                                              *)

\* connect ends what was before: a child is terminated and waited for, the stream of a session released.  Of the
\* streamable transport the session is closed, but its response queue is left to who waits for it.
StdioEnds == kind = "stdio"
SseEnds == kind = "sse"
StreamableEnds == kind = "streamable" /\ FALSE

\* connect, up to its first await: with the old stream its receive loop ends.
ConnectBegins(a) ==
  /\ actor[a].at = "connect"
  /\ link' = [link EXCEPT !.alive = FALSE]
  /\ IF link.alive /\ link.n \in loops.run /\ (StdioEnds \/ SseEnds \/ StreamableEnds)
     THEN /\ loops' = [loops EXCEPT !.run = @ \ {link.n}]
          /\ ready' = FALSE /\ actor' = [Failed(actor) EXCEPT ![a].at = "open"] /\ pending' = {}
     ELSE actor' = Step(a, "open") /\ UNCHANGED <<loops, ready, pending>>
  /\ UNCHANGED <<kind, stray, ever, asked, mcpOps>>

\* A request: its id is registered before it is sent.
Asks(a, at) ==
  /\ mcpOps' = [mcpOps EXCEPT !.ids = @ + 1]
  /\ actor' = [actor EXCEPT ![a].at = at, ![a].id = mcpOps.ids + 1]
  /\ pending' = pending \cup {mcpOps.ids + 1}

\* connect sets no _closed: a transport that was closed stays so.
Opened(n) == [n |-> n, alive |-> TRUE, closed |-> link.closed]

\* initialize: the new link, its receive loop, the handshake request
Opens(a) ==
  /\ actor[a].at = "open" /\ mcpOps.links < MaxLinks
  /\ link' = Opened(mcpOps.links + 1)
  /\ stray' = IF link.alive THEN stray \cup {link.n} ELSE stray
  /\ loops' = [run |-> loops.run \cup {mcpOps.links + 1}, task |-> mcpOps.links + 1]
  /\ mcpOps' = [mcpOps EXCEPT !.links = @ + 1, !.ids = @ + 1]
  /\ actor' = [actor EXCEPT ![a].at = "handshake", ![a].id = mcpOps.ids + 1]
  /\ pending' = pending \cup {mcpOps.ids + 1}
  /\ asked' = asked \cup {[id |-> mcpOps.ids + 1, n |-> mcpOps.links + 1]}
  /\ UNCHANGED <<kind, ready, ever>>

\* close of the transport: it stays closed, receive returns None from then on.
Closed == [link EXCEPT !.alive = FALSE, !.closed = TRUE]

\* A failed attempt of _safe_initialize is repeated after a second, that of a call is its result.
Gives(a) == IF a = "boot" /\ actor[a].tries + 1 < InitTries THEN "connect" ELSE "done"
OpenFails(a) ==
  /\ actor[a].at = "open" /\ Spend
  /\ link' = Closed
  /\ actor' = [actor EXCEPT ![a].at = Gives(a), ![a].tries = @ + 1, ![a].result = "error"]
  /\ UNCHANGED <<kind, stray, loops, ready, ever, pending, asked>>

\* initialize after an exception: _recv_task is cancelled, the transport closed.
HandshakeFails(a) ==
  /\ actor[a].at = "lost" /\ actor[a].use = "init"
  /\ link' = Closed /\ ready' = FALSE
  /\ loops' = [run |-> loops.run \ {loops.task}, task |-> 0]
  /\ pending' = {}
  /\ actor' = [Failed(actor) EXCEPT ![a].at = Gives(a), ![a].tries = @ + 1, ![a].result = "error"]
  /\ UNCHANGED <<kind, stray, ever, asked, mcpOps>>

\* The handshake is answered; a call goes on with its request.
HandshakeDone(a) ==
  /\ actor[a].at = "answered" /\ actor[a].use = "init"
  /\ ready' = TRUE /\ ever' = TRUE
  /\ actor' = [actor EXCEPT ![a].at = IF a = "boot" THEN "done" ELSE "request", ![a].use = "call", ![a].result = "ready"]
  /\ UNCHANGED <<kind, link, stray, loops, pending, asked, mcpOps>>
-----------------------------------------------------------------------------
(* The receive loop                                                           *)

\* What a loop may read: nothing when the transport is closed
Readable(n) == link.n = n /\ link.alive /\ ~link.closed

\* A plausible slip: replies are taken in the order of the requests.
MatchesFirst(id, a) == actor[a].id \in pending /\ \A i \in pending : actor[a].id <= i

\* A reply goes to the request with its id; an id that is gone is ignored.
Matches(id, a) == actor[a].id = id /\ id \in pending

Replies(r) ==
  /\ r \in asked /\ r.n \in loops.run /\ Readable(r.n)
  /\ asked' = asked \ {r}
  /\ actor' = [a \in Actors |-> IF actor[a].at \in {"handshake", "calling"} /\ Matches(r.id, a)
                                THEN [actor[a] EXCEPT !.at = "answered", !.reply = r.id] ELSE actor[a]]
  /\ pending' = pending \ {actor[a].id : a \in {b \in Actors : Matches(r.id, b)}}
  /\ UNCHANGED <<kind, link, stray, loops, ready, ever, mcpOps>>

\* The loop ends: end of file, a read error, another loop at the same stream, or a closed transport.  One that waits
\* for the queue of an earlier streamable session waits on.
LoopEnds(n) ==
  /\ n \in loops.run /\ ~Readable(n) /\ (kind = "streamable" => n = link.n)
  /\ loops' = [loops EXCEPT !.run = @ \ {n}]
  /\ ready' = FALSE /\ pending' = {} /\ actor' = Failed(actor)
  /\ UNCHANGED <<kind, link, stray, ever, asked, mcpOps>>

Awake == SlowWakeups \/ \A a \in Actors : actor[a].at = "answered" => actor[a].use = "call"

\* A response of the streamable transport cannot be read: the error ends the loop and with it every request.
ReadFails ==
  /\ kind = "streamable" /\ link.n \in loops.run /\ Readable(link.n) /\ Awake /\ Spend
  /\ loops' = [loops EXCEPT !.run = @ \ {link.n}]
  /\ ready' = FALSE /\ pending' = {} /\ actor' = Failed(actor)
  /\ UNCHANGED <<kind, link, stray, ever, asked>>

\* The server or its connection breaks.
ServerCrashes ==
  /\ link.alive /\ kind # "streamable" /\ Awake /\ Spend
  /\ link' = [link EXCEPT !.alive = FALSE]
  /\ UNCHANGED <<kind, stray, loops, ready, ever, actor, pending, asked>>
-----------------------------------------------------------------------------
(* Calls                                                                      *)

\* call_tool and initialize: reconnect when the connection was ready once.
Begins(a) ==
  /\ actor[a].at = "idle" /\ (CallsOverlap \/ \A b \in Actors : actor[b].at \in Resting)
  /\ actor["boot"].at # "idle" \/ a = "boot"
  /\ actor' = [actor EXCEPT ![a].tries = 0, ![a].use = IF ready THEN "call" ELSE "init",
       ![a].at = IF ready THEN IF a = "boot" THEN "done" ELSE "request"
                 ELSE IF ever \/ a = "boot" THEN "connect" ELSE "done",
       ![a].result = IF ready \/ ever \/ a = "boot" THEN "none" ELSE "error"]
  /\ UNCHANGED <<kind, link, stray, loops, ready, ever, pending, asked, mcpOps>>

\* _send_request, which fails when the transport is not open
Requests(a) ==
  /\ actor[a].at = "request"
  /\ IF link.alive
     THEN Asks(a, "calling") /\ asked' = asked \cup {[id |-> mcpOps.ids + 1, n |-> link.n]}
     ELSE actor' = [actor EXCEPT ![a].at = "done", ![a].result = "error"] /\ UNCHANGED <<pending, asked, mcpOps>>
  /\ UNCHANGED <<kind, link, stray, loops, ready, ever>>

\* The request was waited for long enough: its id is forgotten.
RequestTimesOut(a) ==
  /\ actor[a].at \in {"handshake", "calling"} /\ Spend
  /\ pending' = pending \ {actor[a].id} /\ actor' = Step(a, "lost")
  /\ UNCHANGED <<kind, link, stray, loops, ready, ever, asked>>

CallEnds(a) ==
  /\ actor[a].at \in {"answered", "lost"} /\ actor[a].use = "call"
  /\ actor' = [actor EXCEPT ![a].at = "done", ![a].result = IF actor[a].at = "answered" THEN "reply" ELSE "error"]
  /\ UNCHANGED <<kind, link, stray, loops, ready, ever, pending, asked, mcpOps>>

\* A caller calls again.
Again(a) ==
  /\ actor[a].at = "done" /\ a # "boot" /\ mcpOps.again < MaxAgain
  /\ actor' = [actor EXCEPT ![a].at = "idle", ![a].result = "none"]
  /\ mcpOps' = [mcpOps EXCEPT !.again = @ + 1]
  /\ UNCHANGED <<kind, link, stray, loops, ready, ever, pending, asked>>

\* initialize_all has waited for 30 s: the attempt is cancelled where it is and cleans up nothing.
BootCancelled ==
  /\ actor["boot"].at \notin Resting /\ Spend
  /\ actor' = [actor EXCEPT !["boot"].at = "done", !["boot"].result = "error"]
  /\ pending' = pending \ {actor["boot"].id}
  /\ UNCHANGED <<kind, link, stray, loops, ready, ever, asked>>

\* reconnect_mcp and reload_mcp: the connection is closed and removed; a new one takes its name.
Reconnects ==
  /\ actor["boot"].at = "done" /\ \A a \in Callers : actor[a].at \in Resting
  /\ mcpOps.links < MaxLinks
  /\ link' = [n |-> 0, alive |-> FALSE, closed |-> FALSE] /\ loops' = [run |-> {}, task |-> 0]
  /\ ready' = FALSE /\ ever' = FALSE /\ pending' = {} /\ asked' = {}
  /\ actor' = [actor EXCEPT !["boot"] = [@ EXCEPT !.at = "idle", !.tries = 0, !.result = "none"]]
  /\ UNCHANGED <<kind, stray, mcpOps>>

McpInit ==
  /\ kind \in Kinds /\ link = [n |-> 0, alive |-> FALSE, closed |-> FALSE] /\ stray = {}
  /\ loops = [run |-> {}, task |-> 0] /\ ready = FALSE /\ ever = FALSE /\ pending = {} /\ asked = {}
  /\ actor = [a \in Actors |-> [at |-> "idle", use |-> "none", id |-> 0, reply |-> 0, tries |-> 0, result |-> "none"]]
  /\ mcpOps = [links |-> 0, ids |-> 0, faults |-> 0, again |-> 0]

McpNext ==
  \/ \E a \in Actors :
       \/ Begins(a) \/ ConnectBegins(a) \/ Opens(a) \/ OpenFails(a) \/ HandshakeFails(a) \/ HandshakeDone(a)
       \/ Requests(a) \/ RequestTimesOut(a) \/ CallEnds(a) \/ Again(a)
  \/ (\E r \in asked : Replies(r)) \/ (\E n \in loops.run : LoopEnds(n))
  \/ ReadFails \/ ServerCrashes \/ BootCancelled \/ Reconnects

McpSpec == McpInit /\ [][McpNext]_mcpVars
-----------------------------------------------------------------------------
\* Types of links, loops and actors.
McpTypeOK ==
  /\ link.n \in 0..MaxLinks /\ stray \subseteq 1..MaxLinks /\ loops.run \subseteq 1..MaxLinks /\ loops.task \in 0..MaxLinks
  /\ pending \subseteq 1..mcpOps.ids /\ ready \in BOOLEAN /\ ever \in BOOLEAN
  /\ \A a \in Actors :
       /\ actor[a].at \in Resting \cup {"connect", "open", "handshake", "answered", "lost", "request", "calling"}
       /\ actor[a].result \in {"none", "ready", "error", "reply"} /\ actor[a].tries \in 0..InitTries

\* An answer is that of the request it is for: late replies and those of an earlier link reach nobody else.
ReplyIsOwn == \A a \in Actors : actor[a].at = "answered" => actor[a].reply = actor[a].id

\* A connection that counts as initialized is read: a request on it gets its reply or an error before its time-out.
ReadyIsHeard == ready => link.n \in loops.run /\ ~link.closed /\ stray = {}

\* Deviations of the code (see the README).
\* A retry of the handshake can succeed: its link is not marked closed.
RetryIsHeard == \A a \in Actors : actor[a].at = "handshake" => ~link.closed
=============================================================================
