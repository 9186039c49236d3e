----------------------------- MODULE ClientStore -----------------------------
(* The streaming text of one turn, from the agent's events to the browser:    *)
(* the delta merger and the nodes of gateway/conversation (bridge.py,         *)
(* service.py), the events they publish, and the browser's copy (store.ts)    *)
(* with its recovery by snapshot (useConversation.ts) and its connection      *)
(* (useSse.ts).  A text is a sequence of chunks numbered as the agent spoke   *)
(* them.                                                                      *)
EXTENDS Naturals, Sequences, SequencesExt

CONSTANTS
  Spoken,        \* types of node the agent speaks into
  MaxWork,       \* bound: chunks, message starts and tool calls of the turn
  BufferMax,     \* _buffer_bytes limit of the merger, in chunks
  PendMax,       \* BUFFER_MAX_EVENTS of the hook
  MaxFaults,     \* bound: lost stretches, disconnections, failed snapshots, changes of page
  FlushMayFail   \* whether the transaction of a flush may fail

VARIABLES
  srv,           \* turn, nodes, merger and published events of the gateway
  spoken,        \* chunks spoken, and those of the current answer
  store,         \* GatewayStore: turn, watermark, nodes and gaps
  hook,          \* refs of useConversation
  snap,          \* the snapshot request of the conversation
  link,          \* the EventSource and its retry timer
  clientOps      \* counters of the bounds

clientVars == <<srv, spoken, store, hook, snap, link, clientOps>>

NodeTypes == {"reasoning", "assistant"}
ASSUME SpokenAssumption == Spoken \subseteq NodeTypes
-----------------------------------------------------------------------------
(* Nodes and events of the gateway.  Every operator takes the gateway's state *)
(* and returns it with its transaction committed and its event published.     *)

Emit(S, e) == [S EXCEPT !.ver = @ + 1, !.log = Append(@, [e EXCEPT !.ver = S.ver + 1])]
TurnEvent(kind) == [kind |-> kind, ver |-> 0, node |-> 0, text |-> <<>>, seq |-> 0, status |-> "none"]
GapEvent == TurnEvent("gap")

\* find_last_node_id, get_last_turn_node
LastNode(S, t) == LET ns == {n \in DOMAIN S.nodes : S.nodes[n].type = t}
                  IN IF ns = {} THEN 0 ELSE CHOOSE n \in ns : \A m \in ns : m <= n

\* upsert_node_delta with continue_existing False: the first text has seq 1
NewNode(S, t, text) ==
  Emit([S EXCEPT !.nodes = Append(@, [type |-> t, text |-> text, seq |-> 1, status |-> "streaming"])],
       [TurnEvent("delta") EXCEPT !.node = Len(S.nodes) + 1, !.text = text, !.seq = 1, !.status = "streaming"])

\* append_node_text: the text grows and its seq is counted in one UPDATE.
AppendDelta(S, t, text) ==
  LET n == LastNode(S, t)
  IN IF n = 0 THEN NewNode(S, t, text)
     ELSE Emit([S EXCEPT !.nodes[n].text = @ \o text, !.nodes[n].seq = @ + 1],
               [TurnEvent("delta") EXCEPT !.node = n, !.text = text, !.seq = S.nodes[n].seq + 1,
                                          !.status = S.nodes[n].status])

\* _flush_locked with upsert_node_deltas: one transaction for all keys.  When it fails
\* the buffer stays.
Flushed(S) == FoldLeft(LAMBDA s, p : AppendDelta(s, p.type, p.text), [S EXCEPT !.buf = <<>>], S.buf)
FlushOutcomes(S) == {Flushed(S)} \cup IF FlushMayFail THEN {S} ELSE {}

\* finalize_node publishes the whole text.
FinalizeNode(S, t) ==
  LET n == LastNode(S, t)
  IN IF n = 0 \/ S.nodes[n].status # "streaming" THEN S
     ELSE Emit([S EXCEPT !.nodes[n].status = "done"],
               [TurnEvent("full") EXCEPT !.node = n, !.text = S.nodes[n].text, !.seq = S.nodes[n].seq,
                                         !.status = "done"])

\* upsert_tool_node
ToolNode(S, n, status) ==
  Emit([S EXCEPT !.nodes = IF n > Len(@) THEN Append(@, [type |-> "tool", text |-> <<>>, seq |-> 0, status |-> status])
                           ELSE [@ EXCEPT ![n].status = status]],
       [TurnEvent("tool") EXCEPT !.node = n, !.status = status])

\* _set_turn_stage: written when it changes only
TurnStage(S, st) ==
  IF S.stage = st THEN S
  ELSE [Emit(S, [TurnEvent("status") EXCEPT !.status = st]) EXCEPT !.stage = st]

Buffered(S) == FoldLeft(LAMBDA k, p : k + Len(p.text), 0, S.buf)
InBuffer(buf, t, c) ==
  IF \E i \in DOMAIN buf : buf[i].type = t
  THEN [i \in DOMAIN buf |-> IF buf[i].type = t THEN [buf[i] EXCEPT !.text = Append(@, c)] ELSE buf[i]]
  ELSE Append(buf, [type |-> t, text |-> <<c>>])

\* accumulate: over the limit the text is dropped and a version_gap published, which has
\* no version; a flush follows when the interval has passed.
Accumulate(S, t, c) ==
  IF Buffered(S) + 1 > BufferMax THEN {[S EXCEPT !.log = Append(@, GapEvent)]}
  ELSE LET s == [S EXCEPT !.buf = InBuffer(@, t, c)] IN {s} \cup FlushOutcomes(s)

\* complete_turn: the answer replaces the text of the last assistant node, streaming nodes
\* are done, running tools are swept; all its events carry one version.
Ended(S, status, reply) ==
  LET last == LastNode(S, "assistant")
      put == IF status # "done" THEN S.nodes
             ELSE IF last = 0 THEN Append(S.nodes, [type |-> "assistant", text |-> reply, seq |-> 1, status |-> "done"])
             ELSE [S.nodes EXCEPT ![last].text = reply, ![last].status = "done"]
      swept == {n \in DOMAIN put : put[n].status = "running"}
      At(e) == [e EXCEPT !.ver = S.ver + 1]
      sweeps == SetToSeq({At([TurnEvent("tool") EXCEPT !.node = n, !.status = "error"]) : n \in swept})
      final == IF status # "done" THEN 0 ELSE IF last = 0 THEN Len(put) ELSE last
  IN [S EXCEPT
       !.ver = @ + 1, !.status = status, !.final = final,
       !.nodes = [n \in DOMAIN put |-> IF n \in swept THEN [put[n] EXCEPT !.status = "error"]
                                       ELSE [put[n] EXCEPT !.status = "done"]],
       !.log = @ \o sweeps \o <<At([TurnEvent("status") EXCEPT !.status = status]),
                                At([TurnEvent("done") EXCEPT !.node = final, !.text = reply, !.status = status])>>]
-----------------------------------------------------------------------------
(* on_agent_event, on_reply and the flusher                                   *)

clientSide == <<store, hook, snap, link>>
MoreWork == spoken.n + clientOps.marks < MaxWork
Count(k) == clientOps' = [clientOps EXCEPT ![k] = @ + 1]

\* reasoning_delta and text_delta: a marked segment starts a node of its own.
AgentSpeaks(t) ==
  /\ srv.status = "live" /\ MoreWork
  /\ LET c == spoken.n + 1
         staged == TurnStage(srv, IF t = "reasoning" THEN "thinking" ELSE "answering")
         opened == IF t \notin staged.segment THEN {staged}
                   ELSE {NewNode([s EXCEPT !.segment = @ \ {t}], t, <<>>) : s \in FlushOutcomes(staged)}
     IN /\ \E s \in opened : srv' \in Accumulate(s, t, c)
        /\ spoken' = [n |-> c,
                      answer |-> IF t # "assistant" THEN spoken.answer
                                 ELSE IF t \in srv.segment THEN <<c>> ELSE Append(spoken.answer, c)]
  /\ UNCHANGED <<clientSide, clientOps>>

\* message_start of the assistant
MessageStart ==
  /\ srv.status = "live" /\ MoreWork
  /\ \E s \in FlushOutcomes(TurnStage(srv, "answering")) :
       srv' = [FinalizeNode(FinalizeNode(s, "assistant"), "reasoning") EXCEPT !.segment = NodeTypes]
  /\ Count("marks") /\ UNCHANGED <<spoken, clientSide>>

\* tool_call_start
ToolCallStart ==
  /\ srv.status = "live" /\ MoreWork
  /\ \E s \in FlushOutcomes(TurnStage(srv, "tool")) :
       LET f == FinalizeNode(s, "assistant") IN srv' = ToolNode(f, Len(f.nodes) + 1, "running")
  /\ Count("marks") /\ UNCHANGED <<spoken, clientSide>>

\* tool_call_end and the tool's message
ToolCallEnd(n) ==
  /\ srv.status = "live" /\ srv.nodes[n].status = "running"
  /\ srv' = ToolNode(srv, n, "done")
  /\ UNCHANGED <<spoken, clientSide, clientOps>>

\* on_reply, on_error and on_stopped
TurnEnds(status) ==
  /\ srv.status = "live"
  /\ \E s \in FlushOutcomes(srv) : srv' = Ended(s, status, IF status = "done" THEN spoken.answer ELSE <<>>)
  /\ UNCHANGED <<spoken, clientSide, clientOps>>

\* _flush_loop, every 100 ms
FlushTick ==
  /\ srv.buf # <<>> /\ srv' = Flushed(srv)
  /\ UNCHANGED <<spoken, clientSide, clientOps>>
-----------------------------------------------------------------------------
(* GatewayStore                                                               *)

NoNode == [text |-> <<>>, seq |-> 0, status |-> "absent"]
NodeOf(C, n) == IF n \in DOMAIN C.nodes THEN C.nodes[n] ELSE NoNode
WithNode(C, n, v) == [C EXCEPT !.nodes = [m \in DOMAIN C.nodes \cup {n} |-> IF m = n THEN v ELSE C.nodes[m]]]
Larger(a, b) == IF a > b THEN a ELSE b

\* A delta is added once: its seq is past the one seen.
DeltaText(old, e) == IF e.seq > old.seq THEN old.text \o e.text ELSE old.text

\* A plausible slip: the text already shown is kept when the turn is over.
ChatDoneKeeps(C, e) ==
  [C EXCEPT !.turn = e.status, !.finished = TRUE,
            !.nodes = [n \in DOMAIN C.nodes |-> IF C.nodes[n].status = "streaming"
                                               THEN [C.nodes[n] EXCEPT !.status = "done"] ELSE C.nodes[n]]]

\* chat.done: the whole text of the final node; what still streams is done.
ChatDone(C, e) ==
  LET D == IF e.node = 0 THEN C ELSE WithNode(C, e.node, [NodeOf(C, e.node) EXCEPT !.text = e.text, !.status = "done"])
  IN [D EXCEPT !.turn = e.status, !.finished = TRUE,
               !.nodes = [n \in DOMAIN D.nodes |-> IF D.nodes[n].status = "streaming"
                                                  THEN [D.nodes[n] EXCEPT !.status = "done"] ELSE D.nodes[n]]]

\* mutate
Mutate(C, e) ==
  LET old == NodeOf(C, e.node)
      new == [old EXCEPT !.seq = Larger(@, e.seq), !.status = e.status]
  IN CASE e.kind = "status" -> [C EXCEPT !.turn = e.status]
       [] e.kind = "delta" -> WithNode(C, e.node, [new EXCEPT !.text = DeltaText(old, e)])
       [] e.kind = "full" -> WithNode(C, e.node, [new EXCEPT !.text = e.text])
       [] e.kind = "tool" -> WithNode(C, e.node, new)
       [] e.kind = "done" -> ChatDone(C, e)

\* A plausible slip: older events of the turn are applied like newer ones.
StaleNever(C, e) == FALSE

\* Events older than the watermark of the turn are dropped, not those of its version.
Stale(C, e) == C.mark # 0 /\ e.ver < C.mark

\* applyEvent
ApplyEvent(C, e) ==
  IF e.kind = "gap" THEN [C EXCEPT !.gaps = @ \cup {"session"}]
  ELSE IF Stale(C, e) THEN C
  ELSE [Mutate(C, e) EXCEPT
         !.mark = Larger(@, e.ver),
         !.gaps = IF C.mark # 0 /\ e.ver > C.mark + 1 THEN @ \cup {"turn"} ELSE @ \ {"turn"}]

\* snapshot() of conversation/store.py: the live turn with its nodes, whose to_dict has no
\* seq; nothing of a turn that is over.
SnapshotOf(S) == [live |-> S.status = "live", ver |-> S.ver, turn |-> S.stage,
                  nodes |-> [n \in DOMAIN S.nodes |-> [text |-> S.nodes[n].text, seq |-> 0, status |-> S.nodes[n].status]]]

\* applySnapshot of the store: its nodes replace the local ones, the watermark never goes
\* back, gaps are closed.
Restored(C, s) ==
  IF ~s.live THEN [C EXCEPT !.gaps = {}]
  ELSE [C EXCEPT !.turn = s.turn, !.finished = FALSE, !.mark = Larger(@, s.ver), !.gaps = {},
                 !.nodes = [n \in DOMAIN C.nodes \cup DOMAIN s.nodes |->
                              IF n \in DOMAIN s.nodes THEN s.nodes[n] ELSE C.nodes[n]]]
-----------------------------------------------------------------------------
(* useConversation and useSse                                                 *)

gatewaySide == <<srv, spoken>>

\* handleEvent: until the snapshot is there events are kept; after it they are applied, and
\* a gap or an unknown turn asks for a snapshot.
Receive(e) ==
  IF hook.loaded
  THEN LET C == ApplyEvent(store, e)
       IN /\ store' = C
          /\ hook' = [hook EXCEPT !.timer = @ \/ C.gaps # {} \/ (e.kind # "gap" /\ C.turn = "none")]
  ELSE /\ UNCHANGED store
       /\ hook' = IF Len(hook.pend) < PendMax THEN [hook EXCEPT !.pend = Append(@, e)]
                  ELSE [hook EXCEPT !.timer = @ \/ ~hook.full, !.full = TRUE]

Deliver ==
  /\ link.up /\ link.pos < Len(srv.log)
  /\ Receive(srv.log[link.pos + 1])
  /\ link' = [link EXCEPT !.pos = @ + 1]
  /\ UNCHANGED <<gatewaySide, snap, clientOps>>

\* The EventBus drops events of a slow connection and says so (module EventBus).
EventsLost(p) ==
  /\ link.up /\ clientOps.faults < MaxFaults
  /\ Receive(GapEvent)
  /\ link' = [link EXCEPT !.pos = p]
  /\ Count("faults") /\ UNCHANGED <<gatewaySide, snap>>

\* onerror: a retry is set unless one was, which nothing resets.
Disconnect ==
  /\ link.up /\ clientOps.faults < MaxFaults
  /\ link' = [link EXCEPT !.up = FALSE, !.retry = IF @ = "unset" THEN "set" ELSE @]
  /\ Count("faults") /\ UNCHANGED <<gatewaySide, store, hook, snap>>

\* The watermark asked for on a connection: its write to the session storage is throttled.
ReplayFrom == {link.pos, link.pos - 1} \cap Nat

\* connect: the recorded event id is written at most once a second, so that the last
\* event may come again.
Reconnect(p) ==
  /\ ~link.up /\ link.retry = "set" /\ hook.here
  /\ link' = [link EXCEPT !.up = TRUE, !.retry = "fired", !.pos = p]
  /\ UNCHANGED <<gatewaySide, store, hook, snap, clientOps>>

\* The timer of scheduleSnapshotRecovery; one request of a conversation at a time.
TimerFires ==
  /\ hook.timer /\ snap.at = "none"
  /\ snap' = [snap EXCEPT !.at = "asked"]
  /\ hook' = [hook EXCEPT !.timer = FALSE]
  /\ UNCHANGED <<gatewaySide, store, link, clientOps>>

SnapshotServed ==
  /\ snap.at = "asked"
  /\ snap' = [at |-> "served", data |-> SnapshotOf(srv)]
  /\ UNCHANGED <<gatewaySide, store, hook, link, clientOps>>

\* A plausible slip: a failed snapshot is not asked for again.
SnapshotFailedSilent == UNCHANGED hook

\* A failed snapshot is asked for again, on the page it belongs to.
SnapshotFailed == hook' = [hook EXCEPT !.timer = @ \/ hook.here]

SnapshotFails ==
  /\ snap.at = "asked" /\ clientOps.faults < MaxFaults
  /\ snap' = [snap EXCEPT !.at = "none"]
  /\ SnapshotFailed
  /\ Count("faults") /\ UNCHANGED <<gatewaySide, store, link>>

\* applySnapshot of the hook after its await: dropped when the page shows another
\* conversation, else applied and followed by the events kept.
SnapshotArrives ==
  /\ snap.at = "served"
  /\ snap' = [snap EXCEPT !.at = "none"]
  /\ IF hook.here
     THEN /\ store' = FoldLeft(ApplyEvent, Restored(store, snap.data), hook.pend)
          /\ hook' = [hook EXCEPT !.loaded = TRUE, !.full = FALSE, !.pend = <<>>]
     ELSE UNCHANGED <<store, hook>>
  /\ UNCHANGED <<gatewaySide, link, clientOps>>

\* The page shows another conversation: its timers are cleared, its connection is closed.
LeavePage ==
  /\ hook.here /\ clientOps.faults < MaxFaults
  /\ hook' = [hook EXCEPT !.here = FALSE, !.loaded = FALSE, !.timer = FALSE, !.pend = <<>>, !.full = FALSE]
  /\ link' = [link EXCEPT !.up = FALSE]
  /\ Count("faults") /\ UNCHANGED <<gatewaySide, store, snap>>

\* The effect of the hook: a new connection, from the last event id of any conversation,
\* and a snapshot unless one is on its way.
ShowPage(p) ==
  /\ ~hook.here
  /\ hook' = [hook EXCEPT !.here = TRUE]
  /\ link' = [up |-> TRUE, retry |-> "unset", pos |-> p]
  /\ snap' = IF snap.at = "none" THEN [snap EXCEPT !.at = "asked"] ELSE snap
  /\ UNCHANGED <<gatewaySide, store, clientOps>>
-----------------------------------------------------------------------------
\* The turn is new; the browser has it from send_next (mergeUserNode) or not at all.
ClientInit ==
  /\ srv = [ver |-> 1, status |-> "live", stage |-> "queued", nodes |-> <<>>, buf |-> <<>>,
            segment |-> {}, final |-> 0, log |-> <<>>]
  /\ spoken = [n |-> 0, answer |-> <<>>]
  /\ \E known \in BOOLEAN :
       store = [turn |-> IF known THEN "queued" ELSE "none", mark |-> IF known THEN 1 ELSE 0,
                nodes |-> <<>>, gaps |-> {}, finished |-> FALSE]
  /\ hook = [here |-> TRUE, loaded |-> FALSE, pend |-> <<>>, full |-> FALSE, timer |-> FALSE]
  /\ snap = [at |-> "asked", data |-> SnapshotOf(srv)]
  /\ link = [up |-> TRUE, retry |-> "unset", pos |-> 0]
  /\ clientOps = [marks |-> 0, faults |-> 0]

ClientNext ==
  \/ \E t \in Spoken : AgentSpeaks(t)
  \/ MessageStart \/ ToolCallStart \/ (\E n \in DOMAIN srv.nodes : ToolCallEnd(n))
  \/ (\E status \in {"done", "stopped"} : TurnEnds(status)) \/ FlushTick
  \/ Deliver \/ (\E p \in (link.pos + 1)..Len(srv.log) : EventsLost(p))
  \/ Disconnect \/ (\E p \in ReplayFrom : Reconnect(p))
  \/ TimerFires \/ SnapshotServed \/ SnapshotFails \/ SnapshotArrives
  \/ LeavePage \/ (\E p \in link.pos..Len(srv.log) : ShowPage(p))

ClientSpec == ClientInit /\ [][ClientNext]_clientVars
-----------------------------------------------------------------------------
\* Types of the gateway's turn and of the browser's copy.
ClientTypeOK ==
  /\ srv.status \in {"live", "done", "stopped"} /\ srv.segment \subseteq NodeTypes
  /\ \A n \in DOMAIN srv.nodes : srv.nodes[n].status \in {"streaming", "running", "done", "error"}
  /\ store.mark \in 0..srv.ver /\ store.gaps \subseteq {"session", "turn"}
  /\ DOMAIN store.nodes \subseteq DOMAIN srv.nodes
  /\ snap.at \in {"none", "asked", "served"} /\ link.pos \in 0..Len(srv.log)

\* Whatever is lost, repeated, fetched again or kept back, the chunks the browser shows of a
\* node are in the order in which the agent spoke them, and are chunks of that node.
TextInOrder ==
  \A n \in DOMAIN store.nodes :
    LET text == store.nodes[n].text
    IN /\ \A i, j \in DOMAIN text : i < j => text[i] <= text[j]
       /\ srv.status = "live" => ToSet(text) \subseteq ToSet(srv.nodes[n].text)

\* Once the browser has applied chat.done, and as long as it takes the turn for finished,
\* its final node has the gateway's text and nothing of the turn is shown as streaming.
FinishedIsAuthoritative ==
  store.finished =>
    /\ srv.final # 0 => NodeOf(store, srv.final).text = srv.nodes[srv.final].text
    /\ \A n \in DOMAIN store.nodes : store.nodes[n].status # "streaming"

\* Deviations of the code (see the README): each is violated.
\* No chunk is shown twice.
NothingDoubled == \A n \in DOMAIN store.nodes : IsInjective(store.nodes[n].text)
\* A turn shown as finished never streams again.
FinishedStaysFinished == [][store.finished => store'.finished]_clientVars
\* A gap of the page shown has a snapshot on its way.
GapIsAttended == hook.here /\ hook.loaded /\ store.gaps # {} => hook.timer \/ snap.at # "none"
\* The stored answer is the agent's answer.
FinalTextIsReply == srv.final # 0 => srv.nodes[srv.final].text = spoken.answer
=============================================================================
