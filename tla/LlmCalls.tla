------------------------------- MODULE LlmCalls -------------------------------
(* The calls of one model client (core/llm_client.py, core/protocols/): the    *)
(* agent's turn asks with retries and forwards the events of the stream, the   *)
(* compressor asks on a thread of its own, and both leave the usage of their   *)
(* call in the fields that the agent then takes its context anchor from.       *)
EXTENDS Naturals, Sequences

CONSTANTS
  Adapters,       \* the protocol adapters
  SqueezeOverlaps, \* whether the compressor's thread may ask during a call of the turn
  StreamsReport,  \* whether the server reports the usage of a stream
  MaxRetries,     \* _MAX_RETRIES
  MaxCalls,       \* bound: calls of the turn, and of the compressor
  MaxEvents       \* bound: events of one call

VARIABLES
  adapter,        \* the adapter and whether native_tool_streaming is on
  turnCall,       \* the call of the turn
  squeeze,        \* the call of the compressor
  adapterUsage,   \* ProtocolAdapter.last_usage: the call it is of
  llmUsage,       \* JKAgentLLM.last_usage: the call it is of
  usageAnchor     \* the store's anchor: the call that set it, and the call it is of

llmVars == <<adapter, turnCall, squeeze, adapterUsage, llmUsage, usageAnchor>>

ASSUME LlmAssumption == MaxRetries \in Nat \ {0} /\ SqueezeOverlaps \in BOOLEAN

NoUsage == <<"none", 0>>
OfTurn == <<"turn", turnCall.n>>
OfSqueeze == <<"squeeze", squeeze.n>>
NoCall == [at |-> "idle", n |-> 0, attempt |-> 0, sent |-> <<>>]
Calling(c) == c.at # "idle"
-----------------------------------------------------------------------------
\* What an adapter leaves in last_usage at the end of a stream.  The OpenAI adapter sets
\* it when a chunk carries usage and leaves it alone otherwise; it asks a second time
\* without stream_options when the server refuses them.
OpenAIStream(own) == IF StreamsReport THEN {own} ELSE {own, adapterUsage}
AnthropicStream(own) == IF StreamsReport THEN {own} ELSE {own, NoUsage}
GeminiStream(own) == IF StreamsReport THEN {own} ELSE {own, NoUsage}
StreamUsage(own) == CASE adapter.kind = "openai" -> OpenAIStream(own)
                      [] adapter.kind = "anthropic" -> AnthropicStream(own)
                      [] OTHER -> GeminiStream(own)

\* An exception is worth another attempt: a network failure, 429 or 5xx.
IsRetryable(error) == error = "network"

\* The agent asks for the next turn (ProviderTurnAdapter.complete).
TurnAsks ==
  /\ ~Calling(turnCall) /\ turnCall.n < MaxCalls
  /\ SqueezeOverlaps \/ ~Calling(squeeze)
  /\ turnCall' = [at |-> "asks", n |-> turnCall.n + 1, attempt |-> 1, sent |-> <<>>]
  /\ UNCHANGED <<adapter, squeeze, adapterUsage, llmUsage, usageAnchor>>

\* stream_with_tools hands an event to on_event; sent keeps the attempt it came from.
EventForwarded ==
  /\ turnCall.at = "asks" /\ adapter.streams /\ Len(turnCall.sent) < MaxEvents
  /\ turnCall' = [turnCall EXCEPT !.sent = Append(@, turnCall.attempt)]
  /\ UNCHANGED <<adapter, squeeze, adapterUsage, llmUsage, usageAnchor>>

\* The stream ends: the adapter has set its usage, and the client is about to read it.
StreamEnds ==
  /\ turnCall.at = "asks" /\ adapter.streams
  /\ adapterUsage' \in StreamUsage(OfTurn)
  /\ turnCall' = [turnCall EXCEPT !.at = "ended"]
  /\ UNCHANGED <<adapter, squeeze, llmUsage, usageAnchor>>

\* The response takes the usage from the adapter's field.
StreamReturns ==
  /\ turnCall.at = "ended"
  /\ llmUsage' = adapterUsage
  /\ turnCall' = [turnCall EXCEPT !.at = "answered"]
  /\ UNCHANGED <<adapter, squeeze, adapterUsage, usageAnchor>>

\* complete: the response carries its own usage; the events are made of the response.
CompleteReturns ==
  /\ turnCall.at = "asks" /\ ~adapter.streams
  /\ adapterUsage' = OfTurn /\ llmUsage' = OfTurn
  /\ turnCall' = [turnCall EXCEPT !.at = "answered", !.sent = <<turnCall.attempt>>]
  /\ UNCHANGED <<adapter, squeeze, usageAnchor>>

\* A plausible slip: the last attempt is followed by one more.
TurnFailsOnceMore(error) ==
  /\ turnCall.at = "asks"
  /\ IF turnCall.sent # <<>> \/ ~IsRetryable(error) \/ turnCall.attempt > MaxRetries
     THEN turnCall' = [NoCall EXCEPT !.n = turnCall.n]
     ELSE turnCall' = [turnCall EXCEPT !.at = "sleeps"]
  /\ UNCHANGED <<adapter, squeeze, adapterUsage, llmUsage, usageAnchor>>
\* A plausible slip: forwarded_any is not looked at.
TurnFailsAgain(error) ==
  /\ turnCall.at = "asks"
  /\ IF ~IsRetryable(error) \/ turnCall.attempt >= MaxRetries
     THEN turnCall' = [NoCall EXCEPT !.n = turnCall.n]
     ELSE turnCall' = [turnCall EXCEPT !.at = "sleeps"]
  /\ UNCHANGED <<adapter, squeeze, adapterUsage, llmUsage, usageAnchor>>
\* The attempt fails: nothing is repeated once an event was forwarded.
TurnFails(error) ==
  /\ turnCall.at = "asks"
  /\ IF turnCall.sent # <<>> \/ ~IsRetryable(error) \/ turnCall.attempt >= MaxRetries
     THEN turnCall' = [NoCall EXCEPT !.n = turnCall.n]
     ELSE turnCall' = [turnCall EXCEPT !.at = "sleeps"]
  /\ UNCHANGED <<adapter, squeeze, adapterUsage, llmUsage, usageAnchor>>

\* The delay of _retry_delay passes.
TurnRetries ==
  /\ turnCall.at = "sleeps"
  /\ turnCall' = [turnCall EXCEPT !.at = "asks", !.attempt = @ + 1]
  /\ UNCHANGED <<adapter, squeeze, adapterUsage, llmUsage, usageAnchor>>

\* A plausible slip: the anchor is set before the usage of the response is stored.
TurnAnchorsEarly ==
  /\ turnCall.at \in {"ended", "answered"}
  /\ usageAnchor' = IF llmUsage = NoUsage THEN usageAnchor ELSE [by |-> OfTurn, of |-> llmUsage]
  /\ turnCall' = [NoCall EXCEPT !.n = turnCall.n]
  /\ UNCHANGED <<adapter, squeeze, adapterUsage, llmUsage>>
\* The agent sets the anchor from the client's field; an empty usage changes nothing.
TurnAnchors ==
  /\ turnCall.at = "answered"
  /\ usageAnchor' = IF llmUsage = NoUsage THEN usageAnchor ELSE [by |-> OfTurn, of |-> llmUsage]
  /\ turnCall' = [NoCall EXCEPT !.n = turnCall.n]
  /\ UNCHANGED <<adapter, squeeze, adapterUsage, llmUsage>>
-----------------------------------------------------------------------------
\* think of the compressor, never a stream: it clears the client's field first.
SqueezeAsks ==
  /\ ~Calling(squeeze) /\ squeeze.n < MaxCalls
  /\ SqueezeOverlaps \/ ~Calling(turnCall)
  /\ llmUsage' = NoUsage
  /\ squeeze' = [at |-> "asks", n |-> squeeze.n + 1, attempt |-> 1, sent |-> <<>>]
  /\ UNCHANGED <<adapter, turnCall, adapterUsage, usageAnchor>>

\* generate of the adapter returns: the adapter's field is set before the client's.
SqueezeAnswered ==
  /\ squeeze.at = "asks"
  /\ adapterUsage' = OfSqueeze
  /\ squeeze' = [squeeze EXCEPT !.at = "ended"]
  /\ UNCHANGED <<adapter, turnCall, llmUsage, usageAnchor>>
SqueezeReturns ==
  /\ squeeze.at = "ended"
  /\ llmUsage' = OfSqueeze
  /\ squeeze' = [NoCall EXCEPT !.n = squeeze.n]
  /\ UNCHANGED <<adapter, turnCall, adapterUsage, usageAnchor>>

SqueezeFails(error) ==
  /\ squeeze.at = "asks"
  /\ squeeze' = IF ~IsRetryable(error) \/ squeeze.attempt >= MaxRetries
                THEN [NoCall EXCEPT !.n = squeeze.n]
                ELSE [squeeze EXCEPT !.attempt = @ + 1]
  /\ UNCHANGED <<adapter, turnCall, adapterUsage, llmUsage, usageAnchor>>

LlmInit ==
  /\ adapter \in [kind : Adapters, streams : BOOLEAN]
  /\ turnCall = NoCall /\ squeeze = NoCall
  /\ adapterUsage = NoUsage /\ llmUsage = NoUsage
  /\ usageAnchor = [by |-> NoUsage, of |-> NoUsage]
LlmNext ==
  \/ TurnAsks \/ EventForwarded \/ StreamEnds \/ StreamReturns \/ CompleteReturns
  \/ TurnRetries \/ TurnAnchors \/ SqueezeAsks \/ SqueezeAnswered \/ SqueezeReturns
  \/ \E error \in {"network", "refused"} : TurnFails(error) \/ SqueezeFails(error)
LlmSpec == LlmInit /\ [][LlmNext]_llmVars
-----------------------------------------------------------------------------
\* Types.
LlmTypeOK ==
  /\ turnCall.at \in {"idle", "asks", "sleeps", "ended", "answered"}
  /\ squeeze.at \in {"idle", "asks", "ended"}
  /\ turnCall.attempt \in 0 .. MaxRetries /\ squeeze.attempt \in 0 .. MaxRetries
  /\ {adapterUsage, llmUsage, usageAnchor.by, usageAnchor.of}
       \subseteq {NoUsage} \cup ({"turn", "squeeze"} \X (1 .. MaxCalls))

\* What the page shows of one call comes from one attempt: a retry never repeats what was
\* already forwarded (the comments of stream_with_tools and think).
ForwardedOnce == \A i, j \in 1 .. Len(turnCall.sent) : turnCall.sent[i] = turnCall.sent[j]

\* The anchor that decides about compression and truncation is the usage of the call that
\* set it, not the one the compressor left in the shared fields.
AnchorIsOwn == usageAnchor.of = usageAnchor.by
=============================================================================
