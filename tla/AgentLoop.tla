------------------------------ MODULE AgentLoop ------------------------------
(* One agent: the model/tool loop (AgentLoop of core/agent_runtime/loop.py   *)
(* around Agent._run_native_loop of agent.py), its transcript (MessageStore) *)
(* and the compression of the transcript (core/compressor.py), which runs in *)
(* a thread of its own between the turns.  Every message counts as one token,*)
(* a tool result that was replaced by a stub as none.  An action is what a   *)
(* thread does between two calls that take time (model, tools, summary).     *)
EXTENDS Naturals, Sequences, FiniteSets, FiniteSetsExt

CONSTANTS
  MaxSaid,     \* bound: messages ever appended, the system prompt not counted
  MaxRuns,     \* bound: runs
  MaxLoopOps,  \* bound: stops, cancels, clears, compactions and model switches
  MaxBatch,    \* bound: tool calls of one model answer
  CallLimit,   \* max_tool_calls
  Budget,      \* max_history_tokens, the budget of the transcript
  TailKept,    \* tail_n of the compressor
  KeepRecent,  \* LIGHT_KEEP_RECENT_RESULTS
  Compressors, \* bound: names for compression threads alive at the same time
  Overlap,     \* whether a summary may be committed after the transcript it was made from changed
  LateCancels  \* whether a task may be cancelled during a model call

VARIABLES
  messages,    \* the transcript
  anchor,      \* _anchor_total and _anchor_msg_count
  run,         \* where the run is; its request size, tool calls, batch and agent_end events
  ctl,         \* _stop_requested, the token, _compression_pending, cooldown, _pending_llm_config
  comp,        \* per compression thread: where, which kind, tail and what it summarises
  said,        \* number of messages appended so far: the identity of the next
  evicted,     \* messages dropped on purpose: truncated or cleared
  read,        \* tool results the model was sent in full
  loopOps, runs \* the bounded counters

loopVars == <<messages, anchor, run, ctl, comp, said, evicted, read, loopOps, runs>>

LoopAssumption ==
  /\ {MaxSaid, MaxRuns, MaxLoopOps, CallLimit, KeepRecent} \subseteq Nat
  /\ {MaxBatch, Budget, TailKept} \subseteq Nat \ {0}
  /\ {Overlap, LateCancels} \subseteq BOOLEAN

ASSUME LoopAssumption

\* ids: the calls of an assistant message, the messages behind a summary
Message(kind, id, ids) == [kind |-> kind, id |-> id, ids |-> ids, full |-> TRUE]
System == Message("system", 0, {})
IsAssistant(m) == m.kind \in {"calls", "final"}
Idle == [at |-> "idle", size |-> 0, calls |-> 0, batch |-> {}, ends |-> 0]
NoComp == [at |-> "off", how |-> "full", tail |-> <<>>, ids |-> {}, base |-> {}]
NoAnchor == [total |-> 0, count |-> 0]
Said(ms) == {ms[i].id : i \in DOMAIN ms} \cup
            UNION {ms[i].ids : i \in {j \in DOMAIN ms : ms[j].kind = "summary"}}
-----------------------------------------------------------------------------
(* MessageStore and Compressor: pure functions of the transcript             *)

\* _estimate_all_tokens
Estimate(ms) == Cardinality({i \in DOMAIN ms : ms[i].full})

\* live_tokens: what the provider counted, and an estimate of what came after
LiveTokens(ms, a) ==
  IF a = NoAnchor THEN Estimate(ms)
  ELSE a.total + (IF a.count >= Len(ms) THEN 0
                  ELSE Estimate(SubSeq(ms, a.count + 1, Len(ms))))

\* AgentContext.llm_messages, first pass: the last message before i that is no
\* tool result declares the call of a result that is kept, and none came before.
IsOrphan(ms, i) ==
  /\ ms[i].kind = "result"
  /\ LET heads == {j \in 1 .. i - 1 : ms[j].kind # "result"}
         j == IF heads = {} THEN 0 ELSE Max(heads)
     IN j = 0 \/ ms[i].id \notin ms[j].ids \/ ms[j].kind # "calls"
        \/ \E k \in j + 1 .. i - 1 : ms[k].id = ms[i].id

\* AgentContext.llm_messages, second pass: the calls nobody answered
Unanswered(ms) ==
  {c \in UNION {ms[i].ids : i \in {j \in DOMAIN ms : ms[j].kind = "calls"}} :
     ~\E i \in DOMAIN ms : ms[i].id = c /\ ~IsOrphan(ms, i)}

\* The request has no orphan and a made-up result for every call without one.
RequestSize(ms) ==
  Cardinality({i \in DOMAIN ms : ms[i].full /\ ~IsOrphan(ms, i)}) + Cardinality(Unanswered(ms))

\* light_compress_tool_results under tool_compress_needed (60% of the budget):
\* results an assistant message follows become stubs, except the most recent.
\* A plausible slip: what the model has not seen yet is compressed as well.
LightCompressAll(ms, a) ==
  IF 10 * LiveTokens(ms, a) < 6 * Budget THEN ms
  ELSE [i \in DOMAIN ms |-> [ms[i] EXCEPT !.full = @ /\ ms[i].kind # "result"]]
LightCompress(ms, a) ==
  LET consumed == {i \in DOMAIN ms : ms[i].kind = "result" /\ ms[i].full
                     /\ \E j \in i + 1 .. Len(ms) : IsAssistant(ms[j])}
      old == {i \in consumed : Cardinality({j \in consumed : j >= i}) > KeepRecent}
  IN IF 10 * LiveTokens(ms, a) < 6 * Budget THEN ms
     ELSE [i \in DOMAIN ms |-> [ms[i] EXCEPT !.full = @ /\ i \notin old]]

\* The places where eviction may stop: never between calls and their results.
\* A plausible slip: anywhere.
CutsAnywhere(ms) == 1 .. Len(ms)
Cuts(ms) ==
  {c \in 1 .. Len(ms) :
     c > 1 /\ c < Len(ms) =>
       ~(ms[c + 1].kind = "result" /\ ms[c].kind \in {"calls", "result"})}

\* _truncate_history: above 95% the oldest messages go until the estimate fits
\* or three messages are left; the system prompt stays.
TruncateAt(ms, a) ==
  IF Len(ms) <= 3 \/ 100 * LiveTokens(ms, a) <= 95 * Budget THEN 1
  ELSE Min({c \in Cuts(ms) :
              \/ 1 + Len(ms) - c <= 3
              \/ Estimate(<<ms[1]>> \o SubSeq(ms, c + 1, Len(ms))) <= Budget})

\* find_safe_tail_boundary: the first message of the tail that is kept verbatim
TailFrom(ms) ==
  LET f == Len(ms) - TailKept + 1
      heads == {j \in 1 .. f - 1 : ms[j].kind # "result"}
      g == IF heads = {} THEN 0 ELSE Max(heads)
  IN IF Len(ms) <= TailKept + 1 THEN 1
     ELSE IF ms[f].kind # "result" THEN f
     ELSE IF g > 0 /\ IsAssistant(ms[g]) THEN g ELSE g + 1

\* A plausible slip: the old summary is not part of what the new one stands for.
CompressPlanFresh(ms) ==
  LET old == {i \in DOMAIN ms : ms[i].kind = "summary"}
      from == IF old = {} THEN 1 ELSE Min(old) + 1
      t == TailFrom(SubSeq(ms, from, Len(ms)))
  IN IF Len(ms) < 4 \/ t <= 1 THEN NoComp
     ELSE [at |-> "summary", how |-> "full", tail |-> SubSeq(ms, from + t - 1, Len(ms)),
           ids |-> Said(SubSeq(ms, from, from + t - 2)) \ {0}, base |-> Said(ms)]
\* incremental_compress up to the call of the model: with a summary in the
\* transcript only what follows it, without one full_compress.
CompressPlan(ms) ==
  LET old == {i \in DOMAIN ms : ms[i].kind = "summary"}
      from == IF old = {} THEN 1 ELSE Min(old) + 1
      segment == SubSeq(ms, from, Len(ms))
      t == TailFrom(segment)
      how == IF old = {} THEN "full" ELSE "incremental"
  IN IF Len(ms) < 4 \/ (old # {} /\ Len(segment) < 2) \/ t <= 1 THEN NoComp
     ELSE [at |-> "summary", how |-> how, tail |-> SubSeq(segment, t, Len(segment)),
           ids |-> Said(SubSeq(ms, 1, from + t - 2)) \ {0}, base |-> Said(ms)]
-----------------------------------------------------------------------------
(* The run                                                                   *)

At(where) == run.at = where

\* _check_context: truncate above 95%, ask for a compression above 80%.
CheckContext(ms, a, c) ==
  LET cut == TruncateAt(ms, a)
      rest == <<ms[1]>> \o SubSeq(ms, cut + 1, Len(ms))
      after == IF cut > 1 THEN NoAnchor ELSE a
  IN [ms |-> rest, anchor |-> after, gone |-> Said(SubSeq(ms, 2, cut)),
      ctl |-> [c EXCEPT !.compress =
                 @ \/ (10 * LiveTokens(rest, after) >= 8 * Budget /\ ~c.cooling)]]

\* The end of _run_guarded and of run(): the markers are cleared, a pending model
\* switch resets the anchor, and a compression that was asked for is started.
EndRun(ms, a, c, ends) ==
  /\ run' = [Idle EXCEPT !.ends = ends]
  /\ messages' = ms
  /\ anchor' = IF c.switch THEN NoAnchor ELSE a
  /\ ctl' = [c EXCEPT !.switch = FALSE, !.compress = FALSE]
  /\ IF ~c.compress THEN UNCHANGED comp
     ELSE \E k \in Compressors :
            comp[k].at = "off" /\ comp' = [comp EXCEPT ![k].at = "begin"]

\* run(), up to the first step.  A cancelled token raises in _light_compress; a
\* hook may block the prompt.  The token belongs to the run.
BeginRun(cancelled, blocked) ==
  /\ At("idle") /\ runs < MaxRuns /\ said < MaxSaid
  /\ runs' = runs + 1
  /\ LET a == IF ctl.switch THEN NoAnchor ELSE anchor
         start == IF messages = <<>> THEN <<System>> ELSE messages
         c == [ctl EXCEPT !.switch = FALSE, !.cancelled = cancelled]
         checked == CheckContext(LightCompress(start, a), a, c)
         asked == Append(checked.ms, Message("user", said + 1, {}))
         final == CheckContext(asked, checked.anchor, checked.ctl)
     IN \/ /\ cancelled
           /\ EndRun(start, a, c, 1)
           /\ UNCHANGED <<said, evicted>>
        \/ /\ ~cancelled /\ blocked
           /\ EndRun(checked.ms, checked.anchor, checked.ctl, 1)
           /\ evicted' = evicted \cup checked.gone
           /\ UNCHANGED said
        \/ /\ ~cancelled /\ ~blocked
           /\ said' = said + 1
           /\ messages' = final.ms /\ anchor' = final.anchor /\ ctl' = checked.ctl
           /\ evicted' = evicted \cup checked.gone \cup final.gone
           /\ run' = [Idle EXCEPT !.at = "step"]
           /\ UNCHANGED comp
  /\ UNCHANGED <<read, loopOps>>

\* next_turn and _consume_stop: the run ends at the next step.
StepStops ==
  /\ At("step") /\ (ctl.cancelled \/ ctl.stop)
  /\ EndRun(messages, anchor, IF ctl.cancelled THEN ctl ELSE [ctl EXCEPT !.stop = FALSE], 1)
  /\ UNCHANGED <<said, evicted, read, loopOps, runs>>

\* The context is checked and truncated, and the model is asked.
StepAsks ==
  /\ At("step") /\ ~ctl.cancelled /\ ~ctl.stop
  /\ LET checked == CheckContext(messages, anchor, ctl)
     IN /\ messages' = checked.ms /\ anchor' = checked.anchor /\ ctl' = checked.ctl
        /\ evicted' = evicted \cup checked.gone
        /\ run' = [run EXCEPT !.at = "model", !.size = RequestSize(checked.ms)]
        /\ read' = read \cup {checked.ms[i].id : i \in {j \in DOMAIN checked.ms :
                     checked.ms[j].kind = "result" /\ checked.ms[j].full
                     /\ ~IsOrphan(checked.ms, j)}}
  /\ UNCHANGED <<comp, said, loopOps, runs>>

\* The model call raises.
ModelFails ==
  /\ At("model")
  /\ EndRun(messages, anchor, ctl, 1)
  /\ UNCHANGED <<said, evicted, read, loopOps, runs>>

\* set_anchor: what the request measured, and how long the transcript is now
Anchored(ms) == [total |-> run.size, count |-> Len(ms)]

\* The final answer: agent_end, then _light_compress, in which a token cancelled
\* meanwhile raises, and the run is closed a second time.
ModelAnswers ==
  /\ At("model") /\ said < MaxSaid
  /\ LET ms == Append(messages, Message("final", said + 1, {}))
         a == Anchored(messages)
     IN EndRun(IF ctl.cancelled THEN ms ELSE LightCompress(ms, a), a, ctl,
               IF ctl.cancelled THEN 2 ELSE 1)
  /\ said' = said + 1
  /\ UNCHANGED <<evicted, read, loopOps, runs>>

\* The model calls n tools.
ModelCalls(n) ==
  /\ At("model") /\ said + n + 1 <= MaxSaid
  /\ messages' = Append(messages, Message("calls", said + 1, said + 2 .. said + n + 1))
  /\ anchor' = Anchored(messages)
  /\ said' = said + n + 1
  /\ run' = [run EXCEPT !.at = "tools", !.calls = n + @,
                            !.batch = said + 2 .. said + n + 1]
  /\ UNCHANGED <<ctl, comp, evicted, read, loopOps, runs>>

\* The batch returns with one result per call, in the order of the calls; the
\* limit of tool calls and a cancelled token end the run after that.
ToolsReturn ==
  /\ At("tools")
  /\ LET first == Min(run.batch)
         ms == messages \o [i \in 1 .. Cardinality(run.batch) |-> Message("result", first + i - 1, {})]
     IN IF run.calls > CallLimit \/ ctl.cancelled
        THEN EndRun(ms, anchor, ctl, 1)
        ELSE /\ messages' = LightCompress(ms, anchor)
             /\ run' = [run EXCEPT !.at = "step", !.batch = {}]
             /\ UNCHANGED <<anchor, ctl, comp>>
  /\ UNCHANGED <<said, evicted, read, loopOps, runs>>
-----------------------------------------------------------------------------
(* The compression thread                                                    *)

\* The thread reads the transcript; with too little in it it gives up, which
\* starts the cooldown like every failure.
CompressBegins(k) ==
  /\ comp[k].at = "begin"
  /\ comp' = [comp EXCEPT ![k] = CompressPlan(messages)]
  /\ ctl' = IF comp'[k].at = "off" THEN [ctl EXCEPT !.cooling = TRUE] ELSE ctl
  /\ UNCHANGED <<messages, anchor, run, said, evicted, read, loopOps, runs>>

\* The summary fails or is empty.
SummaryFails(k) ==
  /\ comp[k].at = "summary"
  /\ comp' = [comp EXCEPT ![k] = NoComp]
  /\ ctl' = [ctl EXCEPT !.cooling = TRUE]
  /\ UNCHANGED <<messages, anchor, run, said, evicted, read, loopOps, runs>>

\* _compression_commit_guard: a run in progress asks for another compression.
GuardRefuses(k) ==
  /\ comp[k].at = "summary" /\ comp[k].how = "incremental" /\ ~At("idle")
  /\ comp' = [comp EXCEPT ![k] = NoComp]
  /\ ctl' = [ctl EXCEPT !.cooling = TRUE, !.compress = TRUE]
  /\ UNCHANGED <<messages, anchor, run, said, evicted, read, loopOps, runs>>

\* The transcript is replaced by the system prompt, the summary and the tail read
\* before the model was asked; only incremental_compress has the guard.
Commit(k) ==
  /\ comp[k].at = "summary"
  /\ comp[k].how = "incremental" => At("idle")
  /\ messages # <<>>
  /\ Overlap \/ Said(messages) = comp[k].base
  /\ messages' = <<messages[1], Message("summary", 0, comp[k].ids)>> \o comp[k].tail
  /\ anchor' = NoAnchor
  /\ comp' = [comp EXCEPT ![k] = NoComp]
  /\ UNCHANGED <<run, ctl, said, evicted, read, loopOps, runs>>

\* Sixty seconds after a failure
CooldownEnds ==
  /\ ctl.cooling
  /\ ctl' = [ctl EXCEPT !.cooling = FALSE]
  /\ UNCHANGED <<messages, anchor, run, comp, said, evicted, read, loopOps, runs>>
-----------------------------------------------------------------------------
(* Users and the task runtime                                                *)

LoopOp == loopOps < MaxLoopOps /\ loopOps' = loopOps + 1

\* request_stop, whether a run is in progress or not
RequestStop ==
  /\ LoopOp /\ ~ctl.stop
  /\ ctl' = [ctl EXCEPT !.stop = TRUE]
  /\ UNCHANGED <<messages, anchor, run, comp, said, evicted, read, runs>>

\* The task of the run is cancelled.
CancelToken ==
  /\ LoopOp /\ ~At("idle") /\ ~ctl.cancelled
  /\ LateCancels \/ ~At("model")
  /\ ctl' = [ctl EXCEPT !.cancelled = TRUE]
  /\ UNCHANGED <<messages, anchor, run, comp, said, evicted, read, runs>>

\* clear_history, which its callers refuse while the conversation runs
ClearHistory ==
  /\ LoopOp /\ At("idle")
  /\ messages' = <<>> /\ anchor' = NoAnchor
  /\ evicted' = evicted \cup Said(messages)
  /\ UNCHANGED <<run, ctl, comp, said, read, runs>>

\* /compact: _full_compress in a thread of the pool, outside any run
Compact(k) ==
  /\ LoopOp /\ At("idle") /\ comp[k].at = "off"
  /\ Len(messages) >= 4 /\ TailFrom(messages) > 1
  /\ LET t == TailFrom(messages)
     IN comp' = [comp EXCEPT ![k] =
          [at |-> "summary", how |-> "full", tail |-> SubSeq(messages, t, Len(messages)),
           ids |-> Said(SubSeq(messages, 1, t - 1)) \ {0}, base |-> Said(messages)]]
  /\ UNCHANGED <<messages, anchor, run, ctl, said, evicted, read, runs>>

\* switch_llm: at once, or after the run in progress
SwitchModel ==
  /\ LoopOp
  /\ IF At("idle") THEN anchor' = NoAnchor /\ UNCHANGED ctl
     ELSE ctl' = [ctl EXCEPT !.switch = TRUE] /\ UNCHANGED anchor
  /\ UNCHANGED <<messages, run, comp, said, evicted, read, runs>>

LoopInit ==
  /\ messages = <<>> /\ anchor = NoAnchor /\ run = Idle
  /\ ctl = [stop |-> FALSE, cancelled |-> FALSE, compress |-> FALSE, cooling |-> FALSE, switch |-> FALSE]
  /\ comp = [k \in Compressors |-> NoComp]
  /\ said = 0 /\ evicted = {} /\ read = {} /\ loopOps = 0 /\ runs = 0

LoopNext ==
  \/ \E cancelled, blocked \in BOOLEAN : BeginRun(cancelled, blocked)
  \/ StepStops \/ StepAsks \/ ModelFails \/ ModelAnswers \/ ToolsReturn
  \/ \E n \in 1 .. MaxBatch : ModelCalls(n)
  \/ \E k \in Compressors :
       CompressBegins(k) \/ SummaryFails(k) \/ GuardRefuses(k) \/ Commit(k) \/ Compact(k)
  \/ CooldownEnds \/ RequestStop \/ CancelToken \/ ClearHistory \/ SwitchModel

LoopSpec == LoopInit /\ [][LoopNext]_loopVars
-----------------------------------------------------------------------------
(* Properties                                                                *)

\* The variables have their types.
LoopTypeOK ==
  /\ \A i \in DOMAIN messages :
       /\ messages[i].kind \in {"system", "user", "calls", "result", "final", "summary"}
       /\ messages[i].id \in 0 .. MaxSaid /\ messages[i].ids \subseteq 1 .. MaxSaid
       /\ messages[i].full \in BOOLEAN
  /\ anchor \in [total : 0 .. 2 * MaxSaid, count : 0 .. MaxSaid + 2]
  /\ run.at \in {"idle", "step", "model", "tools"}
  /\ \A k \in Compressors : comp[k].at \in {"off", "begin", "summary"}
  /\ evicted \cup read \subseteq 0 .. MaxSaid

\* Outside a batch of tools the transcript holds every call with its results
\* right behind it and no result without its call, whatever was truncated,
\* summarised, stopped or cancelled: the repair in llm_messages has nothing to do.
TranscriptPaired ==
  ~At("tools") => Unanswered(messages) = {} /\ ~\E i \in DOMAIN messages : IsOrphan(messages, i)

\* Nothing anybody said disappears from the model's view: it is in the transcript,
\* behind the summary in it, or was dropped on purpose.
LosesNothing ==
  (1 .. said) \ run.batch \subseteq Said(messages) \cup evicted

\* The model was sent every tool result in full before it was made a stub.
StubsWereRead ==
  \A i \in DOMAIN messages : ~messages[i].full => messages[i].id \in read

\* A run ends with one agent_end event.
OneAgentEnd == run.ends <= 1
=============================================================================
