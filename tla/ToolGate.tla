------------------------------ MODULE ToolGate -------------------------------
(* One batch of tool calls: validation, gate, approval, hooks and execution   *)
(* in the pool of the ToolRuntime (core/agent_runtime/tools.py,               *)
(* core/runtime/tool_runtime.py, core/security_gate.py, core/policy_engine.py,*)
(* core/hook/manager.py).  Calls that are parallel-safe run their whole chain *)
(* in the pool, the others run it in the thread of the loop and only the tool *)
(* itself in the pool.  The user may change the permission mode at any time.  *)
EXTENDS Naturals, Sequences, FiniteSets

CONSTANTS
  Calls,         \* the declared calls, in source order: 1..n
  Safe,          \* those whose tool is parallel_safe
  Blocked,       \* those whose tool is in _runtime_tool_blocklist
  Payloads,      \* arguments a call may have or a hook may put in their place
  Workers,       \* executor_max_workers
  L2,            \* whether the sandbox is active
  Modes,         \* permission modes the user may choose, the first one included
  MaxModeOps,    \* bound: changes of the mode
  SameModify     \* whether a hook may answer MODIFY with the arguments it was given

ASSUME BatchAssumption == Workers \in Nat \ {0} /\ \A p \in Payloads : p.caps \subseteq {"net", "exec", "mutate", "read", "pure"}

VARIABLES
  mode,          \* permission_mode
  call,          \* per call: where its chain is, arguments, verdict, outcome
  work,          \* per call: its future in the pool
  backlog,       \* futures that wait for a worker
  inflight,      \* _inflight_timeouts
  late,          \* calls given up whose future is not done
  next,          \* the call the loop is at
  modeOps

toolVars == <<mode, call, work, backlog, inflight, late, next, modeOps>>

LastCall == Cardinality(Calls)
Busy == {c \in Calls : work[c] = "running"}
Put(c, at) == call' = [call EXCEPT ![c].at = at]
-----------------------------------------------------------------------------
(* What the gate says                                                         *)

\* PolicyEngine.decide: the capabilities in this order
Decide(p, m) ==
  IF p.danger /\ "exec" \in p.caps THEN "deny"
  ELSE IF p.where = "system" /\ m # "unreviewed" THEN "ask"
  ELSE IF "net" \in p.caps THEN IF m \in {"allow", "unreviewed"} THEN "allow" ELSE "ask"
  ELSE IF {"exec", "mutate"} \cap p.caps # {}
  THEN CASE m = "readonly" -> "deny"
         [] m = "ask" -> "ask"
         [] m = "allow" /\ p.where = "outside" -> "ask"
         [] OTHER -> "allow"
  ELSE IF {"read", "pure"} \cap p.caps # {} THEN "allow"
  ELSE CASE m = "readonly" -> "deny" [] m = "ask" -> "ask" [] OTHER -> "allow"

\* SecurityGate.check behind Agent._gate_check
GateCheck(c, p) ==
  IF c \in Blocked \/ (L2 /\ p.danger) THEN "deny" ELSE Decide(p, mode)

\* HookManager._merge over what the hooks of an event said; a hook that raised said "continue".
Merged(said) ==
  IF "block" \in said THEN "block"
  ELSE IF "modify" \in said THEN "modify"
  ELSE IF "allow" \in said THEN "allow" ELSE "continue"

\* CommandHook.run: exit code 2 blocks, another failure or a time-out says nothing, 0 leaves it to the output.
Verdicts == {"continue", "allow", "modify", "block"}
CommandSays(exit, output) ==
  CASE exit = "two" -> "block" [] exit = "other" -> "continue" [] OTHER -> IF output \in Verdicts THEN output ELSE "continue"
HookResults == SUBSET {CommandSays(exit, output) : exit \in {"zero", "two", "other"}, output \in Verdicts \cup {"none"}}
-----------------------------------------------------------------------------
(* The chain of one call                                                      *)

\* _release_inflight_timeout, when the future is done
Release(c) == inflight' = (IF c \in late THEN inflight - 1 ELSE inflight) /\ late' = late \ {c}

\* The chain is over: its end event, and for a parallel call the future.
EndsWith(c, outcome) ==
  /\ call' = [call EXCEPT ![c].at = "over", ![c].outcome = outcome, ![c].ends = @ + 1,
                          ![c].told = IF c \in Safe THEN @ ELSE outcome]
  /\ IF c \in Safe
     THEN work' = [work EXCEPT ![c] = "done"] /\ Release(c)
     ELSE UNCHANGED <<work, inflight, late>>
  /\ next' = IF c \in Safe THEN next ELSE next + 1
  /\ UNCHANGED <<mode, backlog, modeOps>>

Chain(c, at) == Put(c, at) /\ UNCHANGED <<mode, work, backlog, inflight, late, next, modeOps>>

\* _dispatch_native_call up to the approval
Gate(c) ==
  /\ call[c].at = "gate"
  /\ LET level == GateCheck(c, call[c].args) IN
     IF ~call[c].args.valid \/ level = "deny" THEN EndsWith(c, "error")
     ELSE /\ call' = [call EXCEPT ![c].level = level, ![c].at = IF level = "ask" THEN "ask" ELSE "hook"]
          /\ UNCHANGED <<mode, work, backlog, inflight, late, next, modeOps>>

\* _approved: a notification hook may refuse, then the user is asked.
ApprovedCall(c, yes) ==
  /\ call[c].at \in {"ask", "askAgain"}
  /\ IF ~yes THEN EndsWith(c, "error")
     ELSE /\ call' = [call EXCEPT ![c].granted = @ \cup {call[c].args}, ![c].at = IF @ = "ask" THEN "hook" ELSE "execute"]
          /\ UNCHANGED <<mode, work, backlog, inflight, late, next, modeOps>>

\* A plausible slip: the verdict on the arguments before the hook is good enough.
FinalLevelMemo(c, p, modified) == call[c].level

\* The second gate of execute_authorized, skipped unless a hook changed the arguments
FinalLevel(c, p, modified) == IF modified THEN GateCheck(c, p) ELSE call[c].level

\* execute_authorized: run_pre_tool, validation and gate of the final arguments
PreTool(c, said, p) ==
  /\ call[c].at = "hook" /\ ("modify" \in said /\ p = call[c].args => SameModify)
  /\ LET modified == Merged(said) = "modify"
         args  == IF modified THEN p ELSE call[c].args
         level == FinalLevel(c, args, modified)
     IN IF Merged(said) = "block" \/ (modified /\ ~args.valid) \/ level = "deny" THEN EndsWith(c, "error")
        ELSE /\ call' = [call EXCEPT ![c].args = args, ![c].level = level,
                           ![c].at = IF level = "ask" /\ args # call[c].args THEN "askAgain" ELSE "execute"]
             /\ UNCHANGED <<mode, work, backlog, inflight, late, next, modeOps>>

\* _execute_with_timeout: in a thread of the pool the tool runs where it is; else it is refused when as many
\* tools as there are workers overran, or gets a future of its own.
Execute(c) ==
  /\ call[c].at = "execute"
  /\ IF c \in Safe THEN Chain(c, "run")
     ELSE IF inflight >= Workers
     THEN /\ call' = [call EXCEPT ![c].at = "post", ![c].outcome = "saturated"]
          /\ UNCHANGED <<mode, work, backlog, inflight, late, next, modeOps>>
     ELSE /\ Put(c, "wait")
          /\ work' = [work EXCEPT ![c] = "queued"] /\ backlog' = Append(backlog, c)
          /\ UNCHANGED <<mode, inflight, late, next, modeOps>>

\* A worker takes the next future: the chain of a parallel call, the tool of another.
Take ==
  /\ backlog # <<>> /\ Cardinality(Busy) < Workers
  /\ LET c == Head(backlog) IN
       /\ work' = [work EXCEPT ![c] = "running"]
       /\ IF c \in Safe THEN Put(c, "gate") ELSE UNCHANGED call
  /\ backlog' = Tail(backlog)
  /\ UNCHANGED <<mode, inflight, late, next, modeOps>>

\* The tool returns, raises (execute_arguments turns it into a result), or returns after all.
ToolReturns(c, ok) ==
  /\ IF c \in Safe THEN call[c].at = "run" ELSE work[c] = "running"
  /\ call' = IF call[c].at \in {"run", "wait"}
             THEN [call EXCEPT ![c].at = "post", ![c].outcome = IF ok THEN "ok" ELSE "error"] ELSE call
  /\ IF c \in Safe THEN UNCHANGED <<work, inflight, late>>
     ELSE work' = [work EXCEPT ![c] = "done"] /\ Release(c)
  /\ UNCHANGED <<mode, backlog, next, modeOps>>

\* The call is given up while its future goes on.
GiveUp(c) == inflight' = inflight + 1 /\ late' = late \cup {c}

Overruns(c) ==
  /\ call[c].at = "wait" /\ GiveUp(c)
  /\ call' = [call EXCEPT ![c].at = "post", ![c].outcome = "timeout"]
  /\ UNCHANGED <<mode, work, backlog, next, modeOps>>

\* run_post_tool may block the result or put another in its place.
PostTool(c, said) ==
  /\ call[c].at = "post"
  /\ \/ Merged(said) = "block" /\ EndsWith(c, "error")
     \/ Merged(said) = "modify" /\ \E outcome \in {"ok", "error"} : EndsWith(c, outcome)
     \/ Merged(said) \in {"continue", "allow"} /\ EndsWith(c, call[c].outcome)
-----------------------------------------------------------------------------
(* The batch                                                                  *)

\* The parallel-safe calls from c on without a gap
Segment(c) == {d \in Safe : c <= d /\ c..d \subseteq Safe}

StartSegment(c) ==
  /\ next = c /\ c \in Safe /\ work[c] = "none"
  /\ work' = [d \in Calls |-> IF d \in Segment(c) THEN "queued" ELSE work[d]]
  /\ backlog' = backlog \o [i \in 1..Cardinality(Segment(c)) |-> c + i - 1]
  /\ UNCHANGED <<mode, call, inflight, late, next, modeOps>>

StartSerial(c) == next = c /\ c \notin Safe /\ call[c].at = "todo" /\ Chain(c, "gate")

\* Results are collected in source order; a future that is late is left behind.
Collect(c) ==
  /\ next = c /\ c \in Safe /\ work[c] = "done"
  /\ call' = [call EXCEPT ![c].told = call[c].outcome] /\ next' = next + 1
  /\ UNCHANGED <<mode, work, backlog, inflight, late, modeOps>>

CollectTimeout(c) ==
  /\ next = c /\ c \in Safe /\ work[c] \in {"queued", "running"} /\ GiveUp(c)
  /\ call' = [call EXCEPT ![c].told = "timeout"] /\ next' = next + 1
  /\ UNCHANGED <<mode, work, backlog, modeOps>>

SetMode(m) ==
  /\ modeOps < MaxModeOps /\ m # mode /\ modeOps' = modeOps + 1 /\ mode' = m
  /\ UNCHANGED <<call, work, backlog, inflight, late, next>>

ToolInit ==
  /\ mode \in Modes /\ modeOps = 0 /\ next = 1
  /\ call \in [Calls -> [at : {"todo"}, args : Payloads, level : {"none"}, granted : {{}}, outcome : {"none"},
                         told : {"none"}, ends : {0}]]
  /\ work = [c \in Calls |-> "none"] /\ backlog = <<>> /\ inflight = 0 /\ late = {}

ToolNext ==
  \/ Take
  \/ \E c \in Calls :
       \/ Gate(c) \/ Execute(c) \/ Overruns(c) \/ StartSegment(c) \/ StartSerial(c) \/ Collect(c) \/ CollectTimeout(c)
       \/ \E yes \in BOOLEAN : ApprovedCall(c, yes) \/ ToolReturns(c, yes)
       \/ \E said \in HookResults : PostTool(c, said) \/ \E p \in Payloads : PreTool(c, said, p)
  \/ \E m \in Modes : SetMode(m)

ToolSpec == ToolInit /\ [][ToolNext]_toolVars
-----------------------------------------------------------------------------
\* Types of the calls and the pool.
ToolTypeOK ==
  /\ mode \in Modes /\ next \in 1..(LastCall + 1) /\ late \subseteq Calls
  /\ \A c \in Calls :
       /\ call[c].at \in {"todo", "gate", "ask", "hook", "askAgain", "execute", "run", "wait", "post", "over"}
       /\ call[c].args \in Payloads /\ call[c].granted \subseteq Payloads
       /\ work[c] \in {"none", "queued", "running", "done"}

\* What a tool runs with is valid, was not denied, and was granted by the user when the gate asked: the arguments
\* the hooks left, not those the model sent.
RunsAsDecided ==
  \A c \in Calls : call[c].at \in {"execute", "run", "wait"} =>
    /\ call[c].args.valid /\ c \notin Blocked /\ ~(call[c].args.danger /\ "exec" \in call[c].args.caps)
    /\ call[c].level = "ask" => call[c].args \in call[c].granted
    /\ call[c].level = "allow" => \E m \in Modes : Decide(call[c].args, m) = "allow"

\* Every declared call has its result when the loop goes on, in source order, and one end event.
BatchAnswered ==
  \A c \in Calls :
    /\ c < next <=> call[c].told # "none"
    /\ call[c].ends = IF call[c].at = "over" THEN 1 ELSE 0

\* The counter of overruns is that of the futures left behind, and a call is refused only when no worker is free.
SaturationIsReal ==
  /\ inflight = Cardinality(late) /\ \A c \in late : work[c] \in {"queued", "running"}
  /\ inflight >= Workers => Cardinality(Busy) = Workers \/ backlog # <<>>
=============================================================================
