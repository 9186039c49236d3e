------------------------------- MODULE MCAgent -------------------------------
(* What one agent consists of, for TLC: its loop and transcript, its calls of the *)
(* model, its tools with their gate, MCP servers, processes, commands and files,  *)
(* and its memory.  The modules share no variable, so a behaviour of all of them  *)
(* is an interleaving of behaviours of each one.  A behaviour of this module      *)
(* picks one part and lets it alone move, which reaches every state of that part. *)
EXTENDS AgentLoop, LlmCalls, ToolGate, Mcp, McpServers, Processes, Commands, Memory, FileTools

VARIABLE part   \* the part that moves

agentVars == <<part, loopVars, llmVars, toolVars, mcpVars, serverVars, procVars, cmdVars, memVars, fileVars>>

\* What a call may ask for: to read, to execute in the sandbox, or something dangerous
\* outside of it with arguments the tool refuses.
Harmless == [caps |-> {"read"}, where |-> "inside", danger |-> FALSE, valid |-> TRUE]
PayloadSet == {Harmless,
               [caps |-> {"exec"}, where |-> "inside", danger |-> FALSE, valid |-> TRUE],
               [caps |-> {"exec"}, where |-> "outside", danger |-> TRUE, valid |-> FALSE]}
-----------------------------------------------------------------------------
\* Everything but part p stays.
Rest(p) ==
  /\ UNCHANGED part
  /\ IF p = "loop" THEN TRUE ELSE UNCHANGED loopVars
  /\ IF p = "llm" THEN TRUE ELSE UNCHANGED llmVars
  /\ IF p = "tools" THEN TRUE ELSE UNCHANGED toolVars
  /\ IF p = "mcp" THEN TRUE ELSE UNCHANGED mcpVars
  /\ IF p = "servers" THEN TRUE ELSE UNCHANGED serverVars
  /\ IF p = "processes" THEN TRUE ELSE UNCHANGED procVars
  /\ IF p = "commands" THEN TRUE ELSE UNCHANGED cmdVars
  /\ IF p = "memory" THEN TRUE ELSE UNCHANGED memVars
  /\ IF p = "files" THEN TRUE ELSE UNCHANGED fileVars

\* A part that does not move has one of its initial states.
Init ==
  /\ part \in {"loop", "llm", "tools", "mcp", "servers", "processes", "commands", "memory", "files"}
  /\ LoopInit /\ LlmInit /\ ToolInit /\ McpInit /\ ServersInit /\ ProcInit /\ CmdInit /\ MemInit /\ FileInit
  /\ part = "llm" \/ adapter = [kind |-> "openai", streams |-> TRUE]
  /\ part = "tools" \/ (mode = "ask" /\ \A c \in Calls : call[c].args = Harmless)
  /\ part = "mcp" \/ kind = "stdio"
  /\ part = "servers" \/ config = {}
  /\ part = "files" \/ (permission = "ask" /\ \A p \in FilePaths : files[p] = Whole(CHOOSE t \in Texts : TRUE))

Next ==
  \/ part = "loop" /\ LoopNext /\ Rest("loop")
  \/ part = "llm" /\ LlmNext /\ Rest("llm")
  \/ part = "tools" /\ ToolNext /\ Rest("tools")
  \/ part = "mcp" /\ McpNext /\ Rest("mcp")
  \/ part = "servers" /\ ServersNext /\ Rest("servers")
  \/ part = "processes" /\ ProcNext /\ Rest("processes")
  \/ part = "commands" /\ CmdNext /\ Rest("commands")
  \/ part = "memory" /\ MemNext /\ Rest("memory")
  \/ part = "files" /\ FileNext /\ Rest("files")

Spec == Init /\ [][Next]_agentVars
-----------------------------------------------------------------------------
(* Properties.  What a part promises is looked at where that part moves.      *)

\* The variables of every part have their types.
AgentTypeOK ==
  /\ part = "loop" => LoopTypeOK
  /\ part = "llm" => LlmTypeOK
  /\ part = "tools" => ToolTypeOK
  /\ part = "mcp" => McpTypeOK
  /\ part = "servers" => ServersTypeOK
  /\ part = "processes" => ProcTypeOK
  /\ part = "commands" => CmdTypeOK
  /\ part = "memory" => MemTypeOK
  /\ part = "files" => FileTypeOK

\* What the agent was told and has learnt is kept: every tool call of the transcript keeps
\* its result, a compression loses no message and stubs only results that were read, the
\* weights of memories count every hit, and a block of the day holds its own conversation.
NothingIsForgotten ==
  /\ part = "loop" => TranscriptPaired /\ LosesNothing /\ StubsWereRead
  /\ part = "memory" => WeightsAreCounted /\ BlockIsOwn

\* Every call is answered, once and with what belongs to it: a tool runs as the gate decided
\* and the batch is answered, an MCP reply goes to its request, a reply that came is heard,
\* registered tools and the prompt name servers that answer, text of a model is forwarded
\* once, the token anchor is the usage of the turn's own call, and a file tool shows all of
\* a file, leaves none half written unexplained and changes none that is out of bounds.
CallsAreAnswered ==
  /\ part = "tools" => RunsAsDecided /\ BatchAnswered /\ SaturationIsReal
  /\ part = "mcp" => ReplyIsOwn /\ ReadyIsHeard
  /\ part = "servers" => ToolsAreLive /\ PromptListsTools
  /\ part = "llm" => ForwardedOnce /\ AnchorIsOwn
  /\ part = "files" => TornIsExplained /\ ReadShowsAll /\ OutsideUntouched

\* No process escapes and no stranger is killed: a child that runs is in the orphan journal,
\* whom a start reaps is a child of the gateway, a killed command leaves nothing behind, and the output of a command is whole or says what is missing.
ProcessesAreKept ==
  /\ part = "processes" => RunningIsJournalled /\ ReapedAreOrphans
  /\ part = "commands" => KilledLeavesNothing /\ OutputIsWhole
=============================================================================
