----------------------------- MODULE McpServers ------------------------------
(* The MCP servers of one agent: the first initialization in the background   *)
(* (gateway/agent_factory.py) or at the first run, reload and reconnect       *)
(* (agent.py), the manager's connections (core/mcp_client.py), the tools in   *)
(* the registry (tools/registry.py) and the prompt that lists them            *)
(* (core/agent_runtime/loop.py).  One connection is modelled in Mcp.          *)
EXTENDS Naturals, FiniteSets

CONSTANTS
  Servers,       \* names in mcp.servers
  EarlyReload,   \* whether a reload may come before the preheating has begun
  BadTarget,     \* whether reconnect may meet a configuration it cannot use
  MaxServerOps   \* bound: changes of the configuration, reloads and reconnects

VARIABLES
  config,        \* enabled servers in config.json
  waiting,       \* _mcp_pending_init: whether it is set, and the servers to begin with
  manager,       \* number of the MCPClientManager, 0 for none, and those that were replaced
  conn,          \* per server: none, new, up or down
  tools,         \* per server: the manager its registered tools call, 0 when it has none
  connectJob,           \* per kind of job: where it is, and the servers whose tools it registers
  template,      \* _pending_system_template: whether it is set, and the servers it lists
  prompt,        \* servers the prompt in use lists
  serverOps

serverVars == <<config, waiting, manager, conn, tools, connectJob, template, prompt, serverOps>>

Registered == {n \in Servers : tools[n] # 0}
Operation == serverOps < MaxServerOps /\ serverOps' = serverOps + 1
AtRest == \A k \in DOMAIN connectJob : connectJob[k].at = "none"
NoConnectJob == [at |-> "none", of |-> {}]
Nothing == [set |-> FALSE, of |-> {}]
Pending(s) == [set |-> TRUE, of |-> s]
-----------------------------------------------------------------------------
\* The configuration is written through the WebUI; agents follow on reload.
ConfigWrites(n) ==
  /\ Operation /\ config' = (config \ {n}) \cup ({n} \ config)
  /\ UNCHANGED <<waiting, manager, conn, tools, connectJob, template, prompt>>

\* _preheat_mcp: the list is taken and the initialization posted to the MCP loop.
Preheat ==
  /\ waiting.of # {} /\ connectJob["init"].at = "none" /\ manager.n = 0
  /\ connectJob' = [connectJob EXCEPT !["init"] = [at |-> "posted", of |-> waiting.of]] /\ waiting' = Nothing
  /\ UNCHANGED <<config, manager, conn, tools, template, prompt, serverOps>>

\* _init_mcp_if_needed at the start of a run, which waits for it
FirstRunInit ==
  /\ waiting.of # {} /\ connectJob["init"].at = "none"
  /\ connectJob' = [connectJob EXCEPT !["init"] = [at |-> "posted", of |-> waiting.of]] /\ waiting' = Nothing
  /\ UNCHANGED <<config, manager, conn, tools, template, prompt, serverOps>>

\* _async_init_mcp makes a manager of its own, whatever was there.
InitBegins ==
  /\ connectJob["init"].at = "posted"
  /\ manager' = [n |-> manager.n + 1, replaced |-> IF \E n \in Servers : conn[n] # "none"
                                                   THEN manager.replaced \cup {manager.n} ELSE manager.replaced]
  /\ conn' = [n \in Servers |-> IF n \in connectJob["init"].of THEN "new" ELSE "none"]
  /\ connectJob' = [connectJob EXCEPT !["init"].at = "connecting"]
  /\ UNCHANGED <<config, waiting, tools, template, prompt, serverOps>>

\* initialize_all, one server at a time; one that fails harms no other.
Connects(n, ok) ==
  /\ \E k \in DOMAIN connectJob : connectJob[k].at = "connecting"
  /\ conn[n] \in {"new", "down"}
  /\ conn' = [conn EXCEPT ![n] = IF ok THEN "up" ELSE "down"]
  /\ ok \/ conn[n] = "new"
  /\ UNCHANGED <<config, waiting, manager, tools, connectJob, template, prompt, serverOps>>

\* register_mcp_tool refuses a name that is taken.
Registers(of) == [n \in Servers |-> IF n \in of /\ conn[n] = "up" /\ tools[n] = 0 THEN manager.n ELSE tools[n]]

\* _rebuild_system_prompt: the new text waits for the next run.
PromptRebuilt(now) == {n \in Servers : now[n] # 0}

\* discover_all_tools and registration; the prompt is rebuilt when there are tools.
Finishes(k) ==
  /\ connectJob[k].at = "connecting" /\ \A n \in connectJob[k].of : conn[n] # "new"
  /\ LET now == Registers(connectJob[k].of) IN
       /\ tools' = now
       /\ template' = IF k = "init" /\ PromptRebuilt(now) = {} THEN template ELSE Pending(PromptRebuilt(now))
  /\ connectJob' = [connectJob EXCEPT ![k] = NoConnectJob]
  /\ UNCHANGED <<config, waiting, manager, conn, prompt, serverOps>>

\* A plausible slip: the connection is removed, its tools stay.
ToolsKept(gone) == [n \in Servers |-> tools[n]]

\* The tools of a removed server are taken out of the registry by the prefix of their names.
Unregistered(gone) == [n \in Servers |-> IF n \in gone THEN 0 ELSE tools[n]]

\* reload_mcp: before there is a manager it only replaces the list; then a difference by name
Reload ==
  /\ Operation /\ connectJob["reload"].at = "none"
  /\ IF manager.n = 0
     THEN (EarlyReload \/ connectJob["init"].at = "none") /\ waiting' = Pending(config) /\ UNCHANGED <<conn, tools, connectJob>>
     ELSE LET current == {n \in Servers : conn[n] # "none"} IN
          /\ tools' = Unregistered(current \ config)
          /\ conn' = [n \in Servers |-> IF n \in config \ current THEN "new" ELSE IF n \in config THEN conn[n] ELSE "none"]
          /\ connectJob' = [connectJob EXCEPT !["reload"] = [at |-> "connecting", of |-> config \ current]]
          /\ UNCHANGED waiting
  /\ UNCHANGED <<config, manager, template, prompt>>

\* reconnect_mcp: remove, add, initialize, register again
Reconnect(n, usable) ==
  /\ Operation /\ manager.n # 0 /\ connectJob["reload"].at = "none" /\ n \in config /\ (usable \/ BadTarget)
  /\ tools' = Unregistered({n})
  /\ conn' = [conn EXCEPT ![n] = IF usable THEN "new" ELSE "none"]
  /\ connectJob' = IF usable THEN [connectJob EXCEPT !["reload"] = [at |-> "connecting", of |-> {n}]] ELSE connectJob
  /\ UNCHANGED <<config, waiting, manager, template, prompt>>

\* _apply_pending_system_template, after begin_run
BeginsRun ==
  /\ template.set /\ prompt' = template.of /\ template' = Nothing
  /\ UNCHANGED <<config, waiting, manager, conn, tools, connectJob, serverOps>>

ServersInit ==
  /\ config \in SUBSET Servers /\ waiting = Pending(config) /\ manager = [n |-> 0, replaced |-> {}]
  /\ conn = [n \in Servers |-> "none"] /\ tools = [n \in Servers |-> 0]
  /\ connectJob = [k \in {"init", "reload"} |-> NoConnectJob] /\ template = Nothing /\ prompt = {} /\ serverOps = 0

ServersNext ==
  \/ Preheat \/ FirstRunInit \/ InitBegins \/ Reload \/ BeginsRun
  \/ \E n \in Servers : ConfigWrites(n) \/ (\E ok \in BOOLEAN : Connects(n, ok) \/ Reconnect(n, ok))
  \/ \E k \in DOMAIN connectJob : Finishes(k)

ServersSpec == ServersInit /\ [][ServersNext]_serverVars
-----------------------------------------------------------------------------
\* Types of connections and tools.
ServersTypeOK ==
  /\ config \subseteq Servers /\ waiting.of \subseteq Servers /\ prompt \subseteq Servers
  /\ \A n \in Servers : conn[n] \in {"none", "new", "up", "down"} /\ tools[n] \in 0..manager.n

\* No tool is left of a server that was removed, and none calls a manager that was replaced: its connections are open
\* for nobody.
ToolsAreLive ==
  /\ \A n \in Registered : conn[n] # "none" /\ (AtRest => tools[n] = manager.n)
  /\ manager.replaced = {}

\* Once it is at rest a run has the tools its prompt lists.
PromptListsTools == AtRest /\ ~template.set => prompt = Registered

\* Deviation of the code (see the README): a server that came up has its tools.
UpHasTools == AtRest => \A n \in Servers : conn[n] = "up" => tools[n] # 0
=============================================================================
