------------------------------ MODULE MCHarness ------------------------------
(***************************************************************************)
(* One instance of each of the harness's smaller components, checked side  *)
(* by side: "part" says which of them a behaviour is of, the others stay   *)
(* in an initial state.  The components share no variable, so the          *)
(* behaviours of a part are those of its own specification.                *)
(***************************************************************************)
EXTENDS ActionRuntime, TaskGraph, SessionStore, AuditJournal, Checkpoints, SpecEngine,
        Credentials, ToolRegistry, RpcCalls, Resilience, MCModelStream,
        Sandbox, AgentConfig, AgentServers, EventStream, Launch

VARIABLE part

Part == {"actions", "graph", "session", "audit", "undo", "spec", "credentials", "registry",
         "rpc", "models", "stream", "sandbox", "config",
         "servers", "events", "launch"}

-----------------------------------------------------------------------------
(* Actions: the two tasks' calls share an id, a command may be policed, a  *)
(* tool may be gone; an edit is repeated.                                  *)
Claim(class) == [NoEffect EXCEPT ![class] = 1]
Intent(id, tool, class) ==
  [id |-> id, tool |-> tool, claims |-> Claim(class), path |-> "f", shell |-> "none",
   guarded |-> FALSE, prefix |-> "none", verifies |-> FALSE]
MCTool ==
  [bash  |-> [id |-> "bash", classes |-> {"command"}, observed |-> Claim("command"), lines |-> 0],
   write |-> [id |-> "write", classes |-> {"file_write"}, observed |-> Claim("file_write"), lines |-> 1],
   gone  |-> NoTool]
MCActionConfig ==
  [maxRisk |-> 3, maxFiles |-> 2, maxLines |-> 2, allowNetwork |-> FALSE, allowSecrets |-> FALSE,
   autoCommands |-> FALSE, autoWrites |-> FALSE, trusted |-> TRUE]
Edit == Intent("a1", "write", "file_write")
Shell(id, shell) == [Intent(id, "bash", "command") EXCEPT !.shell = shell]
MCActionLists ==
  [t1 |-> {<<Shell("a1", "low")>>, <<Edit, Edit>>},
   t2 |-> {<<Shell("a3", "medium")>>, <<Shell("a4", "high")>>,
           <<[Shell("a1", "high") EXCEPT !.prefix = "allow"], Intent("a5", "gone", "read")>>}]

-----------------------------------------------------------------------------
(* Plans: parallel, dependent, agents shared by nodes (a team), a cycle, a *)
(* dependency listed twice.                                                *)
Own == [a |-> "a", b |-> "b", c |-> "c", d |-> "d"]
MCTaskPlans ==
  {[deps |-> [a |-> <<>>, b |-> <<>>, c |-> <<>>], owner |-> [a |-> "a", b |-> "b", c |-> "c"]],
   [deps |-> [a |-> <<>>, b |-> <<"a">>, c |-> <<"a">>, d |-> <<"a", "c">>], owner |-> Own],
   [deps |-> [a |-> <<>>, b |-> <<>>, c |-> <<>>, d |-> <<"a">>],
    owner |-> [a |-> "r", b |-> "r", c |-> "s", d |-> "s"]],
   [deps |-> [a |-> <<"b">>, b |-> <<"a">>], owner |-> [a |-> "a", b |-> "b"]],
   [deps |-> [a |-> <<>>, b |-> <<"a", "a">>], owner |-> [a |-> "a", b |-> "b"]]}

-----------------------------------------------------------------------------
(* Extensions that fail on a tool the host, the agent or another extension *)
(* has, and two MCP servers whose tools are named alike.                   *)
Line(type, name) == [type |-> type, name |-> name]
MCScripts ==
  [x |-> {<<Line("tool", "grep"), Line("command", "go"), Line("ready", "x")>>,
          <<Line("tool", "grep"), Line("tool", "bash"), Line("tool", "todo"), Line("ready", "x")>>},
   y |-> {<<Line("tool", "mcp_s_t"), Line("ready", "y")>>,
          <<Line("command", "go"), Line("tool", "grep"), Line("ready", "y")>>,
          <<Line("error", "y")>>}]
MCMcpTools == <<[server |-> "s", name |-> "mcp_s_t", hashed |-> "mcp_s_t_1"],
                [server |-> "r", name |-> "mcp_s_t", hashed |-> "mcp_s_t_1"]>>
MCExtensionPaths == <<"x", "y">>

-----------------------------------------------------------------------------
(* Two jobs of one process, and of two.                                    *)
MCPlacements == {[a |-> "one", b |-> "one"], [a |-> "one", b |-> "two"]}

-----------------------------------------------------------------------------
(* Two commands share a task's container.                                  *)
MCSbAsked == [group |-> {"c"}, child |-> {"c"}, once |-> {"c"}, task |-> {"c", "d"}]

-----------------------------------------------------------------------------
(* A session is resolved from any combination of the files, also where an  *)
(* enterprise's policy is asked to be laxer than it is; edits overlap with *)
(* each other and with one.                                                *)
EnterpriseOf(models) == [enabled |-> TRUE, models |-> models]
MCUserFiles ==
  {<<>>, [model |-> "m1", tui |-> [skin |-> "a"], sandbox |-> [pinned |-> TRUE]],
   [provider |-> "deepseek", loop |-> [iterations |-> 0], sources |-> {"user", "local"}],
   [model |-> "m1", enterprise |-> EnterpriseOf({[model |-> "m1"]}),
    sandbox |-> [kind |-> "docker", pinned |-> TRUE]],
   [model |-> Bad]}
MCProjectFiles ==
  {<<>>, [model |-> "m2", revision |-> "r2", sandbox |-> [kind |-> "host"]],
   [fallbacks |-> <<[provider |-> "deepseek", model |-> "v4"]>>, window |-> 20],
   [loop |-> Bad]}
MCLocalFiles ==
  {<<>>, [enterprise |-> [models |-> {[model |-> "v4", revision |-> "r1"], [model |-> "m1"]}],
              tui |-> [mascot |-> "o"], models |-> [m1 |-> [window |-> 5]]],
   [tui |-> [mascot |-> Bad]]}
MCPolicyFile ==
  [enterprise |-> [enabled |-> TRUE, providers |-> {"deepseek", "openai"},
                   models |-> {[provider |-> "deepseek", model |-> "v4"], [model |-> "m1"]}],
   sandbox |-> [kind |-> "vm", vmHost |-> "h"]]
MCLaxProjects ==
  {<<>>, [model |-> "m1", sandbox |-> [kind |-> "auto"]], [provider |-> "openai", model |-> "v4"],
   [providers |-> [mine |-> [window |-> 3]], fallbacks |-> <<[provider |-> "mine", model |-> "m1"]>>],
   [media |-> [remote |-> TRUE]], [signatures |-> FALSE], [sandbox |-> [fallback |-> TRUE]]}
MCLaxLocals ==
  {<<>>, [sandbox |-> [pinned |-> TRUE], media |-> [remote |-> FALSE]], [sandbox |-> [kind |-> "vm"]],
   [extensions |-> [host |-> "in-process"]]}
CfgEdit(field, value) == [kind |-> "edit", field |-> field, value |-> value]
CfgOf(task, user, project, local) ==
  [task |-> task, user |-> user, project |-> project, local |-> local, overrides |-> <<>>,
   trusted |-> TRUE, inside |-> TRUE, env |-> <<"deepseek">>, keys |-> {"openai", "deepseek"}]
MCStillCase == CfgOf([a |-> [kind |-> "resolve"]], <<>>, <<>>, <<>>)
MCCfgCase ==
  {MCStillCase} \cup
  {[CfgOf([a |-> [kind |-> "resolve"]], u, p, l) EXCEPT
      !.overrides = o, !.trusted = t[1], !.inside = t[2], !.env = e, !.keys = {"openai"} \cup ToSet(e)] :
     u \in MCUserFiles, p \in MCProjectFiles, l \in MCLocalFiles,
     o \in {<<>>, [model |-> "m1", rounds |-> 0]},
     t \in {<<TRUE, TRUE>>, <<FALSE, TRUE>>, <<FALSE, FALSE>>}, e \in {<<>>, <<"deepseek">>}}
  \cup {CfgOf([a |-> [kind |-> "resolve"]], MCPolicyFile, p, l) : p \in MCLaxProjects, l \in MCLaxLocals}
  \cup {CfgOf([a |-> x, b |-> CfgEdit("skin", "y"), c |-> CfgEdit("mascot", "y")], u, <<>>, <<>>) :
         x \in {[kind |-> "resolve"], CfgEdit("skin", "x")},
         u \in {<<>>, [model |-> "m1", tui |-> [skin |-> "a"]]}}

-----------------------------------------------------------------------------
(* What clients write: prompts over each other and over other sessions, a  *)
(* session loaded twice, cancelled, swapped, ended.                        *)
MCServerScripts ==
  [acp |-> {<<"prompt", "new", "prompt", "prompt", "cancel">>,
            <<"load", "prompt", "load", "prompt", "cancel">>,
            <<"new", "prompt", "cancel", "prompt">>,
            <<"new", "prompt", "ask", "unknown", "shutdown">>,
            <<"cancel", "new", "prompt", "new", "cancel">>},
   rpc |-> {<<"prompt", "swap", "abort", "prompt">>,
            <<"ask", "prompt", "steer", "list", "swap">>,
            <<"prompt", "shutdown", "ask">>,
            <<"unknown", "malformed", "prompt", "abort">>,
            <<"swap", "prompt", "steer", "prompt">>}]
MCStillScript == <<"unknown", "malformed", "prompt", "abort">>

-----------------------------------------------------------------------------
(* Personal and enterprise launches from each root: no terminal, servers   *)
(* that are broken, cling or answer over HTTP, no key, unsigned extensions.*)
Ext(name, signed, listed, privileged) ==
  [name |-> name, signed |-> signed, listed |-> listed, privileged |-> privileged]
Served(kind, clings) == [kind |-> kind, clings |-> clings]
MCPersonal(root) ==
  [root |-> root, mode |-> "interactive", tty |-> TRUE, approval |-> "ask", enterprise |-> FALSE,
   key |-> FALSE, signatures |-> TRUE, processes |-> TRUE, kind |-> "auto", hostFallback |-> TRUE,
   installed |-> <<Ext("x", TRUE, FALSE, TRUE)>>, project |-> <<>>, projectAllowed |-> FALSE,
   adhoc |-> <<Ext("h", FALSE, FALSE, FALSE)>>,
   servers |-> <<Served("stdio", FALSE), Served("stdio", FALSE)>>, pinned |-> {1}, resumes |-> TRUE]
MCEnterprise(root) ==
  [MCPersonal(root) EXCEPT !.enterprise = TRUE, !.key = TRUE, !.kind = "docker",
     !.hostFallback = FALSE, !.adhoc = <<>>, !.project = <<Ext("p", FALSE, FALSE, FALSE)>>,
     !.installed = <<Ext("x", TRUE, TRUE, FALSE), Ext("y", FALSE, FALSE, TRUE)>>]
MCRoots == {"cli", "acp", "sdk"}
MCLaunchCase ==
  UNION {
    LET me == MCPersonal(root)
        us == MCEnterprise(root) IN
    {me, us,
     [me EXCEPT !.tty = FALSE, !.mode = "tui", !.servers = <<Served("broken", FALSE)>>],
     [me EXCEPT !.servers = <<Served("http", FALSE), Served("disabled", FALSE), Served("stdio", TRUE)>>,
                !.processes = FALSE, !.kind = "host"],
     [me EXCEPT !.servers = <<Served("stdio", FALSE), Served("broken", FALSE)>>, !.kind = "seatbelt"],
     [me EXCEPT !.servers = <<>>, !.installed = <<Ext("y", FALSE, FALSE, FALSE)>>, !.kind = "vm"],
     [me EXCEPT !.servers = <<>>, !.installed = <<Ext("y", FALSE, FALSE, FALSE)>>, !.signatures = FALSE],
     [us EXCEPT !.key = FALSE], [us EXCEPT !.adhoc = me.adhoc], [us EXCEPT !.projectAllowed = TRUE],
     [us EXCEPT !.kind = "auto", !.pinned = {1, 3}],
     [us EXCEPT !.installed = <<Ext("x", FALSE, TRUE, FALSE)>>],
     [us EXCEPT !.installed = <<Ext("x", TRUE, TRUE, TRUE)>>]}
    : root \in MCRoots}
MCStillLaunch == MCPersonal("cli")

-----------------------------------------------------------------------------
(* A part that does not move is in one of its initial states.              *)
HarnessInit ==
  /\ part \in Part
  /\ ActionInit /\ (part # "actions" => actMode = "ask")
  /\ GraphInit /\ (part # "graph" => /\ plan = CHOOSE p \in TaskPlans : TRUE
                                    /\ ~continueOnError /\ ~graphAborted)
  /\ SessionInit
  /\ AuditInit
  /\ CheckpointInit
  /\ SpecInit /\ (part # "spec" => specHandled)
  /\ CredInit /\ (part # "credentials" => /\ \A a \in Account : idp[a].rotates
                                         /\ \A j, k \in CredJob : CredPid(j) = CredPid(k))
  /\ RegistryInit /\ (part # "registry" => hostKind = "process")
  /\ RpcInit /\ (part # "rpc" => rpcKind = "mcp")
  /\ Init
  /\ StreamInit /\ (part # "stream" => /\ msClient = "openai"
                                      /\ msAnswer = CHOOSE a \in StreamAnswer : TRUE)
  /\ SbInit /\ (part # "sandbox" => sbMode = "group")
  /\ (IF part = "config" THEN cfgCase \in CfgCase ELSE cfgCase = MCStillCase) /\ CfgInit
  /\ ServersInit /\ (part # "servers" => srvFront = "rpc" /\ srvAsked = MCStillScript)
  /\ EventStreamInit
  /\ LaunchInit /\ (part # "launch" => lnCase = MCStillLaunch)

Moves(p, Action) == part = p /\ Action
Still(p, v) == part # p => UNCHANGED v

HarnessNext ==
  /\ \/ Moves("actions", ActionNext)
     \/ Moves("graph", GraphNext)
     \/ Moves("session", SessionNext)
     \/ Moves("audit", AuditNext)
     \/ Moves("undo", CheckpointNext)
     \/ Moves("spec", SpecNext)
     \/ Moves("credentials", CredNext)
     \/ Moves("registry", RegistryNext)
     \/ Moves("rpc", RpcNext)
     \/ Moves("models", Next)
     \/ Moves("stream", StreamNext)
     \/ Moves("sandbox", SbNext)
     \/ Moves("config", CfgNext)
     \/ Moves("servers", ServersNext)
     \/ Moves("events", EventStreamNext)
     \/ Moves("launch", LaunchNext)
  /\ Still("actions", actionVars)
  /\ Still("graph", graphVars)
  /\ Still("session", sessVars)
  /\ Still("audit", auditVars)
  /\ Still("undo", cpVars)
  /\ Still("spec", specVars)
  /\ Still("credentials", credVars)
  /\ Still("registry", registryVars)
  /\ Still("rpc", rpcVars)
  /\ Still("models", vars)
  /\ Still("stream", msVars)
  /\ Still("sandbox", sbVars)
  /\ Still("config", cfgVars)
  /\ Still("servers", srvVars)
  /\ Still("events", eventVars)
  /\ Still("launch", launchVars)
  /\ UNCHANGED part

harnessVars == <<part, actionVars, graphVars, sessVars, auditVars, cpVars, specVars, credVars,
                 registryVars, rpcVars, vars, msVars, sbVars, cfgVars, srvVars, eventVars, launchVars>>

(* The fairness of each component's own specification, for the part that   *)
(* moves.                                                                  *)
HarnessSpec ==
  /\ HarnessInit /\ [][HarnessNext]_harnessVars
  /\ WF_graphVars(part = "graph" /\ GraphProceed)
  /\ WF_rpcVars(part = "rpc" /\ RpcProceed)
  /\ \A c \in Call : WF_vars(part = "models" /\ Proceed(c))
  /\ WF_msVars(part = "stream" /\ StreamProceed)
  /\ \A c \in SbCommand : WF_sbVars(part = "sandbox" /\ SbProceed(c))
  /\ WF_srvVars(part = "servers" /\ ServersProceed)
  /\ WF_eventVars(part = "events" /\ EventsProceed)

\* A request of a model ends, in the chain of breakers, bulkheads and fallbacks
\* (no caller waits for ever at a semaphore), and in the client of a provider.
ModelRequestsEnd == RequestEnds /\ RequestReturns
=============================================================================
