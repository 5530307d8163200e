----------------------------- MODULE ToolRegistry -----------------------------
(***************************************************************************)
(* Who registers the agent's tools, in which order, and what a "/reload"   *)
(* of the extensions leaves: the built-in tools, the extension host (child *)
(* processes talking over pipes, or modules of this process), the MCP      *)
(* servers and the agent itself share one AgentToolRegistry.  What a call  *)
(* of a registered tool does is in RpcCalls.                               *)
(***************************************************************************)
EXTENDS Naturals, Sequences, SequencesExt

CONSTANTS ToolName, CommandName,
          BaseTools,     \* built-in tools left after --tools / --exclude-tools
          AgentTools,    \* todo, delegate, goal, graph, team
          McpTools,      \* sequence of [server, name, hashed]: the plain and the hashed name
          ExtensionPaths,\* sequence of the extensions to load
          Scripts,       \* what each extension may send: "tool"/"command"/"ready"/"error" lines
          MaxReloads, MaxCrashes

ASSUME RegistryAssumption ==
  /\ BaseTools \subseteq ToolName /\ AgentTools \subseteq ToolName
  /\ \A k \in DOMAIN McpTools : {McpTools[k].name, McpTools[k].hashed} \subseteq ToolName
  /\ ExtensionPaths \in Seq(STRING)
  /\ \A k \in DOMAIN ExtensionPaths : Scripts[ExtensionPaths[k]] \subseteq
       Seq([type : {"tool", "command", "ready", "error"}, name : STRING])

VARIABLES registry,     \* the owner of each tool name: "none", "core", "mcp", "agent", or a child
          commands,     \* the owner of each slash command of an extension
          kids,         \* every child ever spawned: [path, status, lines, tools, listed, killed, exited]
          hostKind,     \* config.extensions.host: "process" or "in-process"
          hostPc,       \* what the launch, or a reload, is at
          loadIx,       \* the extension load() is at
          launched,     \* the agent exists
          reloads, crashes

registryVars == <<registry, commands, kids, hostKind, hostPc, loadIx, launched, reloads, crashes>>

NoOwner == [kind |-> "none", kid |-> 0]
By(kind) == [kind |-> kind, kid |-> 0]
ByKid(i) == [kind |-> "extension", kid |-> i]
Registered == {n \in ToolName : registry[n] # NoOwner}

(* The built-in tools; the host remembers their names, then loads.         *)
RegistryInit ==
  /\ registry = [n \in ToolName |-> IF n \in BaseTools THEN By("core") ELSE NoOwner]
  /\ commands = [c \in CommandName |-> NoOwner]
  /\ kids = <<>>
  /\ hostKind \in {"process", "in-process"}
  /\ hostPc = "load" /\ loadIx = 1
  /\ launched = FALSE
  /\ reloads = 0 /\ crashes = 0

LastKid == Len(kids)
Awaited(i) == hostPc = "wait" /\ i = LastKid

(* load(): one extension after the other.                                  *)
Spawn ==
  /\ hostKind = "process" /\ hostPc = "load" /\ loadIx <= Len(ExtensionPaths)
  /\ \E script \in Scripts[ExtensionPaths[loadIx]] :
       kids' = Append(kids, [path |-> ExtensionPaths[loadIx], status |-> "starting",
                             lines |-> script, tools |-> {}, listed |-> TRUE, killed |-> FALSE,
                             exited |-> FALSE])
  /\ hostPc' = "wait"
  /\ UNCHANGED <<registry, commands, hostKind, loadIx, launched, reloads, crashes>>

LoadDone ==
  /\ hostPc = "load" /\ loadIx > Len(ExtensionPaths)
  /\ hostPc' = IF launched THEN "idle" ELSE "mcp"
  /\ UNCHANGED <<registry, commands, kids, hostKind, loadIx, launched, reloads, crashes>>

(* markDead: a load waiting for this child fails.                          *)
MarkDead(i, kid) ==
  /\ kids' = [kids EXCEPT ![i] = [kid EXCEPT !.status = "dead", !.killed = TRUE]]
  /\ hostPc' = IF Awaited(i) /\ kid.status # "dead" THEN "discard" ELSE hostPc
  /\ UNCHANGED loadIx

Claimed(kid, name) == [kid EXCEPT !.tools = @ \cup {name}]
ClaimThenRegister(i, kid, name) ==
  /\ registry' = IF registry[name] = NoOwner THEN [registry EXCEPT ![name] = ByKid(i)] ELSE registry
  /\ IF registry[name] = NoOwner
       THEN kids' = [kids EXCEPT ![i] = Claimed(kid, name)] /\ UNCHANGED <<hostPc, loadIx>>
       ELSE MarkDead(i, Claimed(kid, name))
RegisterTool(i, kid, name) ==
  IF registry[name] = NoOwner
    THEN /\ registry' = [registry EXCEPT ![name] = ByKid(i)]
         /\ kids' = [kids EXCEPT ![i] = Claimed(kid, name)]
         /\ UNCHANGED <<hostPc, loadIx>>
    ELSE MarkDead(i, kid) /\ UNCHANGED registry

RegisterCommand(i, kid, name) ==
  IF commands[name] = NoOwner
    THEN /\ commands' = [commands EXCEPT ![name] = ByKid(i)]
         /\ kids' = [kids EXCEPT ![i] = kid]
         /\ UNCHANGED <<hostPc, loadIx>>
    ELSE MarkDead(i, kid) /\ UNCHANGED commands

(* A line of a child, read whatever has become of the child: a registration*)
(* that fails kills it, "ready" lets load() go on.                         *)
HandleLine(i) ==
  /\ i \in DOMAIN kids /\ kids[i].lines # <<>>
  /\ LET line == Head(kids[i].lines)
         kid == [kids[i] EXCEPT !.lines = Tail(@)] IN
     \/ line.type = "tool" /\ RegisterTool(i, kid, line.name) /\ UNCHANGED commands
     \/ line.type = "command" /\ RegisterCommand(i, kid, line.name) /\ UNCHANGED registry
     \/ line.type = "error" /\ MarkDead(i, kid) /\ UNCHANGED <<registry, commands>>
     \/ /\ line.type = "ready"
        /\ kids' = [kids EXCEPT ![i] = [kid EXCEPT !.status = "running"]]
        /\ IF Awaited(i) THEN hostPc' = "load" /\ loadIx' = loadIx + 1
                         ELSE UNCHANGED <<hostPc, loadIx>>
        /\ UNCHANGED <<registry, commands>>
  /\ UNCHANGED <<hostKind, launched, reloads, crashes>>

(* The child exits, killed or crashed; lines still in its pipe may follow. *)
Exit(i) ==
  /\ i \in DOMAIN kids /\ ~kids[i].exited
  /\ kids[i].killed \/ crashes < MaxCrashes
  /\ crashes' = IF kids[i].killed THEN crashes ELSE crashes + 1
  /\ \E n \in 0..Len(kids[i].lines) :
       MarkDead(i, [kids[i] EXCEPT !.lines = SubSeq(@, 1, n), !.exited = TRUE])
  /\ UNCHANGED <<registry, commands, hostKind, launched, reloads>>

LoadTimeout ==
  /\ hostPc = "wait"
  /\ kids' = [kids EXCEPT ![LastKid].killed = TRUE]
  /\ hostPc' = "discard"
  /\ UNCHANGED <<registry, commands, hostKind, loadIx, launched, reloads, crashes>>

LoadFails == IF launched THEN "idle" ELSE "failed"
WithoutOwner(owners, i) == [n \in DOMAIN owners |-> IF owners[n] = ByKid(i) THEN NoOwner ELSE owners[n]]

(* discardExtension, after a failed load: load() throws, the extensions    *)
(* after this one are not loaded.                                          *)
Discard ==
  /\ hostPc = "discard"
  /\ registry' = [n \in ToolName |-> IF n \in kids[LastKid].tools THEN NoOwner ELSE registry[n]]
  /\ commands' = WithoutOwner(commands, LastKid)
  /\ kids' = [kids EXCEPT ![LastKid].listed = FALSE]
  /\ hostPc' = LoadFails
  /\ UNCHANGED <<hostKind, loadIx, launched, reloads, crashes>>

(* The in-process host imports the module and runs its factory; what it    *)
(* registered before an error stays registered.                            *)
LoadInProcess ==
  /\ hostKind = "in-process" /\ hostPc = "load" /\ loadIx <= Len(ExtensionPaths)
  /\ \E script \in Scripts[ExtensionPaths[loadIx]] :
       LET i == LastKid + 1
           taken(k) == \/ script[k].type = "tool" /\ registry[script[k].name] # NoOwner
                       \/ script[k].type = "command" /\ commands[script[k].name] # NoOwner
                       \/ script[k].type = "error"
           ran == {k \in DOMAIN script : \A j \in 1..k : ~taken(j)}
           names(type) == {script[k].name : k \in {j \in ran : script[j].type = type}}
           ok == ran = DOMAIN script IN
       /\ registry' = [n \in ToolName |-> IF n \in names("tool") THEN ByKid(i) ELSE registry[n]]
       /\ commands' = [c \in CommandName |-> IF c \in names("command") THEN ByKid(i) ELSE commands[c]]
       /\ kids' = Append(kids, [path |-> ExtensionPaths[loadIx], status |-> "running",
                                lines |-> <<>>, tools |-> names("tool"), listed |-> ok,
                                killed |-> FALSE, exited |-> TRUE])
       /\ IF ok THEN loadIx' = loadIx + 1 /\ UNCHANGED hostPc
                ELSE hostPc' = LoadFails /\ UNCHANGED loadIx
  /\ UNCHANGED <<hostKind, launched, reloads, crashes>>

(* registerMcpServers: the servers that answered; the hashed name when the *)
(* plain one is taken, an error when that is taken too (or a pin differs). *)
McpName(free, tool) == IF tool.name \in free THEN tool.name ELSE tool.hashed
RegisterMcpServers ==
  /\ hostPc = "mcp"
  /\ \E up \in SUBSET {McpTools[k].server : k \in DOMAIN McpTools} :
       LET offered == SelectSeq(McpTools, LAMBDA t : t.server \in up) IN
       \E name \in [DOMAIN offered -> ToolName] :
         LET free(k) == (ToolName \ Registered) \ {name[j] : j \in 1..k-1} IN
         /\ \A k \in DOMAIN offered : name[k] = McpName(free(k), offered[k])
         /\ IF \A k \in DOMAIN offered : name[k] \in free(k)
              THEN /\ registry' = [n \in ToolName |-> IF n \in Range(name) THEN By("mcp") ELSE registry[n]]
                   /\ hostPc' = "agent"
              ELSE hostPc' = "failed" /\ UNCHANGED registry
  /\ UNCHANGED <<commands, kids, hostKind, loadIx, launched, reloads, crashes>>

(* The CodingAgent's own tools, unless a tool of that name is there.       *)
CreateAgent ==
  /\ hostPc = "agent"
  /\ registry' = [n \in ToolName |->
                    IF n \in AgentTools /\ registry[n] = NoOwner THEN By("agent") ELSE registry[n]]
  /\ launched' = TRUE
  /\ hostPc' = "idle"
  /\ UNCHANGED <<commands, kids, hostKind, loadIx, reloads, crashes>>

(* "/reload": the process host first stops its children ...                *)
Reload ==
  /\ hostPc = "idle" /\ reloads < MaxReloads
  /\ reloads' = reloads + 1
  /\ kids' = [i \in DOMAIN kids |->
                IF kids[i].listed /\ hostKind = "process"
                  THEN [kids[i] EXCEPT !.status = "dead", !.killed = TRUE] ELSE kids[i]]
  /\ hostPc' = "stopping"
  /\ UNCHANGED <<registry, commands, hostKind, loadIx, launched, crashes>>

(* ... then every tool that was not there when the host was made goes.     *)
KeptByReload(name) == name \in BaseTools
StopAll ==
  /\ hostPc = "stopping"
  /\ \A i \in DOMAIN kids : kids[i].listed => kids[i].exited
  /\ registry' = [n \in ToolName |-> IF KeptByReload(n) THEN registry[n] ELSE NoOwner]
  /\ commands' = [c \in CommandName |-> NoOwner]
  /\ kids' = [i \in DOMAIN kids |-> [kids[i] EXCEPT !.listed = FALSE]]
  /\ hostPc' = "load" /\ loadIx' = 1
  /\ UNCHANGED <<hostKind, launched, reloads, crashes>>

RegistryNext ==
  \/ Spawn \/ LoadDone \/ LoadTimeout \/ Discard \/ LoadInProcess
  \/ RegisterMcpServers \/ CreateAgent \/ Reload \/ StopAll
  \/ \E i \in DOMAIN kids : HandleLine(i) \/ Exit(i)
RegistrySpec == RegistryInit /\ [][RegistryNext]_registryVars

(* A tool loses its owner only when that owner's extension is *)
(* discarded after a failed load, or by a reload: an extension that fails  *)
(* because it offers a name already taken never takes the other one's tool *)
(* with it, whatever its pipe still holds.                                 *)
OthersToolsKept ==
  [][\A n \in ToolName :
       registry[n] # NoOwner /\ registry'[n] # registry[n]
         => hostPc = "stopping" \/ (hostPc = "discard" /\ registry[n] = ByKid(LastKid))]_registryVars
=============================================================================
