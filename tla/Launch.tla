-------------------------------- MODULE Launch --------------------------------
(***************************************************************************)
(* From a command line to a running agent, and back: the composition roots *)
(* that resolve the configuration, choose a sandbox, load the extensions,  *)
(* connect the MCP servers, make the agent, run it and put away what they  *)
(* opened.  There are three: "cli" (runAgentCommand), "acp"                *)
(* (createAgentContext and assembleCodingAgent) and "sdk"                  *)
(* (createCodingAgent).  Every step may fail, and the children may die.    *)
(*                                                                         *)
(* A server is "broken" when it names no command, and clings when what it  *)
(* started itself holds its pipes.                                         *)
(***************************************************************************)
EXTENDS Naturals, Sequences, SequencesExt, FiniteSets

CONSTANT LaunchCase  \* the command lines, configurations and machines

LaunchExt == [name : STRING, signed : BOOLEAN, listed : BOOLEAN, privileged : BOOLEAN]
LaunchServer == [kind : {"stdio", "http", "disabled", "broken"}, clings : BOOLEAN]

(* What the configuration may come to: an enterprise's forbids the host and *)
(* unsigned extensions, if it does not turn requireIsolatedSandbox off      *)
(* (enforceEnterprisePolicy).                                               *)
ASSUME LaunchAssumption ==
  \A c \in LaunchCase :
    /\ {c.tty, c.enterprise, c.hostFallback, c.signatures, c.projectAllowed} \subseteq BOOLEAN
    /\ {c.installed, c.project, c.adhoc} \subseteq Seq(LaunchExt) /\ c.servers \in Seq(LaunchServer)
    /\ c.enterprise => c.kind # "host" /\ ~c.hostFallback /\ c.signatures

VARIABLES lnCase,
          lnPc,
          lnAt,        \* the last extension or server that has been dealt with
          lnMode,      \* the mode it came to
          lnApproval,  \* the approval mode it came to
          lnSandbox,   \* the kind of the shell executor
          lnExts,      \* the extensions loaded: [ext, child]
          lnServers,   \* each server: [child, seen], seen "nothing", "pinned" or "changed" tools
          lnTools,     \* the servers whose tools are registered
          lnPrompter,  \* the terminal is being read
          lnAgent,     \* "none", "audited" or "unaudited"
          lnFailed     \* the step that threw, "none" so far

launchVars == <<lnCase, lnPc, lnAt, lnMode, lnApproval, lnSandbox, lnExts, lnServers, lnTools,
                lnPrompter, lnAgent, lnFailed>>
lnFound == <<lnCase, lnMode, lnApproval, lnSandbox>>
lnMade  == <<lnExts, lnServers, lnTools, lnPrompter, lnAgent>>

Root == lnCase.root
ServerIds == DOMAIN lnCase.servers
LnUp == {i \in ServerIds : lnServers[i].child = "up"}
LnOpen == {i \in ServerIds : lnServers[i].child \in {"up", "stopping"}}

LaunchInit ==
  /\ lnCase \in LaunchCase
  /\ lnPc = "config" /\ lnAt = 0
  /\ lnMode = lnCase.mode /\ lnApproval = lnCase.approval /\ lnSandbox = "none"
  /\ lnExts = <<>> /\ lnTools = {}
  /\ lnServers = [i \in DOMAIN lnCase.servers |-> [child |-> "none", seen |-> "nothing"]]
  /\ lnPrompter = FALSE /\ lnAgent = "none" /\ lnFailed = "none"

LnGoto(pc) == lnPc' = pc /\ lnAt' = 0
(* What fails before the run throws out of the root; nothing is put away.  *)
Throws == LnGoto("threw") /\ lnFailed' = lnPc
Passes(pc) == LnGoto(pc) /\ UNCHANGED lnFailed

-----------------------------------------------------------------------------
(* Only the command line looks at the terminal: what cannot ask does not.  *)
Configured ==
  /\ lnPc = "config"
  /\ Passes("sandbox")
  /\ IF Root = "cli"
       THEN /\ lnMode' = (IF lnCase.mode \in {"tui", "interactive"} /\ ~lnCase.tty
                          THEN "print" ELSE lnCase.mode)
            /\ lnApproval' = (IF lnCase.approval = "ask" /\ ~lnCase.tty
                              THEN "deny" ELSE lnCase.approval)
       ELSE UNCHANGED <<lnMode, lnApproval>>
  /\ UNCHANGED <<lnCase, lnSandbox, lnMade>>
Misconfigured == lnPc = "config" /\ Throws /\ UNCHANGED <<lnFound, lnMade>>

(* createSandbox, among the backends whose health() is good: the one asked *)
(* for or none; "auto" takes the strongest, the host only where allowed.   *)
Backends == <<"gvisor", "docker", "seatbelt">>
Chosen(healthy) ==
  LET found == {i \in DOMAIN Backends : Backends[i] \in healthy} IN
  CASE lnCase.kind = "host" -> "host"
    [] lnCase.kind = "auto" ->
         IF found # {} THEN Backends[Min(found)] ELSE IF lnCase.hostFallback THEN "host" ELSE "none"
    [] OTHER -> IF lnCase.kind \in healthy THEN lnCase.kind ELSE "none"
(* The context of the ACP server passes no VM on.                          *)
SandboxRejected(kind) ==
  \/ kind = "none"
  \/ kind = "vm" /\ Root = "acp"
  \/ Root = "sdk" /\ lnCase.enterprise /\ kind \notin {"docker", "gvisor", "vm"}
ChooseSandbox ==
  /\ lnPc = "sandbox"
  /\ \E healthy \in SUBSET {"gvisor", "docker", "seatbelt", "vm"} :
       IF SandboxRejected(Chosen(healthy)) THEN Throws /\ UNCHANGED lnSandbox
       ELSE Passes("permit") /\ lnSandbox' = Chosen(healthy)
  /\ UNCHANGED <<lnCase, lnMode, lnApproval, lnMade>>

-----------------------------------------------------------------------------
(* Which extensions a run may load.                                        *)
Admitted(ext) == lnCase.enterprise => ext.listed
Forbidden ==
  \/ lnCase.enterprise /\ lnCase.adhoc # <<>>
  \/ \E k \in DOMAIN lnCase.installed :
       LET ext == lnCase.installed[k] IN
       /\ Admitted(ext)
       /\ \/ ~ext.signed /\ (lnCase.signatures \/ (lnCase.enterprise /\ Root # "sdk"))
          \/ ext.privileged /\ lnCase.enterprise
Candidates == lnCase.installed
              \o (IF lnCase.enterprise /\ ~lnCase.projectAllowed THEN <<>> ELSE lnCase.project)
              \o lnCase.adhoc
ToLoad == {k \in DOMAIN Candidates :
             k > lnAt /\ (k <= Len(lnCase.installed) => Admitted(Candidates[k]))}

PermitExtensions ==
  /\ lnPc = "permit"
  /\ IF Forbidden THEN Throws ELSE Passes("load")
  /\ UNCHANGED <<lnFound, lnMade>>

(* load(): one after the other; the one that fails is terminated, those    *)
(* before it stay.                                                         *)
LoadExtension ==
  /\ lnPc = "load" /\ ToLoad # {}
  /\ \/ /\ lnAt' = Min(ToLoad) /\ UNCHANGED <<lnPc, lnFailed>>
        /\ lnExts' = Append(lnExts,
             [ext |-> Candidates[lnAt'], child |-> IF lnCase.processes THEN "up" ELSE "none"])
     \/ Throws /\ UNCHANGED lnExts
  /\ UNCHANGED <<lnFound, lnServers, lnTools, lnPrompter, lnAgent>>
ExtensionsLoaded ==
  /\ lnPc = "load" /\ ToLoad = {}
  /\ Passes(IF Root = "sdk" THEN "session" ELSE "connect")
  /\ UNCHANGED <<lnFound, lnMade>>

-----------------------------------------------------------------------------
(* registerMcpServers: each server is connected and asked for its tools; a *)
(* connection that fails is closed, and passed over with a warning.  That  *)
(* a server names no command is found out by its constructor, outside the  *)
(* try.                                                                    *)
NextServer == lnCase.servers[lnAt + 1]
Connecting(kinds) ==
  lnPc = "connect" /\ lnAt < Len(lnCase.servers) /\ NextServer.kind \in kinds
PassServer == lnAt' = lnAt + 1 /\ UNCHANGED <<lnPc, lnFailed>>
SkipServer ==
  /\ Connecting({"disabled"})
  /\ PassServer
  /\ UNCHANGED <<lnFound, lnMade>>
NoCommand ==
  /\ Connecting({"broken"})
  /\ Throws
  /\ UNCHANGED <<lnFound, lnMade>>
ConnectServer ==
  /\ Connecting({"stdio", "http"}) /\ lnServers[lnAt + 1].child = "none"
  /\ \E seen \in {"pinned", "changed"} :
       lnServers' = [lnServers EXCEPT ![lnAt + 1] =
         [child |-> IF NextServer.kind = "http" THEN "none" ELSE "up", seen |-> seen]]
  /\ PassServer
  /\ UNCHANGED <<lnFound, lnExts, lnTools, lnPrompter, lnAgent>>
ConnectFails ==
  /\ Connecting({"stdio"}) /\ lnServers[lnAt + 1].child = "none"
  /\ lnServers' = [lnServers EXCEPT ![lnAt + 1].child = "stopping"]
  /\ UNCHANGED <<lnPc, lnAt, lnFound, lnExts, lnTools, lnPrompter, lnAgent, lnFailed>>
ConnectGivenUp ==
  /\ \/ Connecting({"stdio"}) /\ lnServers[lnAt + 1].child = "gone"
     \/ Connecting({"http"})
  /\ PassServer
  /\ UNCHANGED <<lnFound, lnMade>>

(* Pins are a subset check: every tool that is pinned must be observed,    *)
(* and unchanged; without servers nobody looks at them.                    *)
PinsHold == \/ lnCase.servers = <<>>
            \/ \A i \in lnCase.pinned : i \in ServerIds /\ lnServers[i].seen = "pinned"
Stopping(open) ==
  [i \in ServerIds |->
    IF i \in open THEN [lnServers[i] EXCEPT !.child = "stopping"] ELSE lnServers[i]]
Register ==
  /\ Passes("session")
  /\ lnTools' = {i \in ServerIds : lnServers[i].seen # "nothing"}
  /\ UNCHANGED lnServers

\* Mutant: nobody closes the clients when a pin does not hold.
CheckPinsOnly ==
  /\ lnPc = "connect" /\ lnAt = Len(lnCase.servers)
  /\ \/ PinsHold /\ Register
     \/ ~PinsHold /\ Passes("unpinned") /\ UNCHANGED <<lnServers, lnTools>>
  /\ UNCHANGED <<lnFound, lnExts, lnPrompter, lnAgent>>

CheckPins ==
  /\ lnPc = "connect" /\ lnAt = Len(lnCase.servers)
  /\ \/ PinsHold /\ Register
     \/ ~PinsHold /\ Passes("unpinned") /\ lnServers' = Stopping(LnUp) /\ UNCHANGED lnTools
  /\ UNCHANGED <<lnFound, lnExts, lnPrompter, lnAgent>>

NoneStopping == \A i \in ServerIds : lnServers[i].child # "stopping"
Unpinned ==
  /\ lnPc = "unpinned" /\ NoneStopping
  /\ Throws
  /\ UNCHANGED <<lnFound, lnMade>>

-----------------------------------------------------------------------------
(* The session that is resumed or forked, and for the command line the     *)
(* prompter, which reads the terminal from now on.                         *)
SelectSession ==
  /\ lnPc = "session"
  /\ \/ Passes("agent") /\ lnPrompter' = (Root = "cli" /\ lnCase.tty /\ lnMode = "interactive")
     \/ lnCase.resumes /\ Throws /\ UNCHANGED lnPrompter
  /\ UNCHANGED <<lnFound, lnExts, lnServers, lnTools, lnAgent>>

(* The enterprise's journal needs its key; the command rules, the spine's  *)
(* session, the spec engine's models and the session's own workspace may   *)
(* each fail as well.                                                      *)
MakeAgent ==
  /\ lnPc = "agent"
  /\ \/ Throws /\ UNCHANGED lnAgent
     \/ /\ lnCase.enterprise => lnCase.key
        /\ Passes(IF Root = "cli" THEN "prompt" ELSE "made")
        /\ lnAgent' = (IF lnCase.enterprise THEN "audited" ELSE "unaudited")
  /\ UNCHANGED <<lnFound, lnExts, lnServers, lnTools, lnPrompter>>

(* The session's name, the piped prompt, the files it mentions, the images *)
ReadPrompt ==
  /\ lnPc = "prompt"
  /\ Throws \/ Passes("run")
  /\ UNCHANGED <<lnFound, lnMade>>

(* The try: the mode's loop, or its one turn, is over or threw; a mode     *)
(* that lacks its prompt or its terminal throws at once.                   *)
LeaveRun ==
  /\ lnPc = "run"
  /\ Passes("closing")
  /\ lnPrompter' = FALSE
  /\ lnExts' = [k \in DOMAIN lnExts |->
       IF lnExts[k].child = "up" THEN [lnExts[k] EXCEPT !.child = "stopping"] ELSE lnExts[k]]
  /\ UNCHANGED <<lnFound, lnServers, lnTools, lnAgent>>

(* The finally goes on when the children of the extensions are gone.       *)
CloseServers ==
  /\ lnPc = "closing" /\ \A k \in DOMAIN lnExts : lnExts[k].child # "stopping"
  /\ Passes("closed")
  /\ lnServers' = Stopping(LnUp)
  /\ UNCHANGED <<lnFound, lnExts, lnTools, lnPrompter, lnAgent>>
RunOver ==
  /\ lnPc = "closed" /\ NoneStopping
  /\ Passes("over")
  /\ UNCHANGED <<lnFound, lnMade>>

-----------------------------------------------------------------------------
(* External: a child ends, asked to or by itself.  A server's pipes close  *)
(* with the last process that holds them.                                  *)
ExtensionEnds(k) ==
  /\ lnExts[k].child \in {"up", "stopping"}
  /\ lnExts' = [lnExts EXCEPT ![k].child = "gone"]
  /\ UNCHANGED <<lnPc, lnAt, lnFound, lnServers, lnTools, lnPrompter, lnAgent, lnFailed>>
ServerEnds(i) ==
  /\ lnServers[i].child \in {"up", "stopping"} /\ ~lnCase.servers[i].clings
  /\ lnServers' = [lnServers EXCEPT ![i].child = "gone"]
  /\ UNCHANGED <<lnPc, lnAt, lnFound, lnExts, lnTools, lnPrompter, lnAgent, lnFailed>>

LaunchNext ==
  \/ Configured \/ Misconfigured \/ ChooseSandbox
  \/ PermitExtensions \/ LoadExtension \/ ExtensionsLoaded
  \/ SkipServer \/ NoCommand \/ ConnectServer \/ ConnectFails \/ ConnectGivenUp
  \/ CheckPins \/ Unpinned
  \/ SelectSession \/ MakeAgent \/ ReadPrompt \/ LeaveRun \/ CloseServers \/ RunOver
  \/ \E k \in DOMAIN lnExts : ExtensionEnds(k)
  \/ \E i \in ServerIds : ServerEnds(i)
LaunchSpec == LaunchInit /\ [][LaunchNext]_launchVars

-----------------------------------------------------------------------------
(* Properties *)

\* An agent of the enterprise is audited, isolated and has no extension it did
\* not list and check, whichever root made it (agent-command.ts:721-752,
\* coding-agent.ts:141-205); no agent has a pinned tool that changed, and
\* one that nobody sits in front of does not ask.  Whatever was opened is put
\* away: behind a run, all of it, and behind a pin that failed, every server
\* ("no tools remain registered", mcp-wiring.ts:40-46).  A launch that fails
\* elsewhere before its try leaves its children and its prompter: it is let off.
LaunchSound ==
  /\ lnAgent # "none" =>
       /\ lnCase.enterprise =>
            /\ lnAgent = "audited" /\ lnSandbox # "host"
            /\ \A k \in DOMAIN lnExts :
                 LET ext == lnExts[k].ext IN
                 \/ ext.signed /\ ext.listed /\ ~ext.privileged
                 \/ lnCase.projectAllowed /\ ext \in ToSet(lnCase.project)
       /\ \A i \in lnTools \cap lnCase.pinned : lnServers[i].seen = "pinned"
       /\ Root = "cli" /\ ~lnCase.tty => lnApproval # "ask"
  /\ lnPc = "over" =>
       /\ LnOpen = {} /\ ~lnPrompter
       /\ \A k \in DOMAIN lnExts : lnExts[k].child \in {"none", "gone"}
  /\ lnFailed = "unpinned" => LnOpen = {} /\ lnTools = {}
=============================================================================
