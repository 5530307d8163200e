----------------------------- MODULE AgentServers -----------------------------
(***************************************************************************)
(* The two servers that put agents behind a line-delimited JSON-RPC pipe.  *)
(* The ACP server handles one message after the other and lets the turns   *)
(* of its sessions run on behind them.  The RPC server has one agent, lets *)
(* abort and steering pass and queues everything else.  Only the turn's    *)
(* start and end are of the agent here; AgentTurn has the rest.            *)
(***************************************************************************)
EXTENDS Naturals, Sequences

CONSTANT ServerScripts  \* [acp, rpc |-> the sequences of requests clients make]

VARIABLES srvFront,    \* "acp" or "rpc"
          srvAsked,    \* what the client will ask, a request's id is its position
          srvSent,     \* how many of its requests it has written
          srvUnread,   \* those that are still in the pipe
          srvLoop,     \* the request a handler is busy with, 0 for none
          srvQueue,    \* RPC: requests chained behind it
          srvAside,    \* RPC: steering requests whose event is being delivered
          srvStdin,    \* "open", "closed" (by the client), "paused" (by shutdown)
          srvUp,       \* the server has neither exited nor returned
          srvAgents,   \* the agents made so far: [sid, turn, home (turn's session), state,
                       \* notified, busy, aborted]
          srvSessions, \* ACP: the map of a session's id to its agent
          srvCurrent,  \* ACP: currentSessionId
          srvOut       \* the lines written: [what, to, sid]

srvVars == <<srvFront, srvAsked, srvSent, srvUnread, srvLoop, srvQueue, srvAside, srvStdin, srvUp,
             srvAgents, srvSessions, srvCurrent, srvOut>>
srvTurnVars == <<srvAgents, srvSessions, srvCurrent>>
srvPipeVars == <<srvFront, srvAsked, srvSent, srvStdin>>

NoSid == 0
OldSid == 1  \* a session that is on disk when the server starts
NewSid == Len(srvAgents) + 2
NewAgent(sid) ==
  [sid |-> sid, turn |-> 0, home |-> sid, state |-> "idle", notified |-> FALSE, busy |-> FALSE, aborted |-> FALSE]

ServersInit ==
  /\ srvFront \in {"acp", "rpc"}
  /\ srvAsked \in ServerScripts[srvFront]
  /\ srvSent = 0 /\ srvUnread = <<>> /\ srvLoop = 0 /\ srvQueue = <<>> /\ srvAside = {}
  /\ srvStdin = "open" /\ srvUp = TRUE
  /\ srvAgents = IF srvFront = "rpc" THEN <<NewAgent(OldSid)>> ELSE <<>>
  /\ srvSessions = <<>> /\ srvCurrent = NoSid
  /\ srvOut = <<>>

OutLine(what, id, sid) == [what |-> what, to |-> id, sid |-> sid]
Reply(what, id) == srvOut' = Append(srvOut, OutLine(what, id, NoSid))
Asked(id) == srvAsked[id]

-----------------------------------------------------------------------------
(* The client *)

Ask ==
  /\ srvUp /\ srvStdin = "open" /\ srvSent < Len(srvAsked)
  /\ srvSent' = srvSent + 1
  /\ srvUnread' = Append(srvUnread, srvSent')
  /\ UNCHANGED <<srvFront, srvAsked, srvLoop, srvQueue, srvAside, srvStdin, srvUp, srvTurnVars, srvOut>>

CloseStdin ==
  /\ srvUp /\ srvStdin = "open"
  /\ srvStdin' = "closed"
  /\ UNCHANGED <<srvFront, srvAsked, srvSent, srvUnread, srvLoop, srvQueue, srvAside, srvUp, srvTurnVars, srvOut>>

-----------------------------------------------------------------------------
(* A turn *)

(* submit() of an agent that runs a turn throws, whatever the front end    *)
(* had noted.                                                              *)
Started(a, id) ==
  [srvAgents EXCEPT ![a].turn = id, ![a].home = srvAgents[a].sid, ![a].state = "running",
                    ![a].notified = FALSE]
Running(a) == srvAgents[a].state = "running"

(* An event of the turn goes out under the session's own id.               *)
Notify(a) ==
  /\ srvUp /\ Running(a) /\ ~srvAgents[a].notified
  /\ srvAgents' = [srvAgents EXCEPT ![a].notified = TRUE]
  /\ srvOut' = Append(srvOut, OutLine("event", srvAgents[a].turn, srvAgents[a].sid))
  /\ UNCHANGED <<srvPipeVars, srvUnread, srvLoop, srvQueue, srvAside, srvUp, srvSessions, srvCurrent>>

(* The turn is over, with a result or an error, and running is reset; what *)
(* was chained to submit() comes after it.                                 *)
TurnSettles(a) ==
  /\ srvUp /\ Running(a)
  /\ srvAgents' = [srvAgents EXCEPT ![a].state = "settled"]
  /\ UNCHANGED <<srvPipeVars, srvUnread, srvLoop, srvQueue, srvAside, srvUp, srvSessions, srvCurrent, srvOut>>

-----------------------------------------------------------------------------
(* ACP *)

NextUnread == Head(srvUnread)
AcpReads(kinds) ==
  /\ srvUp /\ srvFront = "acp" /\ srvLoop = 0 /\ srvUnread # <<>>
  /\ Asked(NextUnread) \in kinds
  /\ srvUnread' = Tail(srvUnread)
  /\ UNCHANGED <<srvPipeVars, srvQueue, srvAside>>

(* What is awaited keeps the loop from the next message: an agent that is  *)
(* assembled, a list, a checkpoint's undo.                                 *)
AcpAwait ==
  /\ AcpReads({"new", "load", "ask"})
  /\ srvLoop' = NextUnread
  /\ UNCHANGED <<srvUp, srvTurnVars, srvOut>>

AcpRefuse ==
  /\ AcpReads({"unknown"})
  /\ Reply("error", NextUnread)
  /\ UNCHANGED <<srvLoop, srvUp, srvTurnVars>>

AcpFails ==
  /\ srvUp /\ srvFront = "acp" /\ srvLoop # 0
  /\ Reply("error", srvLoop)
  /\ srvLoop' = 0
  /\ UNCHANGED <<srvPipeVars, srvUnread, srvQueue, srvAside, srvUp, srvTurnVars>>

AcpAnswer ==
  /\ srvUp /\ srvFront = "acp" /\ srvLoop # 0 /\ Asked(srvLoop) = "ask"
  /\ Reply("result", srvLoop)
  /\ srvLoop' = 0
  /\ UNCHANGED <<srvPipeVars, srvUnread, srvQueue, srvAside, srvUp, srvTurnVars>>

(* A session that is loaded again gets a second agent; the first is lost   *)
(* to the map, whether it runs or not.                                     *)
AcpCreated ==
  /\ srvUp /\ srvFront = "acp" /\ srvLoop # 0 /\ Asked(srvLoop) \in {"new", "load"}
  /\ LET sid == IF Asked(srvLoop) = "load" THEN OldSid ELSE NewSid
         agent == Len(srvAgents) + 1
     IN  /\ srvAgents' = Append(srvAgents, NewAgent(sid))
         /\ srvSessions' = [s \in DOMAIN srvSessions \cup {sid} |->
                              IF s = sid THEN agent ELSE srvSessions[s]]
         /\ srvCurrent' = sid
  /\ Reply("result", srvLoop)
  /\ srvLoop' = 0
  /\ UNCHANGED <<srvPipeVars, srvUnread, srvQueue, srvAside, srvUp>>

CurrentAgent == srvSessions[srvCurrent]
AcpPromptRefused ==
  /\ AcpReads({"prompt"})
  /\ srvCurrent # NoSid => srvAgents[CurrentAgent].busy
  /\ Reply("error", NextUnread)
  /\ UNCHANGED <<srvLoop, srvUp, srvTurnVars>>

(* The answer goes out first, then the turn is started behind the loop.    *)
AcpPrompt ==
  /\ AcpReads({"prompt"})
  /\ srvCurrent # NoSid /\ ~srvAgents[CurrentAgent].busy
  /\ IF Running(CurrentAgent)
       THEN /\ srvOut' = srvOut \o <<OutLine("result", NextUnread, NoSid),
                                     OutLine("refused", NextUnread, srvCurrent)>>
            /\ UNCHANGED srvAgents
       ELSE /\ Reply("result", NextUnread)
            /\ srvAgents' = [Started(CurrentAgent, NextUnread) EXCEPT
                               ![CurrentAgent].busy = TRUE, ![CurrentAgent].aborted = FALSE]
  /\ UNCHANGED <<srvLoop, srvUp, srvSessions, srvCurrent>>

\* Mutant: the session is free as soon as its turn was cancelled.
CancelledFree(a) == [srvAgents EXCEPT ![a].aborted = TRUE, ![a].busy = FALSE]

(* session/cancel is of the current session's turn only.                   *)
Cancelled(a) == [srvAgents EXCEPT ![a].aborted = TRUE]

AcpCancel ==
  /\ AcpReads({"cancel"})
  /\ Reply(IF srvCurrent = NoSid THEN "error" ELSE "result", NextUnread)
  /\ srvAgents' = IF srvCurrent # NoSid /\ srvAgents[CurrentAgent].busy THEN Cancelled(CurrentAgent) ELSE srvAgents
  /\ UNCHANGED <<srvLoop, srvUp, srvSessions, srvCurrent>>

(* process.exit: the turns that run are never ended.                       *)
AcpShutdown ==
  /\ AcpReads({"shutdown"})
  /\ Reply("result", NextUnread)
  /\ srvUp' = FALSE
  /\ UNCHANGED <<srvLoop, srvTurnVars>>

(* session/end, and only then the session's flag.                          *)
AcpEnd(a) ==
  /\ srvUp /\ srvFront = "acp" /\ srvAgents[a].state = "settled"
  /\ srvAgents' = [srvAgents EXCEPT ![a].state = "ended"]
  /\ srvOut' = Append(srvOut, OutLine("end", srvAgents[a].turn, srvAgents[a].sid))
  /\ UNCHANGED <<srvPipeVars, srvUnread, srvLoop, srvQueue, srvAside, srvUp, srvSessions, srvCurrent>>
AcpFree(a) ==
  /\ srvUp /\ srvFront = "acp" /\ srvAgents[a].state = "ended"
  /\ srvAgents' = [srvAgents EXCEPT ![a].state = "idle", ![a].turn = 0, ![a].busy = FALSE]
  /\ UNCHANGED <<srvPipeVars, srvUnread, srvLoop, srvQueue, srvAside, srvUp, srvSessions, srvCurrent, srvOut>>

-----------------------------------------------------------------------------
(* RPC *)

RpcReads(kinds) ==
  /\ srvUp /\ srvFront = "rpc" /\ srvStdin # "paused" /\ srvUnread # <<>>
  /\ Asked(NextUnread) \in kinds
  /\ srvUnread' = Tail(srvUnread)
  /\ UNCHANGED <<srvPipeVars, srvLoop, srvUp, srvSessions, srvCurrent>>

RpcAgent == srvAgents[1]

(* abort and steering_list are answered on the spot, what cannot be parsed *)
(* is refused there.                                                       *)
RpcAbort ==
  /\ RpcReads({"abort"})
  /\ Reply("result", NextUnread)
  /\ srvAgents' = IF Running(1) THEN [srvAgents EXCEPT ![1].aborted = TRUE] ELSE srvAgents
  /\ UNCHANGED <<srvQueue, srvAside>>
RpcAtOnce ==
  /\ RpcReads({"list", "malformed"})
  /\ Reply(IF Asked(NextUnread) = "list" THEN "result" ELSE "error", NextUnread)
  /\ UNCHANGED <<srvQueue, srvAside, srvAgents>>

(* steer and unsteer: the item is taken now, the answer waits for the      *)
(* event's delivery; without a turn there is nothing to steer.             *)
RpcSteer ==
  /\ RpcReads({"steer"})
  /\ srvAside' = srvAside \cup {NextUnread}
  /\ UNCHANGED <<srvQueue, srvAgents, srvOut>>
RpcSteered(id) ==
  /\ id \in srvAside
  /\ srvAside' = srvAside \ {id}
  /\ \E what \in {"result", "error"} : Reply(what, id)
  /\ UNCHANGED <<srvPipeVars, srvUnread, srvLoop, srvQueue, srvUp, srvTurnVars>>

RpcEnqueue ==
  /\ RpcReads({"prompt", "ask", "swap", "shutdown", "unknown"})
  /\ srvQueue' = Append(srvQueue, NextUnread)
  /\ UNCHANGED <<srvAside, srvAgents, srvOut>>

(* The next link of the chain begins when the one before has settled.      *)
RpcBegin ==
  /\ srvUp /\ srvFront = "rpc" /\ srvLoop = 0 /\ srvQueue # <<>>
  /\ srvLoop' = Head(srvQueue)
  /\ srvQueue' = Tail(srvQueue)
  /\ srvAgents' = IF Asked(Head(srvQueue)) = "prompt" /\ ~Running(1)
                    THEN [Started(1, Head(srvQueue)) EXCEPT ![1].aborted = FALSE]
                    ELSE srvAgents
  /\ UNCHANGED <<srvPipeVars, srvUnread, srvAside, srvUp, srvSessions, srvCurrent, srvOut>>

\* Mutant: what a handler throws is not caught, and the chain stays rejected.
ChainRejected(what) == srvLoop' = IF what = "error" THEN srvLoop ELSE 0

(* A handler is over: what it throws is answered and caught, so that the   *)
(* chain goes on.                                                          *)
ChainGoesOn(what) == srvLoop' = 0

Serves(what) ==
  /\ srvUp /\ srvFront = "rpc" /\ srvLoop # 0
  /\ ~(RpcAgent.turn = srvLoop /\ Running(1))
  /\ ~\E i \in DOMAIN srvOut : srvOut[i].to = srvLoop /\ srvOut[i].what \in {"result", "error"}
  /\ Reply(what, srvLoop)
  /\ ChainGoesOn(what)
  /\ UNCHANGED <<srvFront, srvAsked, srvSent, srvUnread, srvQueue, srvAside, srvUp, srvSessions, srvCurrent>>
TurnClosed == [srvAgents EXCEPT ![1].turn = 0, ![1].state = "idle"]

RpcThrows ==
  /\ Serves("error") /\ Asked(srvLoop) # "shutdown"
  /\ srvAgents' = IF RpcAgent.turn = srvLoop THEN TurnClosed ELSE srvAgents
  /\ UNCHANGED srvStdin
RpcResult ==
  /\ Serves("result")
  /\ \/ Asked(srvLoop) = "ask" /\ UNCHANGED <<srvAgents, srvStdin>>
     \/ /\ Asked(srvLoop) = "prompt" /\ RpcAgent.turn = srvLoop
        /\ srvAgents' = TurnClosed /\ UNCHANGED srvStdin
     \/ /\ Asked(srvLoop) = "swap" /\ ~Running(1)
        /\ srvAgents' = [srvAgents EXCEPT ![1].sid = RpcAgent.sid + 1] /\ UNCHANGED srvStdin
     \/ /\ Asked(srvLoop) = "shutdown"
        /\ srvStdin' = (IF srvStdin = "open" THEN "paused" ELSE srvStdin) /\ UNCHANGED srvAgents

(* Once the client has closed the pipe and the chain has run out; steering  *)
(* is not waited for, and answered all the same before the process ends.   *)
RpcReturns ==
  /\ srvUp /\ srvFront = "rpc" /\ srvStdin = "closed"
  /\ srvUnread = <<>> /\ srvQueue = <<>> /\ srvLoop = 0
  /\ srvUp' = FALSE
  /\ UNCHANGED <<srvPipeVars, srvUnread, srvLoop, srvQueue, srvAside, srvTurnVars, srvOut>>

-----------------------------------------------------------------------------
ServersProceed ==
  \/ AcpAwait \/ AcpRefuse \/ AcpFails \/ AcpAnswer \/ AcpCreated
  \/ AcpPromptRefused \/ AcpPrompt \/ AcpCancel \/ AcpShutdown
  \/ RpcAbort \/ RpcAtOnce \/ RpcSteer \/ RpcEnqueue \/ RpcBegin \/ RpcThrows \/ RpcResult \/ RpcReturns
  \/ \E id \in srvAside : RpcSteered(id)
  \/ \E a \in DOMAIN srvAgents : TurnSettles(a) \/ AcpEnd(a) \/ AcpFree(a)
ServersNext ==
  \/ ServersProceed
  \/ Ask \/ CloseStdin
  \/ \E a \in DOMAIN srvAgents : Notify(a)

ServersSpec == ServersInit /\ [][ServersNext]_srvVars /\ WF_srvVars(ServersProceed)

-----------------------------------------------------------------------------
(* Properties *)

Outputs(what, id) == {i \in DOMAIN srvOut : srvOut[i].what = what /\ srvOut[i].to = id}
Answers(id) == Outputs("result", id) \cup Outputs("error", id)
Queued == {"prompt", "ask", "swap", "shutdown", "unknown"}

\* What a client can rely on: a prompt that was accepted is run, not refused by
\* an agent that is still at another one; its events and its one end come after
\* its answer, the end last, and all under the session it was meant for
\* (acp-server.ts:112-125, 276-330); and the RPC server answers what it queues
\* in the order in which it was asked, its session never replaced under a turn
\* (rpc.ts:80-84).
ServedInTurn ==
  /\ \A i \in DOMAIN srvOut : srvOut[i].what # "refused"
  /\ srvFront = "acp" => \A i, j \in DOMAIN srvOut :
       /\ srvOut[i].what = "end" /\ srvOut[j].to = srvOut[i].to => j <= i
       /\ /\ srvOut[i].what \in {"event", "end"} /\ srvOut[j].what \in {"event", "end"}
          /\ srvOut[j].to = srvOut[i].to
          => srvOut[j].sid = srvOut[i].sid
       /\ srvOut[i].what \in {"event", "end"} => \E k \in Answers(srvOut[i].to) : k < i
  /\ srvFront = "rpc" =>
       /\ \A i, j \in DOMAIN srvOut :
            /\ Asked(srvOut[i].to) \in Queued /\ Asked(srvOut[j].to) \in Queued
            /\ srvOut[i].to < srvOut[j].to /\ srvOut[i].what # "event" /\ srvOut[j].what # "event"
            => i < j
       /\ RpcAgent.turn # 0 => RpcAgent.home = RpcAgent.sid

\* Every request is answered and every accepted prompt ended, whatever fails on
\* the way, unless the process was told to exit or stdin was paused.
RequestsAnswered ==
  []<>(\/ ~srvUp /\ srvFront = "acp"
       \/ srvStdin = "paused"
       \/ /\ \A id \in 1..srvSent : Answers(id) # {}
          /\ \A a \in DOMAIN srvAgents : srvAgents[a].state = "idle")
=============================================================================
