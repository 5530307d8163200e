------------------------------- MODULE RpcCalls -------------------------------
(***************************************************************************)
(* The calls of one child process that speaks JSON-RPC over its pipes: an  *)
(* extension's tool call, command or hook, an MCP request, a request of the*)
(* language server, or one POST of the HTTP MCP client.  An answer, the    *)
(* call's own timer, an abort, the death of the child and the closing of   *)
(* the client all want to settle the call; the table of pending calls      *)
(* decides who does.                                                       *)
(***************************************************************************)
EXTENDS Naturals

CONSTANTS RpcCall  \* calls made of the client, each once

VARIABLES rpcKind,   \* "extension", "mcp", "lsp" or "http"
          peer,      \* [child, attached, failed]: the process, this.child, exitError / status
          nextId,    \* the id of the next request
          call,      \* each call: [state, id, answered]
          pendingId, \* ids in the table of pending calls
          timer,     \* ids whose timer is armed
          inbox,     \* requests the server has and has not answered: [id, from]
          outbox     \* its answers, not yet read

rpcVars == <<rpcKind, peer, nextId, call, pendingId, timer, inbox, outbox>>

NoAnswer == "none"
RpcInit ==
  /\ rpcKind \in {"extension", "mcp", "lsp", "http"}
  /\ peer = [child |-> "up", attached |-> TRUE, failed |-> FALSE]
  /\ nextId = 1
  /\ call = [c \in RpcCall |-> [state |-> "new", id |-> 0, answered |-> NoAnswer]]
  /\ pendingId = {} /\ timer = {}
  /\ inbox = {} /\ outbox = {}

Pending(c) == call[c].state = "pending"
WaitingFor(id) == {c \in RpcCall : Pending(c) /\ call[c].id = id /\ id \in pendingId}
Settled(calls, state) == [c \in RpcCall |-> IF c \in calls THEN [call[c] EXCEPT !.state = state] ELSE call[c]]
Usable == peer.attached /\ ~peer.failed

(* An id no pending call has, which a timed-out one may have had.          *)
FreeId == CHOOSE i \in 1..nextId : i \notin pendingId /\ \A j \in 1..(i - 1) : j \in pendingId
NewId == nextId

(* request / invoke: refused when the client knows its child is gone; an   *)
(* extension call whose signal is already aborted is rejected after the    *)
(* timer was armed.  Writing to a child that died unnoticed settles no call*)
(* (the error of the pipe, to which only the extension host listens, is    *)
(* left out).                                                              *)
StartCall(c) ==
  /\ call[c].state = "new"
  /\ \/ /\ ~Usable
        /\ call' = [call EXCEPT ![c].state = "rejected"]
        /\ UNCHANGED <<nextId, pendingId, timer, inbox>>
     \/ /\ Usable
        /\ call' = [call EXCEPT ![c].state = "pending", ![c].id = NewId]
        /\ nextId' = nextId + 1
        /\ pendingId' = pendingId \cup {NewId}
        /\ timer' = timer \cup {NewId}
        /\ inbox' = IF peer.child = "up" THEN inbox \cup {[id |-> NewId, from |-> c]} ELSE inbox
     \/ /\ Usable /\ rpcKind = "extension"
        /\ call' = [call EXCEPT ![c].state = "rejected", ![c].id = NewId]
        /\ nextId' = nextId + 1
        /\ timer' = timer \cup {NewId}
        /\ UNCHANGED <<pendingId, inbox>>
  /\ UNCHANGED <<rpcKind, peer, outbox>>

(* The server answers its requests in any order, or never.                 *)
Serve(request) ==
  /\ peer.child = "up" /\ request \in inbox
  /\ inbox' = inbox \ {request}
  /\ outbox' = outbox \cup {request}
  /\ UNCHANGED <<rpcKind, peer, nextId, call, pendingId, timer>>

(* A line with an id: dropped when no pending call has that id.  An HTTP   *)
(* answer comes back on the call's own connection.                         *)
ReadAnswer(answer) ==
  /\ answer \in outbox
  /\ outbox' = outbox \ {answer}
  /\ pendingId' = pendingId \ {answer.id}
  /\ timer' = IF answer.id \in pendingId THEN timer \ {answer.id} ELSE timer
  /\ \E state \in {"resolved", "rejected"} :
       call' = [c \in RpcCall |->
                  IF c \in WaitingFor(answer.id)
                    THEN [call[c] EXCEPT !.state = state, !.answered = answer.from] ELSE call[c]]
  /\ UNCHANGED <<rpcKind, peer, nextId, inbox>>

(* What is left with the server when a call is given up: the extension host*)
(* sends a "cancel", an aborted POST drops its connection, the other two   *)
(* leave the request running.                                              *)
GivenUp(id) == {r \in inbox \cup outbox : r.id = id}
CancelAt(id) ==
  \/ UNCHANGED <<inbox, outbox>> /\ rpcKind # "http"
  \/ /\ rpcKind \in {"extension", "http"}
     /\ inbox' = inbox \ GivenUp(id)
     /\ outbox' = IF rpcKind = "http" THEN outbox \ GivenUp(id) ELSE outbox

Timeout(id) ==
  /\ id \in timer
  /\ timer' = timer \ {id}
  /\ pendingId' = pendingId \ {id}
  /\ call' = Settled(WaitingFor(id), "rejected")
  /\ CancelAt(id)
  /\ UNCHANGED <<rpcKind, peer, nextId>>

(* The turn is aborted while an extension's tool runs.                     *)
AbortCall(c) ==
  /\ rpcKind = "extension" /\ Pending(c) /\ call[c].id \in pendingId
  /\ call' = Settled({c}, "rejected")
  /\ pendingId' = pendingId \ {call[c].id}
  /\ timer' = timer \ {call[c].id}
  /\ CancelAt(call[c].id)
  /\ UNCHANGED <<rpcKind, peer, nextId>>

(* The child dies; what it had written can still be read.                  *)
ChildDies ==
  /\ peer.child = "up" /\ rpcKind # "http"
  /\ peer' = [peer EXCEPT !.child = "dead"]
  /\ inbox' = {}
  /\ UNCHANGED <<rpcKind, nextId, call, pendingId, timer, outbox>>

(* markDead / onProcessFailure, once: every pending call is rejected.      *)
DropPending == pendingId' = {} /\ timer' = timer \ pendingId /\ call' = call
RejectPending ==
  /\ pendingId' = {} /\ timer' = timer \ pendingId
  /\ call' = Settled({c \in RpcCall : Pending(c) /\ call[c].id \in pendingId}, "rejected")

(* The "exit" event of an extension; "close", which comes after the last   *)
(* line, of the others.                                                    *)
NoticeDeath ==
  /\ peer.child = "dead" /\ ~peer.failed
  /\ rpcKind \in {"mcp", "lsp"} => outbox = {}
  /\ peer' = [peer EXCEPT !.failed = TRUE]
  /\ RejectPending
  /\ UNCHANGED <<rpcKind, nextId, inbox, outbox>>

(* close / stopAll: the language server's client forgets its child before  *)
(* it would send "shutdown", so nothing is sent and its calls wait for the *)
(* "close" event; the others reject their calls first.                     *)
CloseClient ==
  /\ peer.attached
  /\ IF rpcKind = "lsp" \/ peer.failed
       THEN peer' = [peer EXCEPT !.attached = FALSE, !.child = "dead"]
            /\ UNCHANGED <<call, pendingId, timer>>
       ELSE peer' = [child |-> "dead", attached |-> FALSE, failed |-> TRUE] /\ RejectPending
  /\ inbox' = {}
  /\ outbox' = IF rpcKind = "http" THEN {} ELSE outbox
  /\ UNCHANGED <<rpcKind, nextId>>

RpcNext ==
  \/ \E c \in RpcCall : StartCall(c) \/ AbortCall(c)
  \/ \E request \in inbox : Serve(request)
  \/ \E answer \in outbox : ReadAnswer(answer)
  \/ \E id \in timer : Timeout(id)
  \/ ChildDies \/ NoticeDeath \/ CloseClient
RpcProceed == (\E id \in timer : Timeout(id)) \/ NoticeDeath
RpcSpec == RpcInit /\ [][RpcNext]_rpcVars /\ WF_rpcVars(RpcProceed)

(* A call that was answered got the answer to its own request, not the late*)
(* answer to one that timed out or was aborted.                            *)
AnswerIsItsOwn == \A c \in RpcCall : call[c].answered \in {NoAnswer, c}

(* Every call settles, although its server may never answer, the child may *)
(* die at any point and answers may come after the call was given up.      *)
CallsSettle == \A c \in RpcCall : []<>(~Pending(c))
=============================================================================
