----------------------------- MODULE EventStream ------------------------------
(***************************************************************************)
(* An agent's events on their way to who embeds it: the sink made of the   *)
(* integrator's callback and hooks, and on top of it, for the length of a  *)
(* turn, the queue of streamSubmit(), read by a "for await" loop.  The     *)
(* turn, the loop and the callbacks of the turn's promise are interleaved  *)
(* at every await.                                                         *)
(***************************************************************************)
EXTENDS Naturals, Sequences

CONSTANTS MaxStreams,    \* calls of streamSubmit(), numbered as they are made
          MaxTurnEvents  \* events of a turn before its last

ASSUME EventAssumption == MaxStreams \in Nat

VARIABLES esSink,    \* the agent's sink: Base, or the stream whose sink it is
          esTurn,    \* the call whose turn runs, Base for none
          esPhase,   \* "running", "failing": the catch has an error to emit
          esStream,  \* each call: [loop, previous, submit, closed, queue]
          esTold,    \* the events emitted in its turn
          esGot,     \* the events its loop has read
          esTangled  \* streams opened while another one was still open

eventVars == <<esSink, esTurn, esPhase, esStream, esTold, esGot, esTangled>>

StreamUser == 1..MaxStreams
Base == 0  \* the integrator's own sink

Terminal == {"agent_end", "error"}
MidTurn == {"tool_end", "recoverable"}
(* The integrator's callback, or the hook dispatchAgentEvent() finds for    *)
(* the event, lets the turn go on or throws, which fails it.               *)
SinkOutcome(onward) == {onward, "failing"}

EventStreamInit ==
  /\ esSink = Base /\ esTurn = Base /\ esPhase = "running"
  /\ esStream = [u \in StreamUser |->
       [loop |-> "new", previous |-> Base, submit |-> "none", closed |-> FALSE, queue |-> <<>>]]
  /\ esTold = [u \in StreamUser |-> <<>>] /\ esGot = [u \in StreamUser |-> <<>>]
  /\ esTangled = {}

OpenStreams == {u \in StreamUser : esStream[u].loop # "new" /\ ~esStream[u].closed}

-----------------------------------------------------------------------------
(* The turn *)

(* streamSubmit puts its sink over the one it finds and calls submit(),    *)
(* which throws while another turn runs, or for an empty prompt.           *)
OpenStream(u) ==
  /\ esStream[u].loop = "new" /\ \A v \in 1..(u - 1) : esStream[v].loop # "new"
  /\ esSink' = u
  /\ \/ /\ esTurn = Base
        /\ esTurn' = u /\ esPhase' = "running"
        /\ esStream' = [esStream EXCEPT ![u].loop = "reading", ![u].previous = esSink, ![u].submit = "pending"]
     \/ /\ esStream' = [esStream EXCEPT ![u].loop = "reading", ![u].previous = esSink, ![u].submit = "rejected"]
        /\ UNCHANGED <<esTurn, esPhase>>
  /\ esTangled' = IF OpenStreams = {} THEN esTangled ELSE esTangled \cup {u} \cup OpenStreams
  /\ UNCHANGED <<esTold, esGot>>

(* Every sink forwards to the one it found, before anything is awaited:    *)
(* what the agent's sink comes to is the least set with those below it.    *)
Forwarding(heard) ==
  {esSink} \cup {esStream[u].previous : u \in heard} \subseteq heard \cup {Base}
Hearing == {u \in StreamUser : \A heard \in SUBSET StreamUser : Forwarding(heard) => u \in heard}

(* A loop that waits is woken by what is put into its queue.               *)
WokenLoop(loop) == IF loop = "waiting" THEN "reading" ELSE loop
Pushed(stream, event) == [stream EXCEPT !.queue = Append(@, event), !.loop = WokenLoop(@)]

(* The queues have the event before the sinks below are asked.             *)
Tell(event) ==
  /\ esTold' = [esTold EXCEPT ![esTurn] = Append(@, event)]
  /\ esStream' = [u \in StreamUser |->
                    IF u \in Hearing THEN Pushed(esStream[u], event) ELSE esStream[u]]

EmitEvent(event) ==
  /\ esTurn # Base /\ esPhase = "running" /\ Len(esTold[esTurn]) < MaxTurnEvents
  /\ Tell(event)
  /\ esPhase' \in SinkOutcome("running")
  /\ UNCHANGED <<esSink, esTurn, esGot, esTangled>>

(* The audit journal, which hears of an event first, fails.                *)
AuditFails ==
  /\ esTurn # Base /\ esPhase = "running"
  /\ esPhase' = "failing"
  /\ UNCHANGED <<esSink, esTurn, esStream, esTold, esGot, esTangled>>

(* The end of a turn is emitted, and its promise settles later.            *)
EndPrompt ==
  /\ esTurn # Base /\ esPhase = "running"
  /\ Tell("agent_end")
  /\ esPhase' \in SinkOutcome("ended")
  /\ UNCHANGED <<esSink, esTurn, esGot, esTangled>>

(* What fails is emitted as an error, which may fail in turn, before or    *)
(* after the sink has it; a turn the spec engine aborts has no event.      *)
FailTurn ==
  /\ esTurn # Base /\ esPhase \in {"running", "failing"}
  /\ Tell("error")
  /\ esPhase' = "failed"
  /\ UNCHANGED <<esSink, esTurn, esGot, esTangled>>
SettleTurn(outcome) ==
  /\ esTurn # Base
  /\ \/ outcome = "resolved" /\ (esPhase = "running" => esTold[esTurn] = <<>>) /\ esPhase \in {"running", "ended"}
     \/ outcome = "rejected" /\ esPhase \in {"failing", "failed"}
  /\ esTurn' = Base /\ esPhase' = "running"
  /\ esStream' = [esStream EXCEPT ![esTurn].submit = outcome]
  /\ UNCHANGED <<esSink, esTold, esGot, esTangled>>

-----------------------------------------------------------------------------
(* The stream *)

\* Mutant: the end of the stream is not signalled.
ClosedUnseen(stream) == [stream EXCEPT !.closed = TRUE]
Closed(stream) == [stream EXCEPT !.closed = TRUE, !.loop = WokenLoop(@)]

(* closeStream, once the promise has settled: an error the queue does not  *)
(* hold is added, and the sink it found is put back.                       *)
CloseStream(u) ==
  /\ esStream[u].submit \in {"resolved", "rejected"} /\ ~esStream[u].closed
  /\ LET adds == esStream[u].submit = "rejected"
                   /\ ~\E i \in DOMAIN esStream[u].queue : esStream[u].queue[i] \in {"error", "recoverable"}
     IN  /\ esStream' = [esStream EXCEPT ![u] = Closed(IF adds THEN Pushed(@, "error") ELSE @)]
         /\ esTold' = [esTold EXCEPT ![u] = IF adds THEN Append(@, "error") ELSE @]
  /\ esSink' = esStream[u].previous
  /\ UNCHANGED <<esTurn, esPhase, esGot, esTangled>>

\* Mutant: a closed stream ends before its queue is drained.
DrainedOrClosed(u) == esStream[u].queue = <<>> \/ esStream[u].closed

Drained(u) == esStream[u].queue = <<>>

(* The loop takes what is queued up to a terminal event, and waits for     *)
(* more unless the stream is closed.                                       *)
ReadEvent(u) ==
  /\ esStream[u].loop = "reading" /\ ~Drained(u)
  /\ LET event == Head(esStream[u].queue)
     IN  /\ esGot' = [esGot EXCEPT ![u] = Append(@, event)]
         /\ esStream' = [esStream EXCEPT ![u].queue = Tail(@),
                                         ![u].loop = IF event \in Terminal THEN "returned" ELSE @]
  /\ UNCHANGED <<esSink, esTurn, esPhase, esTold, esTangled>>
AwaitEvent(u) ==
  /\ esStream[u].loop = "reading" /\ Drained(u)
  /\ esStream' = [esStream EXCEPT ![u].loop = IF esStream[u].closed THEN "returned" ELSE "waiting"]
  /\ UNCHANGED <<esSink, esTurn, esPhase, esTold, esGot, esTangled>>

(* The integrator leaves the loop.                                         *)
BreakLoop(u) ==
  /\ esStream[u].loop = "reading"
  /\ esStream' = [esStream EXCEPT ![u].loop = "broken"]
  /\ UNCHANGED <<esSink, esTurn, esPhase, esTold, esGot, esTangled>>

-----------------------------------------------------------------------------
EventsProceed ==
  \/ EndPrompt \/ FailTurn \/ SettleTurn("resolved") \/ SettleTurn("rejected")
  \/ \E u \in StreamUser : CloseStream(u) \/ ReadEvent(u) \/ AwaitEvent(u)
EventStreamNext ==
  \/ EventsProceed
  \/ AuditFails
  \/ \E event \in MidTurn : EmitEvent(event)
  \/ \E u \in StreamUser : OpenStream(u) \/ BreakLoop(u)

EventStreamSpec == EventStreamInit /\ [][EventStreamNext]_eventVars /\ WF_eventVars(EventsProceed)

-----------------------------------------------------------------------------
(* Properties *)

HasTerminal(events) == \E i \in DOMAIN events : events[i] \in Terminal

\* A loop over a stream reads the events of its own turn, each once and in
\* order, and ends behind the one that says so, if there is one; and when the
\* streams are closed the integrator's sink is back "as if streamSubmit was
\* never called" (async-iterable.ts:107-113).  Streams that are open at once
\* are let off: the sinks are put back in the order in which they settle.
StreamIsItsTurn ==
  /\ \A u \in StreamUser \ esTangled :
       /\ esGot[u] \o esStream[u].queue = esTold[u]
       /\ esStream[u].loop = "returned" /\ HasTerminal(esTold[u]) => HasTerminal(esGot[u])
  /\ esTangled = {} /\ OpenStreams = {} => esSink = Base

\* No loop waits for ever: also when the turn was refused, failed before its
\* first event, or ended without one.
LoopsEnd == []<>(\A u \in StreamUser : esStream[u].loop \notin {"reading", "waiting"})
=============================================================================
