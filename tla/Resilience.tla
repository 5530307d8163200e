------------------------------ MODULE Resilience ------------------------------
(***************************************************************************)
(* The model client of buildModelClientChain (sdk/model-client-chain.ts):  *)
(* a FallbackModelClient over one CircuitBreakingModelClient per model of  *)
(* the chain, used by several agents at once (an agent and its children    *)
(* share one client).  Each link of the chain has a circuit breaker and a  *)
(* bulkhead, a semaphore that queues.                                      *)
(*                                                                         *)
(* A call passes the gate and takes its slot, or its place in the queue,   *)
(* in one step, for complete() awaits nothing between them; the answer is  *)
(* recorded, the probe ended and the slot handed on in another.  The clock *)
(* is abstracted to whether the cooldown has elapsed since the circuit     *)
(* last opened.  What the provider answers is chosen freely; the retries   *)
(* of the transport are part of an answer.  The events of an attempt are   *)
(* buffered until it wins and are left out.                                *)
(***************************************************************************)
EXTENDS Integers, Sequences, FiniteSets

CONSTANTS
  Call,         \* the agents that share the client
  LastLink,     \* the chain is 1..LastLink, 1 being the primary model
  Threshold,    \* circuitThreshold
  Limit,        \* maxConcurrency
  MaxRequests   \* bound: requests made in all

ASSUME ResilienceAssumption ==
  /\ LastLink \in Nat \ {0}
  /\ Threshold \in Nat \ {0}
  /\ Limit \in Nat \ {0}
  /\ MaxRequests \in Nat

VARIABLES
  state,      \* BreakerEntry.state of each link
  failures,   \* BreakerEntry.consecutiveFailures
  cooled,     \* the cooldown has elapsed since openedAt
  probing,    \* BreakerEntry.probeInFlight
  active,     \* Semaphore.active
  waiting,    \* Semaphore.waiting
  pc,         \* where each call is in complete()
  link,       \* the link it is at
  probe,      \* it was admitted as a probe
  aborted,    \* request.signal.aborted
  requests    \* requests so far

breakerVars == <<state, failures, cooled, probing>>
bulkheadVars == <<active, waiting>>
callVars == <<pc, link, probe, aborted>>
vars == <<breakerVars, bulkheadVars, callVars, requests>>

Link == 1..LastLink

\* "ok" is any response but the next two; "retryable" an HTTP status the chain
\* goes on after, "fatal" any other error.
Answer == {"ok", "error", "aborted", "retryable", "fatal"}

Init ==
  /\ state = [l \in Link |-> "closed"]
  /\ failures = [l \in Link |-> 0]
  /\ cooled = [l \in Link |-> FALSE]
  /\ probing = [l \in Link |-> FALSE]
  /\ active = [l \in Link |-> 0]
  /\ waiting = [l \in Link |-> <<>>]
  /\ pc = [c \in Call |-> "idle"]
  /\ link = [c \in Call |-> 1]
  /\ probe = [c \in Call |-> FALSE]
  /\ aborted = [c \in Call |-> FALSE]
  /\ requests = 0

-----------------------------------------------------------------------------
(* The callers and the clock *)

Request(c) ==
  /\ pc[c] = "idle" /\ requests < MaxRequests
  /\ requests' = requests + 1
  /\ pc' = [pc EXCEPT ![c] = "enter"]
  /\ UNCHANGED <<breakerVars, bulkheadVars, link, probe, aborted>>

Abort(c) ==
  /\ pc[c] # "idle" /\ ~aborted[c]
  /\ aborted' = [aborted EXCEPT ![c] = TRUE]
  /\ UNCHANGED <<breakerVars, bulkheadVars, pc, link, probe, requests>>

\* The cooldown of an open circuit elapses.
Cool(l) ==
  /\ state[l] = "open" /\ ~cooled[l]
  /\ cooled' = [cooled EXCEPT ![l] = TRUE]
  /\ UNCHANGED <<state, failures, probing, bulkheadVars, callVars, requests>>

-----------------------------------------------------------------------------
(* FallbackModelClient.complete *)

\* The request is over.
Finish(c) ==
  /\ pc' = [pc EXCEPT ![c] = "idle"]
  /\ link' = [link EXCEPT ![c] = 1]
  /\ aborted' = [aborted EXCEPT ![c] = FALSE]

\* The next link is asked, if there is one.
FallBack(c) ==
  IF link[c] < LastLink
  THEN /\ pc' = [pc EXCEPT ![c] = "enter"]
       /\ link' = [link EXCEPT ![c] = @ + 1]
       /\ UNCHANGED aborted
  ELSE Finish(c)

-----------------------------------------------------------------------------
(* CircuitBreakingModelClient.complete *)

\* gate() throws CircuitOpenError.
Refuses(l) ==
  \/ state[l] = "open" /\ ~cooled[l]
  \/ state[l] = "half-open" /\ probing[l]

Refuse(c) ==
  /\ pc[c] = "enter" /\ Refuses(link[c])
  /\ FallBack(c)
  /\ UNCHANGED <<breakerVars, bulkheadVars, probe, requests>>

\* Semaphore.acquire: a slot, or a place in the queue.
Acquire(c, l) ==
  IF active[l] < Limit
  THEN /\ active' = [active EXCEPT ![l] = @ + 1]
       /\ pc' = [pc EXCEPT ![c] = "calling"]
       /\ UNCHANGED waiting
  ELSE /\ waiting' = [waiting EXCEPT ![l] = Append(@, c)]
       /\ pc' = [pc EXCEPT ![c] = "waiting"]
       /\ UNCHANGED active

Admit(c) ==
  LET l == link[c]
  IN  /\ pc[c] = "enter" /\ ~Refuses(l)
      /\ \/ /\ state[l] = "closed"
            /\ UNCHANGED <<state, probing, probe>>
         \/ /\ state[l] # "closed"
            /\ state' = [state EXCEPT ![l] = "half-open"]
            /\ probing' = [probing EXCEPT ![l] = TRUE]
            /\ probe' = [probe EXCEPT ![c] = TRUE]
      /\ Acquire(c, l)
      /\ UNCHANGED <<failures, cooled, link, aborted, requests>>

\* Any success closes the circuit.
RecordSuccess(l) ==
  /\ state' = [state EXCEPT ![l] = "closed"]
  /\ failures' = [failures EXCEPT ![l] = 0]
  /\ UNCHANGED cooled

Open(l) ==
  /\ state' = [state EXCEPT ![l] = "open"]
  /\ cooled' = [cooled EXCEPT ![l] = FALSE]

\* A caller's abort is not counted; a probe's failure opens the circuit again;
\* any other counts.
RecordFailure(c, l) ==
  \/ /\ aborted[c]
     /\ UNCHANGED <<state, failures, cooled>>
  \/ /\ ~aborted[c] /\ probe[c]
     /\ Open(l)
     /\ UNCHANGED failures
  \/ /\ ~aborted[c] /\ ~probe[c]
     /\ failures' = [failures EXCEPT ![l] = @ + 1]
     /\ IF failures'[l] >= Threshold THEN Open(l) ELSE UNCHANGED <<state, cooled>>

\* Mutant: the probe's end is recorded only when it succeeds.
EndProbeOnSuccess(c, l) ==
  /\ probing' = [probing EXCEPT ![l] = @ /\ ~(probe[c] /\ state'[l] = "closed")]
  /\ probe' = [probe EXCEPT ![c] = FALSE]

EndProbe(c, l) ==
  /\ probing' = [probing EXCEPT ![l] = @ /\ ~probe[c]]
  /\ probe' = [probe EXCEPT ![c] = FALSE]

\* Semaphore.release: the slot goes to the first that waits, if any.
Release(l) ==
  IF waiting[l] # <<>>
  THEN waiting' = [waiting EXCEPT ![l] = Tail(@)] /\ UNCHANGED active
  ELSE active' = [active EXCEPT ![l] = @ - 1] /\ UNCHANGED waiting

\* Who is handed a slot of link l.
Woken(l) == IF waiting'[l] # waiting[l] THEN {Head(waiting[l])} ELSE {}

\* The provider's client returns or throws.  When the caller has aborted it
\* returns an empty response that says "aborted"; the chain goes on after an
\* error response or a retryable error.
Complete(c, answer) ==
  LET l == link[c]
      goesOn == answer \in {"error", "retryable"} /\ l < LastLink
  IN  /\ pc[c] = "calling"
      /\ answer = "aborted" => aborted[c]
      /\ IF answer \in {"ok", "aborted"} THEN RecordSuccess(l) ELSE RecordFailure(c, l)
      /\ EndProbe(c, l)
      /\ Release(l)
      /\ pc' = [p \in Call |-> IF p = c THEN IF goesOn THEN "enter" ELSE "idle"
                               ELSE IF p \in Woken(l) THEN "calling"
                               ELSE pc[p]]
      /\ link' = [link EXCEPT ![c] = IF goesOn THEN l + 1 ELSE 1]
      /\ aborted' = [aborted EXCEPT ![c] = @ /\ goesOn]
      /\ UNCHANGED requests

-----------------------------------------------------------------------------
Proceed(c) ==
  \/ Refuse(c) \/ Admit(c)
  \/ \E answer \in Answer : Complete(c, answer)

Next ==
  \/ \E c \in Call : Request(c) \/ Abort(c) \/ Proceed(c)
  \/ \E l \in Link : Cool(l)

Spec == Init /\ [][Next]_vars

\* A provider's client answers or times out.
FairSpec == Spec /\ \A c \in Call : WF_vars(Proceed(c))

-----------------------------------------------------------------------------
(* Properties *)

TypeOK ==
  /\ state \in [Link -> {"closed", "open", "half-open"}]
  /\ failures \in [Link -> 0..MaxRequests]
  /\ cooled \in [Link -> BOOLEAN]
  /\ probing \in [Link -> BOOLEAN]
  /\ active \in [Link -> 0..Limit]
  /\ \A l \in Link : waiting[l] \in Seq(Call)
  /\ pc \in [Call -> {"idle", "enter", "waiting", "calling"}]
  /\ link \in [Call -> Link]
  /\ probe \in [Call -> BOOLEAN]
  /\ aborted \in [Call -> BOOLEAN]
  /\ requests \in 0..MaxRequests

Calling(l) == {c \in Call : pc[c] = "calling" /\ link[c] = l}
Waiting(l) == {c \in Call : pc[c] = "waiting" /\ link[c] = l}

\* A circuit that refuses because of a probe has that probe in flight, so it
\* cannot refuse for ever, however probes and late answers overlap
\* (circuit-breaker.ts:97, 138-142).
ProbeInFlight ==
  \A l \in Link : probing[l] =>
    \E c \in Calling(l) \cup Waiting(l) : probe[c]

\* A closed circuit has not seen as many failures in a row as open it, whatever
\* calls from before it opened have answered since (circuit-breaker.ts:146-161).
ClosedMeansHealthy ==
  \A l \in Link : state[l] = "closed" => failures[l] < Threshold

\* A link's state, count and probe flag agree, in whatever order the answers of
\* overlapping calls come (circuit-breaker.ts:128-164).
BreakerSound == ProbeInFlight /\ ClosedMeansHealthy

\* Every request is answered: no call waits for ever for a slot or for the
\* chain, if the providers' clients answer.
RequestEnds == \A c \in Call : []<>(pc[c] = "idle")

-----------------------------------------------------------------------------
(* What the documents say and the code does not do. *)

\* "A caller-side abort says nothing about provider health; never count it."
\* (circuit-breaker.ts:152)
AbortNeverCounts ==
  [][\A c \in Call :
       Complete(c, "aborted") => state' = state /\ failures' = failures]_vars
=============================================================================
