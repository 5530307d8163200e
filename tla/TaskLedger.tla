------------------------------ MODULE TaskLedger ------------------------------
(***************************************************************************)
(* What the Audited Focus Kernel promises about one task, said without     *)
(* workers, checkpoints or crashes.  It is the specification FocusKernel   *)
(* implements: its variables are what a reader of the event log (and of    *)
(* the workspace, for `ran') can tell.                                     *)
(*                                                                         *)
(*  - No tool runs unless the start of its action is already on record,    *)
(*    and none runs once the completion gate has recorded a verdict.       *)
(*  - An action on record either has its receipt or is marked UNKNOWN      *)
(*    before the task leaves RUNNING; after the first UNKNOWN mark nothing *)
(*    new starts and the task can only go to RECONCILING.                  *)
(*  - A task reaches REVIEW_READY only from a recorded PASS.               *)
(*  - No more actions than the budget are ever started.                    *)
(***************************************************************************)
EXTENDS TaskStates, Integers, FiniteSets

CONSTANTS
  Action,       \* the identities an action may have
  MaxActions    \* execution.budget.maxActions

VARIABLES
  state,        \* the state the last TaskStateChanged event names
  started,      \* actions with an ActionStarted event
  observed,     \* actions with an EffectObserved event
  unknown,      \* actions with an EffectUnknown event
  ran,          \* actions whose tool ran at least once
  verdict       \* what VerificationCompleted recorded, "none" before it

vars == <<state, started, observed, unknown, ran, verdict>>

Verdict == {"PASS", "NOT_PASS"}

\* Actions whose outcome is still open.
Pending == started \ (observed \cup unknown)

Init ==
  /\ state = "CREATED"
  /\ started = {} /\ observed = {} /\ unknown = {} /\ ran = {}
  /\ verdict = "none"

-----------------------------------------------------------------------------
\* An action goes on record before it is dispatched.
Start(a) ==
  /\ state = "RUNNING" /\ unknown = {}
  /\ a \notin started
  /\ Cardinality(started) < MaxActions
  /\ started' = started \cup {a}
  /\ UNCHANGED <<state, observed, unknown, ran, verdict>>

\* A dispatched tool runs.  A worker presumed dead may still do so after its
\* action was marked UNKNOWN: that is what UNKNOWN means.
Run(a) ==
  /\ a \in started \ observed
  /\ verdict = "none"
  /\ ran' = ran \cup {a}
  /\ UNCHANGED <<state, started, observed, unknown, verdict>>

\* The receipt of an action is recorded, never after it was marked UNKNOWN.
Observe(a) ==
  /\ state = "RUNNING" /\ unknown = {}
  /\ a \in Pending
  /\ observed' = observed \cup {a}
  /\ UNCHANGED <<state, started, unknown, ran, verdict>>

\* Recovery marks an action whose receipt is missing.
MarkUnknown(a) ==
  /\ state = "RUNNING"
  /\ a \in Pending
  /\ unknown' = unknown \cup {a}
  /\ UNCHANGED <<state, started, observed, ran, verdict>>

\* The completion gate records its verdict, once, on a settled task.
Verify(v) ==
  /\ state = "VERIFYING" /\ verdict = "none"
  /\ verdict' = v
  /\ UNCHANGED <<state, started, observed, unknown, ran>>

\* The task changes state.
Move(to) ==
  /\ LegalTransition(state, to)
  /\ Pending = {}
  /\ (unknown # {}) = (to = "RECONCILING")
  /\ to = "REVIEW_READY" => verdict = "PASS"
  /\ state = "VERIFYING" => verdict # "none"
  /\ state \notin QuiescentStates \cup {"RECONCILING"}
  /\ state' = to
  /\ UNCHANGED <<started, observed, unknown, ran, verdict>>

Next ==
  \/ \E a \in Action : Start(a) \/ Run(a) \/ Observe(a) \/ MarkUnknown(a)
  \/ \E v \in Verdict : Verify(v)
  \/ \E to \in TaskState : Move(to)

Spec == Init /\ [][Next]_vars
=============================================================================
