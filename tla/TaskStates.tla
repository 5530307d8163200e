------------------------------ MODULE TaskStates ------------------------------
(***************************************************************************)
(* The task state machine of harness-core/src/state-machine.ts: the states *)
(* a task can be in, the transitions assertTransition accepts, and the     *)
(* states in which the kernel leaves a task alone.                         *)
(***************************************************************************)

\* TaskStateV1, the keys of the TRANSITIONS table.
TaskState ==
  { "CREATED", "PREFLIGHT", "WAITING_INPUT", "READY", "RUNNING",
    "WAITING_APPROVAL", "PAUSED", "VERIFYING", "REVIEW_READY", "RECONCILING",
    "BLOCKED", "ACCEPTED", "REJECTED", "CANCELLING", "CANCELLED", "FAILED",
    "EXPIRED" }

\* TRANSITIONS: what each state may become.
Transitions ==
  [ CREATED          |-> {"PREFLIGHT", "CANCELLING", "FAILED", "EXPIRED"},
    PREFLIGHT        |-> {"WAITING_INPUT", "READY", "BLOCKED", "CANCELLING",
                          "FAILED"},
    WAITING_INPUT    |-> {"READY", "CANCELLING", "CANCELLED", "EXPIRED"},
    READY            |-> {"RUNNING", "CANCELLING", "FAILED", "EXPIRED"},
    RUNNING          |-> {"WAITING_INPUT", "WAITING_APPROVAL", "PAUSED",
                          "VERIFYING", "REVIEW_READY", "RECONCILING",
                          "BLOCKED", "CANCELLING", "FAILED", "EXPIRED"},
    WAITING_APPROVAL |-> {"RUNNING", "CANCELLING", "CANCELLED", "EXPIRED"},
    PAUSED           |-> {"RUNNING", "CANCELLING", "CANCELLED", "EXPIRED"},
    VERIFYING        |-> {"RUNNING", "REVIEW_READY", "BLOCKED", "CANCELLING",
                          "FAILED"},
    REVIEW_READY     |-> {"ACCEPTED", "REJECTED", "RUNNING", "CANCELLING",
                          "EXPIRED"},
    RECONCILING      |-> {"RUNNING", "BLOCKED", "WAITING_APPROVAL", "FAILED"},
    BLOCKED          |-> {"RUNNING", "CANCELLING", "CANCELLED", "EXPIRED"},
    ACCEPTED         |-> {},
    REJECTED         |-> {},
    CANCELLING       |-> {"CANCELLED", "BLOCKED", "FAILED"},
    CANCELLED        |-> {},
    FAILED           |-> {},
    EXPIRED          |-> {} ]

\* assertTransition: a state may stay what it is or move along the table.
LegalTransition(from, to) == to = from \/ to \in Transitions[from]

\* isTerminalState
TerminalStates == {"ACCEPTED", "REJECTED", "CANCELLED", "FAILED", "EXPIRED"}

\* isQuiescentState: run() returns at once on a task in one of these.
QuiescentStates ==
  TerminalStates \cup
    {"WAITING_INPUT", "WAITING_APPROVAL", "PAUSED", "REVIEW_READY", "BLOCKED"}
=============================================================================
