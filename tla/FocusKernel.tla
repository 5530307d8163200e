----------------------------- MODULE FocusKernel -----------------------------
(***************************************************************************)
(* FocusKernel.run() of harness-core/src/focus-kernel.ts: workers drive    *)
(* one task through its states, one append to the event log at a time, and *)
(* may die between any two steps.                                          *)
(*                                                                         *)
(* Modelled: every append with its compare-and-swap on the log's length,   *)
(* every checkpoint save, the two reads run() starts with (another worker  *)
(* may act between them), replay, the orphan marks, the three budgets, all *)
(* decision kinds, the dispatch of each intent and the completion gate.    *)
(* Every step between two awaits is one action.                            *)
(*                                                                         *)
(* Abstracted: event payloads, down to what replay reads; the public plan, *)
(* down to the turn that wrote it; recentEvents and recentEffects, which   *)
(* only feed the model's prompt; wall time, which may run out at any turn. *)
(* FactPort is taken at its contract (an append is atomic and durable, a   *)
(* checkpoint save replaces the file): FactStore models how the file store *)
(* keeps it.  validateRequest rejects a run before it reads or writes      *)
(* anything and is left out.                                               *)
(***************************************************************************)
EXTENDS TaskStates, Integers, Sequences, FiniteSets

CONSTANTS
  Worker,       \* processes that may call run() for the task
  Action,       \* action identities the model may choose from
  NoCheckpoint, \* no checkpoint was saved yet
  MaxIntents,   \* intents in one decision (8 in the contract's schema)
  MaxTurns,     \* execution.budget.maxTurns
  MaxActions,   \* execution.budget.maxActions
  ReuseIds,     \* TRUE: the model may repeat an actionId
  MaxRuns       \* bound: calls of run() over the whole history

\* KernelCheckpointV1; the plan is named by the turn that wrote it.
Checkpoint ==
  [state : TaskState, version : Nat, turn : Nat, actions : Nat, plan : Nat,
   baseline : BOOLEAN]

ASSUME KernelAssumption ==
  /\ MaxIntents \in Nat \ {0}
  /\ MaxTurns \in Nat
  /\ MaxActions \in Nat
  /\ MaxRuns \in Nat
  /\ ReuseIds \in BOOLEAN
  /\ NoCheckpoint \notin Checkpoint

VARIABLES
  log,          \* the task's events, in the order of their seq
  checkpoint,   \* the saved checkpoint, or NoCheckpoint
  ran,          \* actions whose tool ran (the workspace, not a kernel variable)
  runs,         \* calls of run() so far
  pc,           \* where each worker's run() is
  ck,           \* each worker's own checkpoint object
  seen,         \* length of the log when the worker loaded existingEvents
  orphans,      \* orphans the worker has still to mark
  work,         \* the intents of the decision the worker is applying
  pos,          \* its position in `work'
  exit          \* where control goes when the current handler returns

vars == <<log, checkpoint, ran, runs, pc, ck, seen, orphans, work, pos, exit>>

-----------------------------------------------------------------------------
(* Events and what can be read off a sequence of them. *)

Event(kind, arg) == [kind |-> kind, arg |-> arg]

\* The payloads of the events of one kind.
ArgsOf(events, kind) ==
  {events[i].arg : i \in {j \in 1..Len(events) : events[j].kind = kind}}

\* The payload of the last event of a kind, if there is one.
LastArg(events, kind, default) ==
  LET at == {i \in 1..Len(events) : events[i].kind = kind}
      last(i) == \A j \in at : j <= i
  IN  IF \E i \in at : last(i) THEN events[CHOOSE i \in at : last(i)].arg
      ELSE default

StateOf(events) == LastArg(events, "TaskStateChanged", "CREATED")

\* newCheckpoint
NewCheckpoint ==
  [state |-> "CREATED", version |-> 0, turn |-> 0, actions |-> 0,
   plan |-> 0, baseline |-> FALSE]

\* The loop of replayAfterCheckpoint: the state, plan and baseline the missing
\* events carry, and one action counted for each identity among them.  A turn
\* is not counted: TurnStarted is not replayed.
Replay(c, events) ==
  LET missing == SubSeq(events, c.version + 1, Len(events))
  IN  [state    |-> LastArg(missing, "TaskStateChanged", c.state),
       version  |-> Len(events),
       turn     |-> c.turn,
       actions  |-> c.actions + Cardinality(ArgsOf(missing, "ActionStarted")
                               \cup ArgsOf(missing, "EffectObserved")),
       plan     |-> LastArg(missing, "PublicPlanRevised", c.plan),
       baseline |-> IF ArgsOf(missing, "PreflightCompleted") # {} THEN TRUE
                    ELSE c.baseline]

\* markOrphanedActionsUnknown: started, with neither a receipt nor a mark.
Orphans(events) ==
  ArgsOf(events, "ActionStarted")
    \ (ArgsOf(events, "EffectObserved") \cup ArgsOf(events, "EffectUnknown"))

\* Orphans are marked in the order in which they first started.
StartedFirst(events, a, b) ==
  \E i \in 1..Len(events) :
    /\ events[i] = Event("ActionStarted", a)
    /\ \A j \in 1..(i - 1) : events[j] # Event("ActionStarted", b)

-----------------------------------------------------------------------------
Init ==
  /\ log = <<>>
  /\ checkpoint = NoCheckpoint
  /\ ran = {}
  /\ runs = 0
  /\ pc = [w \in Worker |-> "idle"]
  /\ ck = [w \in Worker |-> NewCheckpoint]
  /\ seen = [w \in Worker |-> 0]
  /\ orphans = [w \in Worker |-> {}]
  /\ work = [w \in Worker |-> <<>>]
  /\ pos = [w \in Worker |-> 1]
  /\ exit = [w \in Worker |-> "saveTurn"]

Goto(w, next) == pc' = [pc EXCEPT ![w] = next]

\* The worker forgets its local state: run() returned, threw or died.
Leave(w) ==
  /\ Goto(w, "idle")
  /\ ck' = [ck EXCEPT ![w] = NewCheckpoint]
  /\ seen' = [seen EXCEPT ![w] = 0]
  /\ orphans' = [orphans EXCEPT ![w] = {}]
  /\ work' = [work EXCEPT ![w] = <<>>]
  /\ pos' = [pos EXCEPT ![w] = 1]
  /\ exit' = [exit EXCEPT ![w] = "saveTurn"]

\* Mutant: the version is not compared.
CommitBlindly(w, event, c) ==
  /\ log' = Append(log, event)
  /\ ck' = [ck EXCEPT ![w] = [c EXCEPT !.version = Len(log) + 1]]
  /\ UNCHANGED <<checkpoint, ran, runs, seen>>

\* append(): accepted when the log is as long as the worker's checkpoint says.
\* c is the worker's checkpoint with the fields this step changes.
Commit(w, event, c) ==
  /\ ck[w].version = Len(log)
  /\ log' = Append(log, event)
  /\ ck' = [ck EXCEPT ![w] = [c EXCEPT !.version = Len(log) + 1]]
  /\ UNCHANGED <<checkpoint, ran, runs, seen>>

\* transition(): the state change is appended, then made locally.
Transition(w, to) ==
  /\ LegalTransition(ck[w].state, to)
  /\ Commit(w, Event("TaskStateChanged", to), [ck[w] EXCEPT !.state = to])

\* One append between two points of run() that touches nothing else.
Step(w, from, event, next) ==
  /\ pc[w] = from
  /\ Commit(w, event, ck[w])
  /\ Goto(w, next)
  /\ UNCHANGED <<orphans, work, pos, exit>>

\* One state change between two points of run().
Shift(w, from, to, next) ==
  /\ pc[w] = from
  /\ Transition(w, to)
  /\ Goto(w, next)
  /\ UNCHANGED <<orphans, work, pos, exit>>

\* saveCheckpoint(): no compare-and-swap, the last writer wins.
Save(w) ==
  /\ checkpoint' = ck[w]
  /\ UNCHANGED <<log, ran, runs>>

\* The points at which the next step is an append.
AppendPoints ==
  { "markOrphan", "blockOrphans", "toReconciling", "create", "toPreflight",
    "baseline", "toReady", "toRunning", "turn", "decide", "block", "toBlocked",
    "respond", "toWaiting", "revisePlan", "delegate", "request", "start",
    "grant", "observe", "candidate", "toVerifying", "verify", "passed",
    "failed" }

\* An append that lost the race throws, and run() with it.
Conflict(w) ==
  /\ pc[w] \in AppendPoints
  /\ ck[w].version # Len(log)
  /\ Leave(w)
  /\ UNCHANGED <<log, checkpoint, ran, runs>>

\* The process dies; a port that throws ends the run the same way.  The last
\* call of run() in a history does not die.
Crash(w) ==
  /\ pc[w] # "idle"
  /\ runs < MaxRuns
  /\ Leave(w)
  /\ UNCHANGED <<log, checkpoint, ran, runs>>

-----------------------------------------------------------------------------
(* Start of run(): load, replay, mark orphans, resume. *)

\* loadEvents
LoadEvents(w) ==
  /\ pc[w] = "idle"
  /\ runs < MaxRuns
  /\ runs' = runs + 1
  /\ seen' = [seen EXCEPT ![w] = Len(log)]
  /\ Goto(w, "loadCheckpoint")
  /\ UNCHANGED <<log, checkpoint, ran, ck, orphans, work, pos, exit>>

\* loadCheckpoint, then replay.  A checkpoint newer than the events loaded
\* before it is discarded.
LoadCheckpoint(w) ==
  LET events  == SubSeq(log, 1, seen[w])
      base    == IF checkpoint = NoCheckpoint THEN NewCheckpoint
                 ELSE IF checkpoint.version > seen[w] THEN NewCheckpoint
                 ELSE checkpoint
      open    == Orphans(events)
  IN  /\ pc[w] = "loadCheckpoint"
      /\ ck' = [ck EXCEPT ![w] = Replay(base, events)]
      /\ orphans' = [orphans EXCEPT ![w] = open]
      /\ Goto(w, IF open # {} THEN "markOrphan"
                 ELSE IF base.version < seen[w] THEN "saveReplay"
                 ELSE "resume")
      /\ UNCHANGED <<log, checkpoint, ran, runs, seen, work, pos, exit>>

\* EffectUnknown, one append per orphan.
MarkOrphan(w) ==
  /\ pc[w] = "markOrphan"
  /\ \E a \in orphans[w] :
       /\ \A b \in orphans[w] : StartedFirst(log, a, b)
       /\ Commit(w, Event("EffectUnknown", a), ck[w])
       /\ orphans' = [orphans EXCEPT ![w] = @ \ {a}]
       /\ Goto(w, IF orphans[w] = {a} THEN "saveReplay" ELSE "markOrphan")
  /\ UNCHANGED <<work, pos, exit>>

SaveReplay(w) ==
  /\ pc[w] = "saveReplay"
  /\ Save(w)
  /\ Goto(w, "resume")
  /\ UNCHANGED <<ck, seen, orphans, work, pos, exit>>

\* A task at rest, or one that awaits reconciliation, is returned as it is.
ReturnAtOnce(w) ==
  /\ pc[w] = "resume"
  /\ ck[w].state \in QuiescentStates \cup {"RECONCILING"}
  /\ Leave(w)
  /\ UNCHANGED <<log, checkpoint, ran, runs>>

\* Mutant: a RUNNING task is resumed without looking for orphans.
ResumeOverOrphans(w) ==
  LET state == ck[w].state
  IN  /\ pc[w] = "resume"
      /\ \/ state = "RUNNING" /\ Goto(w, "turn")
         \/ state = "CREATED" /\ Goto(w, "create")
         \/ state = "PREFLIGHT" /\ Goto(w, "toReady")
         \/ state = "READY" /\ Goto(w, "toRunning")
         \/ state = "VERIFYING" /\ Goto(w, "gate")
      /\ UNCHANGED <<log, checkpoint, ran, runs, ck, seen, orphans, work, pos, exit>>

\* Mutant: a task found in VERIFYING is saved and returned.
ResumeWithoutGate(w) ==
  LET state == ck[w].state
  IN  /\ pc[w] = "resume"
      /\ \/ state = "RUNNING" /\ Goto(w, "turn")
         \/ state = "CREATED" /\ Goto(w, "create")
         \/ state = "PREFLIGHT" /\ Goto(w, "toReady")
         \/ state = "READY" /\ Goto(w, "toRunning")
         \/ state = "VERIFYING" /\ Goto(w, "saveFinal")
      /\ UNCHANGED <<log, checkpoint, ran, runs, ck, seen, orphans, work, pos, exit>>

\* Otherwise run() goes on from the state it replayed; the test for orphans
\* reads the log again.
Resume(w) ==
  LET state == ck[w].state
      orphaned == ArgsOf(log, "EffectUnknown") # {}
      created == ArgsOf(SubSeq(log, 1, seen[w]), "TaskCreated") # {}
  IN  /\ pc[w] = "resume"
      /\ \/ state = "RUNNING" /\ orphaned /\ Goto(w, "blockOrphans")
         \/ state = "RUNNING" /\ ~orphaned /\ Goto(w, "turn")
         \/ state = "CREATED" /\ ~created /\ Goto(w, "create")
         \/ state = "CREATED" /\ created /\ Goto(w, "toPreflight")
         \/ state = "PREFLIGHT" /\ ~ck[w].baseline /\ Goto(w, "baseline")
         \/ state = "PREFLIGHT" /\ ck[w].baseline /\ Goto(w, "toReady")
         \/ state = "READY" /\ Goto(w, "toRunning")
         \/ state = "VERIFYING" /\ Goto(w, "gate")
      /\ exit' = [exit EXCEPT ![w] = IF state = "VERIFYING" THEN "saveFinal" ELSE @]
      /\ UNCHANGED <<log, checkpoint, ran, runs, ck, seen, orphans, work, pos>>

\* Window C: a task with an orphan is blocked for reconciliation.
BlockOrphans(w) == Step(w, "blockOrphans", Event("TaskBlocked", ""), "toReconciling")
ToReconciling(w) == Shift(w, "toReconciling", "RECONCILING", "saveFinal")

\* CREATED to RUNNING
Create(w) == Step(w, "create", Event("TaskCreated", ""), "toPreflight")
ToPreflight(w) == Shift(w, "toPreflight", "PREFLIGHT", "baseline")

Baseline(w) ==
  /\ pc[w] = "baseline"
  /\ Commit(w, Event("PreflightCompleted", ""), [ck[w] EXCEPT !.baseline = TRUE])
  /\ Goto(w, "toReady")
  /\ UNCHANGED <<orphans, work, pos, exit>>

ToReady(w) == Shift(w, "toReady", "READY", "savePreflight")

SavePreflight(w) ==
  /\ pc[w] = "savePreflight"
  /\ Save(w)
  /\ Goto(w, "toRunning")
  /\ UNCHANGED <<ck, seen, orphans, work, pos, exit>>

ToRunning(w) == Shift(w, "toRunning", "RUNNING", "turn")

-----------------------------------------------------------------------------
(* The turn loop. *)

\* A budget has run out; wall time may have at any turn.
ExhaustBudget(w) ==
  /\ pc[w] = "turn" /\ ck[w].state = "RUNNING"
  /\ \E wallTimeExpired \in BOOLEAN :
       \/ ck[w].turn >= MaxTurns
       \/ ck[w].actions >= MaxActions
       \/ wallTimeExpired
  /\ Commit(w, Event("TaskBlocked", ""), ck[w])
  /\ Goto(w, "toBlocked")
  /\ exit' = [exit EXCEPT ![w] = "saveFinal"]
  /\ UNCHANGED <<orphans, work, pos>>

StartTurn(w) ==
  /\ pc[w] = "turn" /\ ck[w].state = "RUNNING"
  /\ ck[w].turn < MaxTurns
  /\ ck[w].actions < MaxActions
  /\ Commit(w, Event("TurnStarted", ""), [ck[w] EXCEPT !.turn = @ + 1])
  /\ Goto(w, "decide")
  /\ UNCHANGED <<orphans, work, pos, exit>>

\* The model's answer is incomplete or unparseable.
RejectDecision(w) ==
  /\ pc[w] = "decide"
  /\ Commit(w, Event("ModelDecisionRejected", ""), ck[w])
  /\ Goto(w, "block")
  /\ exit' = [exit EXCEPT ![w] = "saveFinal"]
  /\ UNCHANGED <<orphans, work, pos>>

\* Where applyDecision goes for each kind of decision.  "respond" stands for
\* ask_user too: both record an event and wait for input.
DecisionPoint == {"respond", "revisePlan", "delegate", "candidate"}

AcceptDecision(w) ==
  /\ pc[w] = "decide"
  /\ Commit(w, Event("ModelDecisionAccepted", ""), ck[w])
  /\ \E next \in DecisionPoint : Goto(w, next)
  /\ UNCHANGED <<orphans, work, pos, exit>>

\* Identities in use: on record, or in a decision a worker is applying.
UsedActions ==
  ArgsOf(log, "ActionStarted")
    \cup UNION {{work[w][i].action : i \in 1..Len(work[w])} :
                  w \in {v \in Worker : pc[v] \in {"request", "start"}}}

\* The intents a decision may carry.  The prompt asks for unique identities;
\* no code enforces it.
IntentLists ==
  LET lists == UNION {[1..n -> Action] : n \in 1..MaxIntents}
  IN  IF ReuseIds THEN lists
      ELSE {l \in lists : /\ \A i \in DOMAIN l : l[i] \notin UsedActions
                          /\ \A i, j \in DOMAIN l : l[i] = l[j] => i = j}

\* A tool_intent decision: refused as a whole when it exceeds the budget.
AcceptIntents(w) ==
  /\ pc[w] = "decide"
  /\ Commit(w, Event("ModelDecisionAccepted", ""), ck[w])
  /\ \E intents \in IntentLists :
       IF ck[w].actions + Len(intents) > MaxActions
       THEN Goto(w, "block") /\ UNCHANGED work
       ELSE /\ Goto(w, "request")
            /\ work' = [work EXCEPT ![w] =
                 [i \in DOMAIN intents |-> [action |-> intents[i], granted |-> FALSE]]]
  /\ UNCHANGED <<orphans, pos, exit>>

\* block(): the reason, then the state.
Block(w) == Step(w, "block", Event("TaskBlocked", ""), "toBlocked")
ToBlocked(w) == Shift(w, "toBlocked", "BLOCKED", exit[w])

Respond(w) == Step(w, "respond", Event("ResponseProduced", ""), "toWaiting")
ToWaiting(w) == Shift(w, "toWaiting", "WAITING_INPUT", "saveTurn")

RevisePlan(w) ==
  /\ pc[w] = "revisePlan"
  /\ Commit(w, Event("PublicPlanRevised", ck[w].turn),
            [ck[w] EXCEPT !.plan = ck[w].turn])
  /\ Goto(w, "saveTurn")
  /\ UNCHANGED <<orphans, work, pos, exit>>

Delegate(w) == Step(w, "delegate", Event("DelegationRejected", ""), "block")

-----------------------------------------------------------------------------
(* tool_intent: record, dispatch, observe. *)

\* Mutant: a start is recorded with its receipt, not before the dispatch.
RequestAndSubmit(w) == Step(w, "request", Event("ActionRequested", ""), "submit")

Request(w) == Step(w, "request", Event("ActionRequested", ""), "start")

\* ActionStarted for every intent, before any of them is dispatched.
StartAction(w) ==
  /\ pc[w] = "start"
  /\ Commit(w, Event("ActionStarted", work[w][pos[w]].action), ck[w])
  /\ IF pos[w] < Len(work[w])
     THEN /\ pos' = [pos EXCEPT ![w] = @ + 1]
          /\ UNCHANGED pc
     ELSE /\ Goto(w, "submit")
          /\ pos' = [pos EXCEPT ![w] = 1]
  /\ UNCHANGED <<orphans, work, exit>>

\* Where the receipt loop goes for its next receipt.
ReceiptPoint(intents, i) == IF intents[i].granted THEN "grant" ELSE "observe"

\* effects.submit() takes the intents in order: policy grants one and its tool
\* runs, or it is refused.  With the last one come the receipts, and the
\* actions are counted.
Execute(w) ==
  /\ pc[w] = "submit"
  /\ \E granted \in BOOLEAN :
       LET intents == [work[w] EXCEPT ![pos[w]].granted = granted]
       IN  /\ work' = [work EXCEPT ![w] = intents]
           /\ ran' = IF granted THEN ran \cup {intents[pos[w]].action} ELSE ran
           /\ IF pos[w] < Len(intents)
              THEN /\ pos' = [pos EXCEPT ![w] = @ + 1]
                   /\ UNCHANGED <<pc, ck>>
              ELSE /\ pos' = [pos EXCEPT ![w] = 1]
                   /\ Goto(w, ReceiptPoint(intents, 1))
                   /\ ck' = [ck EXCEPT ![w].actions = @ + Len(intents)]
  /\ UNCHANGED <<log, checkpoint, runs, seen, orphans, exit>>

RecordGrant(w) == Step(w, "grant", Event("GrantIssued", ""), "observe")

RecordEffect(w) ==
  /\ pc[w] = "observe"
  /\ Commit(w, Event("EffectObserved", work[w][pos[w]].action), ck[w])
  /\ IF pos[w] < Len(work[w])
     THEN /\ Goto(w, ReceiptPoint(work[w], pos[w] + 1))
          /\ pos' = [pos EXCEPT ![w] = @ + 1]
          /\ UNCHANGED work
     ELSE /\ Goto(w, "saveTurn")
          /\ pos' = [pos EXCEPT ![w] = 1]
          /\ work' = [work EXCEPT ![w] = <<>>]
  /\ UNCHANGED <<orphans, exit>>

-----------------------------------------------------------------------------
(* completion_candidate and the gate. *)

Propose(w) == Step(w, "candidate", Event("CompletionCandidateProposed", ""), "toVerifying")
ToVerifying(w) == Shift(w, "toVerifying", "VERIFYING", "gate")

VerdictPoint(v) == IF v = "PASS" THEN "passed" ELSE "failed"

\* resumeCompletionGate: a recorded verdict is used again.
ReadGate(w) ==
  LET verdict == LastArg(log, "VerificationCompleted", "none")
  IN  /\ pc[w] = "gate"
      /\ Goto(w, IF verdict = "none" THEN "verify" ELSE VerdictPoint(verdict))
      /\ UNCHANGED <<log, checkpoint, ran, runs, ck, seen, orphans, work, pos, exit>>

\* The verifier's conclusion, PASS or one of the others.
Verify(w) ==
  /\ pc[w] = "verify"
  /\ \E v \in {"PASS", "NOT_PASS"} :
       /\ Commit(w, Event("VerificationCompleted", v), ck[w])
       /\ Goto(w, VerdictPoint(v))
  /\ UNCHANGED <<orphans, work, pos, exit>>

Passed(w) == Shift(w, "passed", "REVIEW_READY", exit[w])
Failed(w) == Shift(w, "failed", "BLOCKED", exit[w])

\* Mutant: a turn that leaves the task RUNNING is not saved.
SaveTurnAtRest(w) ==
  /\ pc[w] = "saveTurn"
  /\ IF ck[w].state = "RUNNING" THEN UNCHANGED <<log, checkpoint, ran, runs>> ELSE Save(w)
  /\ Goto(w, IF ck[w].state = "RUNNING" THEN "turn" ELSE "saveFinal")
  /\ UNCHANGED <<ck, seen, orphans, work, pos, exit>>

\* The save that ends a turn.
SaveTurn(w) ==
  /\ pc[w] = "saveTurn"
  /\ Save(w)
  /\ Goto(w, IF ck[w].state = "RUNNING" THEN "turn" ELSE "saveFinal")
  /\ UNCHANGED <<ck, seen, orphans, work, pos, exit>>

\* The save run() returns from.
SaveFinal(w) ==
  /\ pc[w] = "saveFinal"
  /\ Save(w)
  /\ Leave(w)

-----------------------------------------------------------------------------
\* What a worker does on its own, once run() is called.
Proceed(w) ==
  \/ LoadCheckpoint(w) \/ MarkOrphan(w) \/ SaveReplay(w)
  \/ ReturnAtOnce(w) \/ Resume(w) \/ BlockOrphans(w) \/ ToReconciling(w)
  \/ Create(w) \/ ToPreflight(w) \/ Baseline(w) \/ ToReady(w)
  \/ SavePreflight(w) \/ ToRunning(w)
  \/ ExhaustBudget(w) \/ StartTurn(w) \/ RejectDecision(w)
  \/ AcceptDecision(w) \/ AcceptIntents(w) \/ Block(w) \/ ToBlocked(w)
  \/ Respond(w) \/ ToWaiting(w) \/ RevisePlan(w) \/ Delegate(w)
  \/ Request(w) \/ StartAction(w) \/ Execute(w) \/ RecordGrant(w)
  \/ RecordEffect(w) \/ Propose(w) \/ ToVerifying(w) \/ ReadGate(w)
  \/ Verify(w) \/ Passed(w) \/ Failed(w) \/ SaveTurn(w) \/ SaveFinal(w)
  \/ Conflict(w)

Next == \E w \in Worker : LoadEvents(w) \/ Proceed(w) \/ Crash(w)

Spec == Init /\ [][Next]_vars

\* Every await of run() is on a call that returns or throws, so a worker that
\* is not killed goes on; whoever asked for the task runs it again.
Fairness == \A w \in Worker : WF_vars(Proceed(w)) /\ WF_vars(LoadEvents(w))

FairSpec == Spec /\ Fairness

-----------------------------------------------------------------------------
(* Properties *)

EventKind ==
  { "TaskCreated", "TaskStateChanged", "PreflightCompleted", "TurnStarted",
    "ModelDecisionRejected", "ModelDecisionAccepted", "ResponseProduced",
    "PublicPlanRevised", "DelegationRejected", "ActionRequested",
    "ActionStarted", "GrantIssued", "EffectObserved", "EffectUnknown",
    "CompletionCandidateProposed", "VerificationCompleted", "TaskBlocked" }

Point ==
  AppendPoints \cup { "idle", "loadCheckpoint", "saveReplay", "resume",
                      "savePreflight", "submit", "gate", "saveTurn", "saveFinal" }

\* Every variable stays within what the program can hold.
TypeOK ==
  /\ \A i \in 1..Len(log) :
       /\ log[i].kind \in EventKind
       /\ log[i].kind = "TaskStateChanged" => log[i].arg \in TaskState
       /\ log[i].kind = "ActionStarted" => log[i].arg \in Action
  /\ checkpoint \in Checkpoint \cup {NoCheckpoint}
  /\ ran \subseteq Action
  /\ runs \in 0..MaxRuns
  /\ pc \in [Worker -> Point]
  /\ ck \in [Worker -> Checkpoint]
  /\ seen \in [Worker -> Nat]
  /\ orphans \in [Worker -> SUBSET Action]
  /\ pos \in [Worker -> Nat \ {0}]
  /\ exit \in [Worker -> {"saveTurn", "saveFinal"}]

\* No tool has run whose start is not on record: ActionStarted is durable before
\* the intent is dispatched, whatever dies in between (focus-kernel.ts:259-267,
\* crash window C).
WriteAhead == ran \subseteq ArgsOf(log, "ActionStarted")

\* A saved checkpoint is what a fresh replay of the events up to its version
\* gives: whichever worker saved it, live or recovering, whatever crashed
\* before it, the state, the plan, the baseline and the number of actions are
\* those on record, so no action is counted twice or not at all.
\* (focus-kernel.ts:371-423, "Budget accounting during replay"; no save is
\* guarded by the log.)
CheckpointIsFold ==
  checkpoint # NoCheckpoint =>
    LET prefix == SubSeq(log, 1, checkpoint.version)
    IN  /\ checkpoint.version <= Len(log)
        /\ checkpoint.state = StateOf(prefix)
        /\ checkpoint.plan = LastArg(prefix, "PublicPlanRevised", 0)
        /\ checkpoint.baseline = (ArgsOf(prefix, "PreflightCompleted") # {})
        /\ checkpoint.actions = Cardinality(ArgsOf(prefix, "ActionStarted"))

\* Once an action is marked UNKNOWN the kernel issues no decision on the task
\* again, whichever worker holds it: only further marks and the block for
\* reconciliation follow (focus-kernel.ts:83-102).
NoDecisionAfterUnknown ==
  \A i, j \in 1..Len(log) :
    i < j /\ log[i].kind = "EffectUnknown" =>
      \/ log[j].kind \in {"EffectUnknown", "TaskBlocked"}
      \/ log[j] = Event("TaskStateChanged", "RECONCILING")

\* What a resumed worker relies on, its checkpoint, and what it must not do.
RecoverySound == CheckpointIsFold /\ NoDecisionAfterUnknown

\* The task's public story: every step of every worker is a step of the ledger
\* or invisible to it.  This carries the write-ahead rule, the gate and the
\* action budget of TaskLedger over to the workers, crashes included.
Ledger == INSTANCE TaskLedger WITH
  state    <- StateOf(log),
  started  <- ArgsOf(log, "ActionStarted"),
  observed <- ArgsOf(log, "EffectObserved"),
  unknown  <- ArgsOf(log, "EffectUnknown"),
  verdict  <- LastArg(log, "VerificationCompleted", "none")

ImplementsLedger == Ledger!Spec

Turns == Cardinality({i \in 1..Len(log) : log[i].kind = "TurnStarted"})

\* With one worker at a time, each restart can cost the turn budget at most
\* the one turn whose checkpoint was not saved.
TurnOverrunBounded == Turns <= MaxTurns + (IF runs = 0 THEN 0 ELSE runs - 1)

\* A call of run() that is not killed returns or throws: the turn loop ends.
RunTerminates == \A w \in Worker : []<>(pc[w] = "idle")

\* A task that is run again after every crash comes to rest, or to
\* RECONCILING: no crash leaves it wedged half-way (focus-kernel.ts:56-63,
\* 127-138).
TaskSettles == <>[](StateOf(log) \in QuiescentStates \cup {"RECONCILING"})

\* Every run ends, and with the last of them the task.
RunsAndTaskEnd == RunTerminates /\ TaskSettles

-----------------------------------------------------------------------------
(* What the documents say and the code does not do. *)

\* No turn starts while an action is started without a receipt and without an
\* UNKNOWN mark.
Occurrences(kind, a) == {i \in 1..Len(log) : log[i] = Event(kind, a)}

NoTurnOverOrphan ==
  \A w \in Worker : pc[w] = "decide" /\ ck[w].version = Len(log) =>
    \A a \in Action :
      Cardinality(Occurrences("ActionStarted", a)) <=
        Cardinality(Occurrences("EffectObserved", a))
          + Cardinality(Occurrences("EffectUnknown", a))
=============================================================================
