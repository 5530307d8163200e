---------------------------- MODULE ActionRuntime ----------------------------
(***************************************************************************)
(* LocalActionRuntime (action-backends) with its policy, its effect ledger *)
(* and its receipt journal, shared by the tasks that run at once on one    *)
(* LocalHarness or by the one session of an effect spine.                  *)
(*                                                                         *)
(* A task submits a list of intents and they are executed one after the    *)
(* other.  What happens between two awaits is one step: the cache, the     *)
(* tool and the policy are looked at together (Take), the user answers,    *)
(* the tool runs, the receipt is appended and cached.  Between these steps *)
(* other tasks take theirs, and the process may die.                       *)
(*                                                                         *)
(* Tool outputs, grants and digests are left out; an intent's content is   *)
(* the intent itself, so two intents with one id are "reused with          *)
(* different content" when they differ.  An unknown tool and a tool whose  *)
(* version or schema changed are the tool NoTool.                          *)
(***************************************************************************)
EXTENDS ActionPolicy, Sequences, FiniteSets, Functions

CONSTANTS
  ActionTask,     \* the tasks that share the runtime
  ActionLists,    \* ActionLists[t]: the lists of intents task t may submit
  Tool,           \* Tool[id]: [id, classes, observed, lines], or NoTool
  NoTool,
  ActionConfig,   \* the PolicyConfig
  MaxObserved,    \* the most risk one tool's effects add
  ActionModes,    \* bound: the approval modes tried
  MaxSubmits,     \* bound: submissions of each task, in all its lives
  MaxDeaths       \* bound: deaths of the process

ActionIntent ==
  UNION {UNION {Range(list) : list \in ActionLists[t]} : t \in ActionTask}

ActionId == {intent.id : intent \in ActionIntent}

ASSUME ActionAssumption ==
  /\ IsFiniteSet(ActionTask)
  /\ \A t \in ActionTask : ActionLists[t] \subseteq Seq(ActionIntent)
  /\ \A intent \in ActionIntent : intent.tool \in DOMAIN Tool /\ intent.claims \in Effects
  /\ ActionModes \subseteq ApprovalMode
  /\ MaxObserved \in Nat
  /\ ActionConfig.maxRisk \in Nat
  /\ \A t \in DOMAIN Tool : Tool[t] # NoTool =>
       Risk(Tool[t].observed) \in 0..MaxObserved

VARIABLES
  actMode,      \* PolicyConfig.approvalMode
  actPc,        \* where each task is in submit()
  actTodo,      \* the intents it has yet to execute, the current one first
  actOutcome,   \* how the current intent ended, until its receipt is cached
  actReceipts,  \* LocalActionRuntime.receipts: a set of [intent, status]
  actLedger,    \* EffectLedger: [risk, changed, lines, ids]
  actJournal,   \* the lines of the journal: [ids, whole], the receipts whose
                \* text is on the line and whether it is all there is on it
  actTorn,      \* the last line has no newline
  actSubmits,
  actDeaths,
  actRuns,      \* history: how often a tool ran for each id, in this life
  actRaced,     \* history: how often an id was taken while it was in flight
  actWarned,    \* history: the ids whose append failed, and was warned about
  actAcked      \* history: the ids whose receipt was returned, in all lives

taskVars == <<actPc, actTodo, actOutcome>>
diskVars == <<actJournal, actTorn, actWarned, actAcked>>
actionVars == <<actMode, taskVars, actReceipts, actLedger, diskVars, actSubmits,
                actDeaths, actRuns, actRaced>>

EmptyLedger == [risk |-> 0, changed |-> {}, lines |-> 0, ids |-> {}]

Current(t) == Head(actTodo[t])

\* The tasks whose current intent the policy let through and whose effects are
\* not recorded yet.
InFlight == {t \in ActionTask : actPc[t] \in {"approval", "running"}}

\* The tasks that execute the action id and have not cached its receipt.
Executing(id) ==
  {t \in ActionTask : actPc[t] \in {"approval", "running", "journaling"} /\ Current(t).id = id}

ActionInit ==
  /\ actMode \in ActionModes
  /\ actPc = [t \in ActionTask |-> "idle"]
  /\ actTodo = [t \in ActionTask |-> <<>>]
  /\ actOutcome = [t \in ActionTask |-> "none"]
  /\ actReceipts = {}
  /\ actLedger = EmptyLedger
  /\ actJournal = <<>>
  /\ actTorn = FALSE
  /\ actSubmits = [t \in ActionTask |-> 0]
  /\ actDeaths = 0
  /\ actRuns = [id \in ActionId |-> 0]
  /\ actRaced = [id \in ActionId |-> 0]
  /\ actWarned = {}
  /\ actAcked = {}

-----------------------------------------------------------------------------
Submit(t, list) ==
  /\ actPc[t] = "idle" /\ actSubmits[t] < MaxSubmits
  /\ actSubmits' = [actSubmits EXCEPT ![t] = @ + 1]
  /\ actPc' = [actPc EXCEPT ![t] = "next"]
  /\ actTodo' = [actTodo EXCEPT ![t] = list]
  /\ UNCHANGED <<actMode, actOutcome, actReceipts, actLedger, diskVars, actDeaths,
                 actRuns, actRaced>>

\* submit() returns, or throws what executeOne threw.
Leave(t) ==
  /\ actPc' = [actPc EXCEPT ![t] = "idle"]
  /\ actTodo' = [actTodo EXCEPT ![t] = <<>>]

AllDone(t) ==
  /\ actPc[t] = "next" /\ actTodo[t] = <<>>
  /\ Leave(t)
  /\ UNCHANGED <<actMode, actOutcome, actReceipts, actLedger, diskVars, actSubmits,
                 actDeaths, actRuns, actRaced>>

Cached(id) == {entry \in actReceipts : entry.intent.id = id}

\* A cached receipt is returned again, one of another content throws.
Recall(t) ==
  /\ actPc[t] = "next" /\ actTodo[t] # <<>> /\ Cached(Current(t).id) # {}
  /\ IF \E entry \in actReceipts : entry.intent = Current(t)
     THEN actTodo' = [actTodo EXCEPT ![t] = Tail(@)] /\ UNCHANGED actPc
     ELSE Leave(t)
  /\ UNCHANGED <<actMode, actOutcome, actReceipts, actLedger, diskVars, actSubmits,
                 actDeaths, actRuns, actRaced>>

ProjectedRisk(intent) == actLedger.risk + Risk(intent.claims)

Evaluate(intent) ==
  IF Tool[intent.tool] = NoTool THEN "deny"
  ELSE Disposition(intent, Tool[intent.tool], ActionConfig, actMode,
                   [files |-> Cardinality(actLedger.changed), lines |-> actLedger.lines],
                   ProjectedRisk(intent))

\* The receipt is ready to be journaled and cached.
Settle(t, status) ==
  /\ actPc' = [actPc EXCEPT ![t] = "journaling"]
  /\ actOutcome' = [actOutcome EXCEPT ![t] = status]

Take(t) ==
  LET intent == Current(t)
  IN  /\ actPc[t] = "next" /\ actTodo[t] # <<>> /\ Cached(intent.id) = {}
      /\ \/ /\ Evaluate(intent) = "deny"
            /\ Settle(t, "rejected")
            /\ UNCHANGED actRaced
         \/ /\ Evaluate(intent) # "deny"
            /\ actPc' = [actPc EXCEPT ![t] =
                 IF Evaluate(intent) = "grant" THEN "running" ELSE "approval"]
            /\ actRaced' = [actRaced EXCEPT ![intent.id] = @ + Cardinality(Executing(intent.id))]
            /\ UNCHANGED actOutcome
      /\ UNCHANGED <<actMode, actTodo, actReceipts, actLedger, diskVars, actSubmits,
                     actDeaths, actRuns>>

\* The approval port answers, or throws: then no receipt is written.
Approve(t, answer) ==
  /\ actPc[t] = "approval"
  /\ \/ /\ answer = "yes"
        /\ actPc' = [actPc EXCEPT ![t] = "running"]
        /\ UNCHANGED <<actTodo, actOutcome>>
     \/ /\ answer = "no"
        /\ Settle(t, "rejected")
        /\ UNCHANGED actTodo
     \/ /\ answer = "error"
        /\ Leave(t)
        /\ UNCHANGED actOutcome
  /\ UNCHANGED <<actMode, actReceipts, actLedger, diskVars, actSubmits, actDeaths,
                 actRuns, actRaced>>

\* EffectLedger.record
Record(intent) ==
  LET tool == Tool[intent.tool]
  IN  actLedger' =
        IF intent.id \in actLedger.ids THEN actLedger
        ELSE [risk    |-> actLedger.risk + Risk(tool.observed),
              changed |-> actLedger.changed \cup
                            (IF tool.observed["file_write"] > 0 THEN {intent.path} ELSE {}),
              lines   |-> actLedger.lines + tool.lines,
              ids     |-> actLedger.ids \cup {intent.id}]

\* The tool returns its effects or throws; what it did before it threw is not
\* recorded.
Run(t, applied) ==
  LET intent == Current(t)
  IN  /\ actPc[t] = "running"
      /\ actRuns' = [actRuns EXCEPT ![intent.id] = @ + 1]
      /\ IF applied THEN Record(intent) ELSE UNCHANGED actLedger
      /\ Settle(t, IF applied THEN "applied" ELSE "rejected")
      /\ UNCHANGED <<actMode, actTodo, actReceipts, diskVars, actSubmits, actDeaths, actRaced>>

-----------------------------------------------------------------------------
(* FileReceiptJournal *)

\* The file is opened for appending and nobody looks at its tail: text that
\* follows a line without a newline is glued to it, and is no receipt with it.
AppendText(ids, newline) ==
  /\ actJournal' = IF actTorn
       THEN [actJournal EXCEPT ![Len(actJournal)] =
               [ids |-> @.ids \cup ids, whole |-> FALSE]]
       ELSE Append(actJournal, [ids |-> ids, whole |-> ids # {}])
  /\ actTorn' = ~newline

\* A write that does not fail writes the line and its newline.
WriteLine(id) == AppendText({id}, TRUE)

\* An append that fails or dies leaves nothing, a first part of the line, all of
\* it but the newline, or all of it: the write may have been cut anywhere, or
\* the sync after it failed.
AppendCut(id) ==
  \/ UNCHANGED <<actJournal, actTorn>>
  \/ AppendText({}, FALSE)
  \/ AppendText({id}, FALSE)
  \/ WriteLine(id)

\* FileReceiptJournal.load: a corrupt line is a torn tail when it is the last,
\* and every receipt's loss when it is not: then load throws.
CorruptLines == {i \in DOMAIN actJournal : ~actJournal[i].whole}

JournalLoads == \A i \in CorruptLines : i = Len(actJournal)

LoadedReceipts ==
  IF JournalLoads THEN UNION {actJournal[i].ids : i \in DOMAIN actJournal \ CorruptLines} ELSE {}

\* Mutant: only what was applied is cached.
CacheApplied(t) ==
  actReceipts' = IF actOutcome[t] = "rejected" THEN actReceipts
    ELSE actReceipts \cup {[intent |-> Current(t), status |-> actOutcome[t]]}

\* Map.set: a later receipt of the id takes the place of an earlier one.
Cache(t) ==
  actReceipts' = (actReceipts \ Cached(Current(t).id))
                   \cup {[intent |-> Current(t), status |-> actOutcome[t]]}

\* LocalActionRuntime.cache: a failed append only warns.
Journal(t, appended) ==
  /\ actPc[t] = "journaling"
  /\ IF appended
     THEN WriteLine(Current(t).id) /\ UNCHANGED actWarned
     ELSE AppendCut(Current(t).id) /\ actWarned' = actWarned \cup {Current(t).id}
  /\ Cache(t)
  /\ actAcked' = actAcked \cup {Current(t).id}
  /\ actPc' = [actPc EXCEPT ![t] = "next"]
  /\ actTodo' = [actTodo EXCEPT ![t] = Tail(@)]
  /\ actOutcome' = [actOutcome EXCEPT ![t] = "none"]
  /\ UNCHANGED <<actMode, actLedger, actSubmits, actDeaths, actRuns, actRaced>>

\* A session changes its approval mode between two turns.
SetApprovalMode(mode) ==
  /\ actMode # "kernel" /\ mode \notin {"kernel", actMode}
  /\ \A t \in ActionTask : actPc[t] = "idle"
  /\ actMode' = mode
  /\ UNCHANGED <<taskVars, actReceipts, actLedger, diskVars, actSubmits, actDeaths,
                 actRuns, actRaced>>

\* The process dies, in the middle of an append perhaps.
Die ==
  /\ actDeaths < MaxDeaths
  /\ \E t \in ActionTask : actPc[t] # "idle"
  /\ \/ UNCHANGED <<actJournal, actTorn>>
     \/ \E t \in ActionTask :
          /\ actPc[t] = "journaling"
          /\ AppendCut(Current(t).id)
  /\ actDeaths' = actDeaths + 1
  /\ actPc' = [t \in ActionTask |-> "idle"]
  /\ actTodo' = [t \in ActionTask |-> <<>>]
  /\ actOutcome' = [t \in ActionTask |-> "none"]
  /\ actReceipts' = {}
  /\ actLedger' = EmptyLedger
  /\ actRuns' = [id \in ActionId |-> 0]
  /\ actRaced' = [id \in ActionId |-> 0]
  /\ UNCHANGED <<actMode, actSubmits, actWarned, actAcked>>

ActionNext ==
  \/ \E t \in ActionTask :
       \/ \E list \in ActionLists[t] : Submit(t, list)
       \/ AllDone(t) \/ Recall(t) \/ Take(t)
       \/ \E answer \in {"yes", "no", "error"} : Approve(t, answer)
       \/ \E ok \in BOOLEAN : Run(t, ok) \/ Journal(t, ok)
  \/ \E mode \in ActionModes : SetApprovalMode(mode)
  \/ Die

ActionSpec == ActionInit /\ [][ActionNext]_actionVars

-----------------------------------------------------------------------------
(* Properties *)

\* The policy compares the risk with its maximum before the user and the tool
\* are awaited, and does not reserve what it lets through
\* (local-action-runtime.ts:95).  However tasks interleave, the overrun is what
\* the actions in flight add, and there is one for each task at most.
RiskOverrunBounded ==
  actLedger.risk + MaxObserved * Cardinality(InFlight)
    <= ActionConfig.maxRisk + MaxObserved * Cardinality(ActionTask)

\* In one life of the process no tool runs twice for one action id, failed or
\* refused attempts included, but for ids that two tasks had in flight at once:
\* the cache is looked up before the first of them has filled it
\* (local-action-runtime.ts:76).
RunOnceUnlessRaced ==
  \A id \in ActionId : actRuns[id] <= 1 + actRaced[id]

\* The lines that end in a newline.
EndedLines == DOMAIN actJournal \ (IF actTorn THEN {Len(actJournal)} ELSE {})

\* The receipts that were returned, but for those the user was warned about.
KeptReceipts == actAcked \ actWarned

\* The text of a receipt that was returned stays on disk, on a line of its own
\* or glued to another, unless the warning said that its append failed.  And no
\* death and no failed append alone makes one unreadable, however many there
\* are: as long as every line that has a newline is whole, load returns all of
\* them.  What load makes of the file once a later receipt was glued to a torn
\* line is another matter: ReceiptsSurviveACrash.
ReceiptsOnDisk ==
  /\ KeptReceipts \subseteq UNION {actJournal[i].ids : i \in EndedLines}
  /\ EndedLines \cap CorruptLines = {} => KeptReceipts \subseteq LoadedReceipts

\* What the journal promises: it "guarantees receipts survive a crash so
\* recovery can inspect what ran" (receipt-journal.ts:23), and tolerates "torn
\* tails" because they are "only on the final line" (receipt-journal.ts:20).
\* A receipt survives if load returns it, so load must not throw, however the
\* process died, as long as no append failed.  The code breaks it: the process
\* that starts after the crash appends its first receipt to the torn line, and
\* with that line no longer the last, after its second receipt, load throws and
\* returns none, those from before the crash included (receipt-journal.ts:63).
ReceiptsSurviveACrash == actWarned = {} => JournalLoads

\* What a task's calls may cost is bounded, however they interleave, and what
\* their receipts are for holds: in this life the action a receipt is about is
\* not run again, and its text is in the journal for a later one.
ActionsAccounted == RiskOverrunBounded /\ RunOnceUnlessRaced /\ ReceiptsOnDisk

=============================================================================
