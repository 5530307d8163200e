--------------------------- MODULE FocusKernelProofs ---------------------------
(***************************************************************************)
(* Theorems about FocusKernel, for every set of workers and actions and    *)
(* every budget: its variables stay in their types, and no tool runs whose *)
(* start is not on record.                                                 *)
(*                                                                         *)
(* Neither is inductive by itself: the dispatch of an intent is safe only  *)
(* because, at "submit", every intent of the decision has been recorded,   *)
(* and that because "start" goes through them one by one.  Inv says so.    *)
(***************************************************************************)
EXTENDS FocusKernel, FiniteSetTheorems, SequenceTheorems, TLAPS

Intent == [action : Action, granted : BOOLEAN]

\* Events as the kernel appends them: what replay reads, and the rest.
PlainKind ==
  EventKind \ { "TaskStateChanged", "PublicPlanRevised", "ActionStarted",
                "EffectObserved", "EffectUnknown", "VerificationCompleted" }

LogEvent ==
       [kind : PlainKind, arg : {""}]
  \cup [kind : {"TaskStateChanged"}, arg : TaskState]
  \cup [kind : {"PublicPlanRevised"}, arg : Nat]
  \cup [kind : {"ActionStarted", "EffectObserved", "EffectUnknown"}, arg : Action]
  \cup [kind : {"VerificationCompleted"}, arg : {"PASS", "NOT_PASS"}]

\* The points of run() at which `work' and `pos' are in use.
IntentPoints == {"request", "start", "submit", "grant", "observe"}

Started == ArgsOf(log, "ActionStarted")

TypeInv ==
  /\ log \in Seq(LogEvent)
  /\ checkpoint \in Checkpoint \cup {NoCheckpoint}
  /\ ran \subseteq Action
  /\ runs \in 0..MaxRuns
  /\ pc \in [Worker -> Point]
  /\ ck \in [Worker -> Checkpoint]
  /\ seen \in [Worker -> Nat]
  /\ orphans \in [Worker -> SUBSET Action]
  /\ work \in [Worker -> Seq(Intent)]
  /\ pos \in [Worker -> Nat \ {0}]
  /\ exit \in [Worker -> {"saveTurn", "saveFinal"}]
  /\ \A w \in Worker : seen[w] <= Len(log)

\* Where a worker is in its intents, and which of them are on record.
WorkInv(w) ==
  /\ pc[w] \in IntentPoints => pos[w] \in 1..Len(work[w])
  /\ pc[w] \notin IntentPoints \/ pc[w] = "request" => pos[w] = 1
  /\ pc[w] = "start" => \A i \in 1..(pos[w] - 1) : work[w][i].action \in Started
  /\ pc[w] = "submit" => \A i \in 1..Len(work[w]) : work[w][i].action \in Started

Inv ==
  /\ TypeInv
  /\ \A w \in Worker : WorkInv(w)
  /\ WriteAhead

-----------------------------------------------------------------------------
(* What can be read off a log. *)

\* Appending an event adds its payload to those of its kind and to no other.
LEMMA ArgsOfAppend ==
  ASSUME NEW S, NEW l \in Seq(S), NEW e \in S, NEW kind
  PROVE  ArgsOf(Append(l, e), kind) =
           ArgsOf(l, kind) \cup (IF e.kind = kind THEN {e.arg} ELSE {})
<1> DEFINE m == Append(l, e)
           n == Len(l)
<1>1. /\ n \in Nat
      /\ Len(m) = n + 1
      /\ m[n + 1] = e
      /\ \A i \in 1..n : m[i] = l[i]
  OBVIOUS
<1> HIDE DEF m
<1>2. ASSUME NEW x \in ArgsOf(m, kind)
      PROVE  x \in ArgsOf(l, kind) \cup (IF e.kind = kind THEN {e.arg} ELSE {})
  <2>1. PICK i \in 1..Len(m) : m[i].kind = kind /\ x = m[i].arg
    BY <1>2 DEF ArgsOf
  <2>2. CASE i = n + 1
    BY <1>1, <2>1, <2>2
  <2>3. CASE i # n + 1
    <3>1. i \in 1..n /\ m[i] = l[i]
      BY <1>1, <2>1, <2>3
    <3> QED BY <2>1, <3>1 DEF ArgsOf
  <2> QED BY <2>2, <2>3
<1>3. ASSUME NEW x \in ArgsOf(l, kind)
      PROVE  x \in ArgsOf(m, kind)
  <2>1. PICK i \in 1..n : l[i].kind = kind /\ x = l[i].arg
    BY <1>3 DEF ArgsOf
  <2>2. i \in 1..Len(m) /\ m[i] = l[i]
    BY <1>1, <2>1
  <2> QED BY <2>1, <2>2 DEF ArgsOf
<1>4. e.kind = kind => e.arg \in ArgsOf(m, kind)
  <2>1. n + 1 \in 1..Len(m)
    BY <1>1
  <2> QED BY <1>1, <2>1 DEF ArgsOf
<1> QED
  BY <1>2, <1>3, <1>4 DEF m

\* A log has finitely many payloads of a kind.
LEMMA ArgsOfFinite ==
  ASSUME NEW S, NEW l \in Seq(S), NEW kind
  PROVE  IsFiniteSet(ArgsOf(l, kind))
<1> DEFINE at == {j \in 1..Len(l) : l[j].kind = kind}
           f == [i \in at |-> l[i].arg]
<1>1. IsFiniteSet(at)
  BY FS_Interval, FS_Subset
<1>2. f \in Surjection(at, ArgsOf(l, kind))
  BY DEF ArgsOf, Surjection
<1> QED
  BY <1>1, <1>2, FS_Surjection

\* The last payload of a kind has the type of all of them.
LEMMA LastArgType ==
  ASSUME NEW S, NEW l \in Seq(S), NEW kind, NEW V, NEW default \in V,
         \A i \in 1..Len(l) : l[i].kind = kind => l[i].arg \in V
  PROVE  LastArg(l, kind, default) \in V
  BY DEF LastArg

\* Every payload of a log is of the type its kind has.
LEMMA Payloads ==
  ASSUME NEW l \in Seq(LogEvent)
  PROVE  \A i \in 1..Len(l) :
           /\ l[i].kind \in EventKind
           /\ l[i].kind = "TaskStateChanged" => l[i].arg \in TaskState
           /\ l[i].kind = "PublicPlanRevised" => l[i].arg \in Nat
           /\ l[i].kind \in {"ActionStarted", "EffectObserved", "EffectUnknown"}
                => l[i].arg \in Action
<1> TAKE i \in 1..Len(l)
<1>1. l[i] \in LogEvent
  OBVIOUS
<1> QED
  BY <1>1 DEF LogEvent, PlainKind, EventKind

\* Replaying a typed log onto a checkpoint gives a checkpoint.
LEMMA ReplayType ==
  ASSUME NEW c \in Checkpoint, NEW l \in Seq(LogEvent)
  PROVE  Replay(c, l) \in Checkpoint
<1> DEFINE missing == SubSeq(l, c.version + 1, Len(l))
           acted == ArgsOf(missing, "ActionStarted") \cup ArgsOf(missing, "EffectObserved")
<1>1. missing \in Seq(LogEvent)
  BY DEF Checkpoint
<1>2. \A i \in 1..Len(missing) :
         /\ missing[i].kind = "TaskStateChanged" => missing[i].arg \in TaskState
         /\ missing[i].kind = "PublicPlanRevised" => missing[i].arg \in Nat
  BY <1>1, Payloads
<1>3. LastArg(missing, "TaskStateChanged", c.state) \in TaskState
  <2>1. c.state \in TaskState
    BY DEF Checkpoint
  <2> QED BY <1>1, <1>2, <2>1, LastArgType
<1>4. LastArg(missing, "PublicPlanRevised", c.plan) \in Nat
  <2>1. c.plan \in Nat
    BY DEF Checkpoint
  <2> QED BY <1>1, <1>2, <2>1, LastArgType
<1>5. Cardinality(acted) \in Nat
  BY <1>1, ArgsOfFinite, FS_Union, FS_CardinalityType
<1>6. Len(l) \in Nat
  OBVIOUS
<1>7. c.turn \in Nat /\ c.actions \in Nat /\ c.baseline \in BOOLEAN
  BY DEF Checkpoint
<1> DEFINE baseline == IF ArgsOf(missing, "PreflightCompleted") # {} THEN TRUE
                       ELSE c.baseline
<1>8. baseline \in BOOLEAN
  BY <1>7
<1>9. Replay(c, l) =
        [state    |-> LastArg(missing, "TaskStateChanged", c.state),
         version  |-> Len(l),
         turn     |-> c.turn,
         actions  |-> c.actions + Cardinality(acted),
         plan     |-> LastArg(missing, "PublicPlanRevised", c.plan),
         baseline |-> baseline]
  BY DEF Replay
<1> HIDE DEF missing, acted, baseline
<1> QED
  BY <1>3, <1>4, <1>5, <1>6, <1>7, <1>8, <1>9 DEF Checkpoint

-----------------------------------------------------------------------------
(* The ways in which run() touches the state. *)

\* What run() appends are events of the log.
LEMMA Events ==
  /\ \A kind \in PlainKind : Event(kind, "") \in LogEvent
  /\ \A to \in TaskState : Event("TaskStateChanged", to) \in LogEvent
  /\ \A n \in Nat : Event("PublicPlanRevised", n) \in LogEvent
  /\ \A a \in Action : /\ Event("ActionStarted", a) \in LogEvent
                        /\ Event("EffectObserved", a) \in LogEvent
                        /\ Event("EffectUnknown", a) \in LogEvent
  /\ \A v \in {"PASS", "NOT_PASS"} : Event("VerificationCompleted", v) \in LogEvent
  BY DEF Event, LogEvent

\* An append keeps the log typed and only adds to what is on record.
LEMMA CommitInv ==
  ASSUME TypeInv, NEW w \in Worker, NEW e \in LogEvent, NEW c \in Checkpoint,
         Commit(w, e, c)
  PROVE  /\ log' \in Seq(LogEvent)
         /\ ck' \in [Worker -> Checkpoint]
         /\ \A v \in Worker : seen[v] <= Len(log')
         /\ Started' = Started \cup (IF e.kind = "ActionStarted" THEN {e.arg} ELSE {})
         /\ UNCHANGED <<checkpoint, ran, runs, seen>>
<1>1. log \in Seq(LogEvent) /\ log' = Append(log, e) /\ Len(log) \in Nat
  BY DEF TypeInv, Commit
<1>2. log' \in Seq(LogEvent) /\ Len(log') = Len(log) + 1
  BY <1>1
<1>3. [c EXCEPT !.version = Len(log) + 1] \in Checkpoint
  BY <1>1 DEF Checkpoint
<1>4. ck' \in [Worker -> Checkpoint]
  BY <1>3 DEF TypeInv, Commit
<1>5. \A v \in Worker : seen[v] <= Len(log')
  BY <1>1, <1>2 DEF TypeInv
<1>6. Started' = Started \cup (IF e.kind = "ActionStarted" THEN {e.arg} ELSE {})
  BY <1>1, ArgsOfAppend DEF Started
<1> QED
  BY <1>2, <1>4, <1>5, <1>6 DEF Commit

\* The workers that do not move keep their intents as long as nothing is taken
\* off the record.
LEMMA OthersKept ==
  ASSUME Inv, NEW w \in Worker, Started \subseteq Started',
         \A v \in Worker \ {w} :
           pc'[v] = pc[v] /\ work'[v] = work[v] /\ pos'[v] = pos[v]
  PROVE  \A v \in Worker \ {w} : WorkInv(v)'
  BY DEF Inv, WorkInv

\* A plain append between two points of run().
LEMMA StepInv ==
  ASSUME Inv, NEW w \in Worker, NEW from \in Point, NEW next \in Point,
         NEW e \in LogEvent, Step(w, from, e, next),
         \/ from \notin IntentPoints /\ next \notin IntentPoints \cup {"submit"}
         \/ from = "request" /\ next = "start"
         \/ from = "grant" /\ next = "observe"
  PROVE  Inv'
<1>1. ck[w] \in Checkpoint
  BY DEF Inv, TypeInv
<1>2. Commit(w, e, ck[w]) /\ pc[w] = from /\ pc' = [pc EXCEPT ![w] = next]
      /\ UNCHANGED <<orphans, work, pos, exit>>
  BY DEF Step, Goto
<1>3. /\ log' \in Seq(LogEvent)
      /\ ck' \in [Worker -> Checkpoint]
      /\ \A v \in Worker : seen[v] <= Len(log')
      /\ Started \subseteq Started'
      /\ UNCHANGED <<checkpoint, ran, runs, seen>>
  BY <1>1, <1>2, CommitInv DEF Inv
<1>4. TypeInv'
  BY <1>2, <1>3 DEF Inv, TypeInv
<1>5. \A v \in Worker \ {w} : WorkInv(v)'
  BY <1>2, <1>3, OthersKept DEF Inv, TypeInv
<1>6. WorkInv(w)'
  BY <1>2 DEF Inv, TypeInv, WorkInv, IntentPoints
<1>7. WriteAhead'
  BY <1>3 DEF Inv, WriteAhead, Started
<1> QED
  BY <1>4, <1>5, <1>6, <1>7 DEF Inv

\* An append between two points outside the intents, whatever else it sets.
LEMMA CommitGotoInv ==
  ASSUME Inv, NEW w \in Worker, pc[w] \notin IntentPoints,
         NEW next \in Point \ IntentPoints, next # "submit",
         NEW e \in LogEvent, NEW c \in Checkpoint,
         Commit(w, e, c), Goto(w, next), UNCHANGED <<work, pos>>,
         orphans' \in [Worker -> SUBSET Action],
         exit' \in [Worker -> {"saveTurn", "saveFinal"}]
  PROVE  Inv'
<1>1. /\ log' \in Seq(LogEvent)
      /\ ck' \in [Worker -> Checkpoint]
      /\ \A v \in Worker : seen[v] <= Len(log')
      /\ Started \subseteq Started'
      /\ UNCHANGED <<checkpoint, ran, runs, seen>>
  BY CommitInv DEF Inv
<1>2. pc' = [pc EXCEPT ![w] = next]
  BY DEF Goto
<1>3. TypeInv'
  BY <1>1, <1>2 DEF Inv, TypeInv
<1>4. \A v \in Worker \ {w} : WorkInv(v)'
  BY <1>1, <1>2, OthersKept DEF Inv, TypeInv
<1>5. WorkInv(w)'
  BY <1>2 DEF Inv, TypeInv, WorkInv, IntentPoints
<1>6. WriteAhead'
  BY <1>1 DEF Inv, WriteAhead, Started
<1> QED
  BY <1>3, <1>4, <1>5, <1>6 DEF Inv

\* A state change between two points of run().
LEMMA ShiftInv ==
  ASSUME Inv, NEW w \in Worker, NEW from \in Point \ IntentPoints,
         NEW to \in TaskState, NEW next \in Point \ IntentPoints, next # "submit",
         Shift(w, from, to, next)
  PROVE  Inv'
<1>1. [ck[w] EXCEPT !.state = to] \in Checkpoint
  BY DEF Inv, TypeInv, Checkpoint
<1>2. /\ Commit(w, Event("TaskStateChanged", to), [ck[w] EXCEPT !.state = to])
      /\ pc[w] = from /\ Goto(w, next)
      /\ UNCHANGED <<orphans, work, pos, exit>>
  BY DEF Shift, Transition
<1>3. /\ orphans' \in [Worker -> SUBSET Action]
      /\ exit' \in [Worker -> {"saveTurn", "saveFinal"}]
  BY <1>2 DEF Inv, TypeInv
<1> QED
  BY <1>1, <1>2, <1>3, CommitGotoInv, Events

\* A worker that leaves run(), whatever the saved checkpoint becomes.
LEMMA LeaveInv ==
  ASSUME Inv, NEW w \in Worker, Leave(w), UNCHANGED <<log, ran, runs>>,
         checkpoint' \in Checkpoint \cup {NoCheckpoint}
  PROVE  Inv'
<1>1. NewCheckpoint \in Checkpoint
  BY DEF NewCheckpoint, Checkpoint, TaskState
<1>2. TypeInv'
  BY <1>1 DEF Inv, TypeInv, Leave, Goto, Point
<1>3. \A v \in Worker \ {w} : WorkInv(v)'
  BY OthersKept DEF Inv, TypeInv, Leave, Goto, Started
<1>4. WorkInv(w)'
  BY DEF Inv, TypeInv, WorkInv, IntentPoints, Leave, Goto
<1>5. WriteAhead'
  BY DEF Inv, WriteAhead, Started
<1> QED
  BY <1>2, <1>3, <1>4, <1>5 DEF Inv

\* A local step: control moves, outside the intents.
LEMMA GotoInv ==
  ASSUME Inv, NEW w \in Worker, pc[w] \notin IntentPoints,
         NEW next \in Point \ IntentPoints, Goto(w, next),
         UNCHANGED <<log, ran, work, pos>>,
         checkpoint' \in Checkpoint \cup {NoCheckpoint},
         runs' \in 0..MaxRuns,
         ck' \in [Worker -> Checkpoint],
         seen' \in [Worker -> Nat], \A v \in Worker : seen'[v] <= Len(log),
         orphans' \in [Worker -> SUBSET Action],
         exit' \in [Worker -> {"saveTurn", "saveFinal"}]
  PROVE  Inv'
<1>1. TypeInv'
  BY DEF Inv, TypeInv, Goto
<1>2. \A v \in Worker \ {w} : WorkInv(v)'
  BY OthersKept DEF Inv, TypeInv, Goto, Started
<1>3. WorkInv(w)'
  BY DEF Inv, TypeInv, WorkInv, IntentPoints, Goto
<1>4. WriteAhead'
  BY DEF Inv, WriteAhead, Started
<1> QED
  BY <1>1, <1>2, <1>3, <1>4 DEF Inv

-----------------------------------------------------------------------------
(* One lemma per group of actions. *)

\* The invariant holds of a task that was not run yet.
LEMMA InitInv == Init => Inv
<1> SUFFICES ASSUME Init PROVE Inv
  OBVIOUS
<1>1. NewCheckpoint \in Checkpoint
  BY DEF NewCheckpoint, Checkpoint, TaskState
<1>2. log \in Seq(LogEvent) /\ Len(log) = 0
  BY DEF Init
<1>3. TypeInv
  BY <1>1, <1>2, KernelAssumption DEF Init, TypeInv, Point
<1>4. \A w \in Worker : WorkInv(w)
  BY DEF Init, WorkInv, IntentPoints
<1> QED
  BY <1>3, <1>4 DEF Inv, Init, WriteAhead

\* run() up to the turn loop: what it reads, replays, marks and saves.
LEMMA RecoveryInv ==
  ASSUME Inv, NEW w \in Worker,
         \/ LoadEvents(w) \/ LoadCheckpoint(w) \/ MarkOrphan(w) \/ SaveReplay(w)
         \/ ReturnAtOnce(w) \/ Resume(w) \/ Baseline(w) \/ SavePreflight(w)
  PROVE  Inv'
<1>t. TypeInv /\ ck[w] \in Checkpoint /\ pc[w] \in Point
  BY DEF Inv, TypeInv
<1>1. CASE LoadEvents(w)
  <2>1. /\ seen' \in [Worker -> Nat] /\ \A v \in Worker : seen'[v] <= Len(log)
        /\ runs' \in 0..MaxRuns
    BY <1>t, <1>1, KernelAssumption DEF LoadEvents, TypeInv
  <2>2. "loadCheckpoint" \in Point \ IntentPoints
    BY DEF Point, IntentPoints
  <2> QED BY <1>t, <1>1, <2>1, <2>2, GotoInv DEF LoadEvents, TypeInv, IntentPoints
<1>2. CASE LoadCheckpoint(w)
  <2> DEFINE events == SubSeq(log, 1, seen[w])
             base == IF checkpoint = NoCheckpoint THEN NewCheckpoint
                     ELSE IF checkpoint.version > seen[w] THEN NewCheckpoint
                     ELSE checkpoint
  <2>1. events \in Seq(LogEvent)
    BY <1>t DEF TypeInv
  <2>2. base \in Checkpoint
    BY <1>t DEF TypeInv, NewCheckpoint, Checkpoint, TaskState
  <2>3. Replay(base, events) \in Checkpoint
    BY <2>1, <2>2, ReplayType
  <2>4. Orphans(events) \in SUBSET Action
    BY <2>1, Payloads DEF Orphans, ArgsOf
  <2>5. PICK next \in {"markOrphan", "saveReplay", "resume"} : Goto(w, next)
    BY <1>2 DEF LoadCheckpoint
  <2>6. next \in Point \ IntentPoints
    BY DEF Point, AppendPoints, IntentPoints
  <2>7. /\ ck' \in [Worker -> Checkpoint]
        /\ orphans' \in [Worker -> SUBSET Action]
        /\ pc[w] \notin IntentPoints
        /\ UNCHANGED <<log, checkpoint, ran, runs, seen, work, pos, exit>>
    BY <1>t, <1>2, <2>3, <2>4 DEF LoadCheckpoint, TypeInv, IntentPoints
  <2> QED BY <1>t, <2>5, <2>6, <2>7, GotoInv DEF TypeInv
<1>3. CASE MarkOrphan(w)
  <2>1. PICK a \in orphans[w] :
          /\ Commit(w, Event("EffectUnknown", a), ck[w])
          /\ orphans' = [orphans EXCEPT ![w] = @ \ {a}]
          /\ Goto(w, IF orphans[w] = {a} THEN "saveReplay" ELSE "markOrphan")
    BY <1>3 DEF MarkOrphan
  <2>2. a \in Action /\ orphans' \in [Worker -> SUBSET Action]
    BY <1>t, <2>1 DEF TypeInv
  <2>3. PICK next \in {"markOrphan", "saveReplay"} : Goto(w, next)
    BY <2>1
  <2>4. next \in Point \ IntentPoints /\ next # "submit"
    BY DEF Point, AppendPoints, IntentPoints
  <2>5. pc[w] \notin IntentPoints /\ UNCHANGED <<work, pos, exit>>
    BY <1>3 DEF MarkOrphan, IntentPoints
  <2> QED BY <1>t, <2>1, <2>2, <2>3, <2>4, <2>5, CommitGotoInv, Events DEF TypeInv
<1>4. CASE SaveReplay(w) \/ SavePreflight(w)
  <2>1. PICK next \in {"resume", "toRunning"} : Goto(w, next)
    BY <1>4 DEF SaveReplay, SavePreflight
  <2>2. next \in Point \ IntentPoints
    BY DEF Point, AppendPoints, IntentPoints
  <2>3. /\ pc[w] \notin IntentPoints
        /\ checkpoint' = ck[w]
        /\ UNCHANGED <<log, ran, runs, ck, seen, orphans, work, pos, exit>>
    BY <1>4 DEF SaveReplay, SavePreflight, Save, IntentPoints
  <2> QED BY <1>t, <2>1, <2>2, <2>3, GotoInv DEF TypeInv
<1>5. CASE ReturnAtOnce(w)
  BY <1>t, <1>5, LeaveInv DEF ReturnAtOnce, TypeInv
<1>6. CASE Resume(w)
  <2>1. PICK next \in {"blockOrphans", "turn", "create", "toPreflight", "baseline",
                       "toReady", "toRunning", "gate"} : Goto(w, next)
    BY <1>6 DEF Resume
  <2>2. next \in Point \ IntentPoints
    BY DEF Point, AppendPoints, IntentPoints
  <2>3. /\ pc[w] \notin IntentPoints
        /\ exit' \in [Worker -> {"saveTurn", "saveFinal"}]
        /\ UNCHANGED <<log, checkpoint, ran, runs, ck, seen, orphans, work, pos>>
    BY <1>t, <1>6 DEF Resume, IntentPoints, TypeInv
  <2> QED BY <1>t, <2>1, <2>2, <2>3, GotoInv DEF TypeInv
<1>7. CASE Baseline(w)
  <2>1. [ck[w] EXCEPT !.baseline = TRUE] \in Checkpoint
    BY <1>t DEF Checkpoint
  <2>2. Event("PreflightCompleted", "") \in LogEvent
    BY Events DEF PlainKind, EventKind
  <2>3. "toReady" \in Point \ IntentPoints
    BY DEF Point, AppendPoints, IntentPoints
  <2> QED BY <1>t, <1>7, <2>1, <2>2, <2>3, CommitGotoInv DEF Baseline, TypeInv, IntentPoints
<1> QED
  BY <1>1, <1>2, <1>3, <1>4, <1>5, <1>6, <1>7

\* The appends that set nothing but the point they lead to.
LEMMA StepsInv ==
  ASSUME Inv, NEW w \in Worker,
         \/ BlockOrphans(w) \/ Create(w) \/ Block(w) \/ Respond(w) \/ Delegate(w)
         \/ Request(w) \/ RecordGrant(w) \/ Propose(w)
  PROVE  Inv'
<1>1. /\ {Event("TaskBlocked", ""), Event("TaskCreated", ""),
          Event("ResponseProduced", ""), Event("DelegationRejected", ""),
          Event("ActionRequested", ""), Event("GrantIssued", ""),
          Event("CompletionCandidateProposed", "")} \subseteq LogEvent
  BY Events DEF PlainKind, EventKind
<1>2. /\ {"blockOrphans", "create", "block", "respond", "delegate", "candidate",
          "toReconciling", "toPreflight", "toBlocked", "toWaiting",
          "toVerifying"} \subseteq Point \ IntentPoints
      /\ {"request", "start", "grant", "observe"} \subseteq Point
  BY DEF Point, AppendPoints, IntentPoints
<1>3. CASE BlockOrphans(w)
  BY <1>1, <1>2, <1>3, StepInv DEF BlockOrphans
<1>4. CASE Create(w)
  BY <1>1, <1>2, <1>4, StepInv DEF Create
<1>5. CASE Block(w)
  BY <1>1, <1>2, <1>5, StepInv DEF Block
<1>6. CASE Respond(w)
  BY <1>1, <1>2, <1>6, StepInv DEF Respond
<1>7. CASE Delegate(w)
  BY <1>1, <1>2, <1>7, StepInv DEF Delegate
<1>8. CASE Request(w)
  BY <1>1, <1>2, <1>8, StepInv DEF Request
<1>9. CASE RecordGrant(w)
  BY <1>1, <1>2, <1>9, StepInv DEF RecordGrant
<1>10. CASE Propose(w)
  BY <1>1, <1>2, <1>10, StepInv DEF Propose
<1> QED
  BY <1>3, <1>4, <1>5, <1>6, <1>7, <1>8, <1>9, <1>10

\* The state changes.
LEMMA ShiftsInv ==
  ASSUME Inv, NEW w \in Worker,
         \/ ToReconciling(w) \/ ToPreflight(w) \/ ToReady(w) \/ ToRunning(w)
         \/ ToBlocked(w) \/ ToWaiting(w) \/ ToVerifying(w) \/ Passed(w) \/ Failed(w)
  PROVE  Inv'
<1>1. /\ {"toReconciling", "toPreflight", "toReady", "toRunning", "toBlocked",
          "toWaiting", "toVerifying", "passed", "failed", "saveFinal", "baseline",
          "savePreflight", "turn", "saveTurn", "gate"} \subseteq Point \ IntentPoints
      /\ "submit" \in IntentPoints
  BY DEF Point, AppendPoints, IntentPoints
<1>2. {"RECONCILING", "PREFLIGHT", "READY", "RUNNING", "BLOCKED", "WAITING_INPUT",
       "VERIFYING", "REVIEW_READY"} \subseteq TaskState
  BY DEF TaskState
<1>3. exit[w] \in {"saveTurn", "saveFinal"}
  BY DEF Inv, TypeInv
<1>4. CASE ToReconciling(w)
  BY <1>1, <1>2, <1>4, ShiftInv DEF ToReconciling
<1>5. CASE ToPreflight(w)
  BY <1>1, <1>2, <1>5, ShiftInv DEF ToPreflight
<1>6. CASE ToReady(w)
  BY <1>1, <1>2, <1>6, ShiftInv DEF ToReady
<1>7. CASE ToRunning(w)
  BY <1>1, <1>2, <1>7, ShiftInv DEF ToRunning
<1>8. CASE ToBlocked(w)
  BY <1>1, <1>2, <1>3, <1>8, ShiftInv DEF ToBlocked
<1>9. CASE ToWaiting(w)
  BY <1>1, <1>2, <1>9, ShiftInv DEF ToWaiting
<1>10. CASE ToVerifying(w)
  BY <1>1, <1>2, <1>10, ShiftInv DEF ToVerifying
<1>11. CASE Passed(w)
  BY <1>1, <1>2, <1>3, <1>11, ShiftInv DEF Passed
<1>12. CASE Failed(w)
  BY <1>1, <1>2, <1>3, <1>12, ShiftInv DEF Failed
<1> QED
  BY <1>4, <1>5, <1>6, <1>7, <1>8, <1>9, <1>10, <1>11, <1>12

\* The turn loop and the gate, outside the intents.
LEMMA TurnInv ==
  ASSUME Inv, NEW w \in Worker,
         \/ ExhaustBudget(w) \/ StartTurn(w) \/ RejectDecision(w)
         \/ AcceptDecision(w) \/ RevisePlan(w) \/ ReadGate(w) \/ Verify(w)
         \/ SaveTurn(w)
  PROVE  Inv'
<1>t. TypeInv /\ ck[w] \in Checkpoint
  BY DEF Inv, TypeInv
<1>1. {"toBlocked", "decide", "block", "respond", "revisePlan", "delegate",
       "candidate", "saveTurn", "verify", "passed", "failed", "turn",
       "saveFinal"} \subseteq Point \ IntentPoints
  BY DEF Point, AppendPoints, IntentPoints
<1>2. {Event("TaskBlocked", ""), Event("TurnStarted", ""),
       Event("ModelDecisionRejected", ""), Event("ModelDecisionAccepted", "")}
         \subseteq LogEvent
  BY Events DEF PlainKind, EventKind
<1>3. \A next \in {"toBlocked", "decide", "block", "respond", "revisePlan",
                   "delegate", "candidate", "saveTurn", "verify", "passed",
                   "failed", "turn", "saveFinal"} : next # "submit"
  OBVIOUS
<1>4. CASE ExhaustBudget(w)
  BY <1>t, <1>1, <1>2, <1>4, CommitGotoInv DEF ExhaustBudget, TypeInv, IntentPoints
<1>5. CASE StartTurn(w)
  <2>1. [ck[w] EXCEPT !.turn = @ + 1] \in Checkpoint
    BY <1>t DEF Checkpoint
  <2> QED BY <1>t, <1>1, <1>2, <1>5, <2>1, CommitGotoInv
          DEF StartTurn, TypeInv, IntentPoints
<1>6. CASE RejectDecision(w)
  BY <1>t, <1>1, <1>2, <1>6, CommitGotoInv DEF RejectDecision, TypeInv, IntentPoints
<1>7. CASE AcceptDecision(w)
  <2>1. PICK next \in DecisionPoint : Goto(w, next)
    BY <1>7 DEF AcceptDecision
  <2>2. next \in Point \ IntentPoints /\ next # "submit"
    BY <1>1 DEF DecisionPoint
  <2> QED BY <1>t, <1>2, <1>7, <2>1, <2>2, CommitGotoInv
          DEF AcceptDecision, TypeInv, IntentPoints
<1>8. CASE RevisePlan(w)
  <2>1. ck[w].turn \in Nat /\ [ck[w] EXCEPT !.plan = ck[w].turn] \in Checkpoint
    BY <1>t DEF Checkpoint
  <2>2. Event("PublicPlanRevised", ck[w].turn) \in LogEvent
    BY <2>1, Events
  <2> QED BY <1>t, <1>1, <1>8, <2>1, <2>2, CommitGotoInv
          DEF RevisePlan, TypeInv, IntentPoints
<1>9. CASE ReadGate(w)
  <2>1. PICK next \in {"verify", "passed", "failed"} : Goto(w, next)
    BY <1>9 DEF ReadGate, VerdictPoint
  <2>2. next \in Point \ IntentPoints
    BY <1>1
  <2> QED BY <1>t, <1>9, <2>1, <2>2, GotoInv DEF ReadGate, TypeInv, IntentPoints
<1>10. CASE Verify(w)
  <2>1. PICK v \in {"PASS", "NOT_PASS"} :
          Commit(w, Event("VerificationCompleted", v), ck[w]) /\ Goto(w, VerdictPoint(v))
    BY <1>10 DEF Verify
  <2>2. Event("VerificationCompleted", v) \in LogEvent
    BY Events
  <2>3. VerdictPoint(v) \in Point \ IntentPoints /\ VerdictPoint(v) # "submit"
    BY <1>1 DEF VerdictPoint
  <2> QED BY <1>t, <1>10, <2>1, <2>2, <2>3, CommitGotoInv
          DEF Verify, TypeInv, IntentPoints
<1>11. CASE SaveTurn(w)
  <2>1. PICK next \in {"turn", "saveFinal"} : Goto(w, next)
    BY <1>11 DEF SaveTurn
  <2>2. next \in Point \ IntentPoints
    BY <1>1
  <2> QED BY <1>t, <1>11, <2>1, <2>2, GotoInv DEF SaveTurn, Save, TypeInv, IntentPoints
<1> QED
  BY <1>4, <1>5, <1>6, <1>7, <1>8, <1>9, <1>10, <1>11

\* An intent of a decision, and what granting it leaves alone.
LEMMA IntentAt ==
  ASSUME NEW s \in Seq(Intent), NEW i \in 1..Len(s)
  PROVE  s[i] \in Intent /\ s[i].action \in Action
<1>1. s[i] \in Intent
  OBVIOUS
<1>2. \A r \in Intent : r.action \in Action
  BY DEF Intent
<1> QED
  BY <1>1, <1>2

\* An intent that is granted, or not, is still the intent of its action.
LEMMA IntentGranted ==
  ASSUME NEW r \in Intent, NEW g \in BOOLEAN
  PROVE  /\ [r EXCEPT !.granted = g] \in Intent
         /\ [r EXCEPT !.granted = g].action = r.action
<1>1. r.action \in Action /\ DOMAIN r = {"action", "granted"}
  BY Zenon DEF Intent
<1> DEFINE x == g
<1>2. x \in BOOLEAN
  OBVIOUS
<1> HIDE DEF x
<1>3. [r EXCEPT !.granted = x] \in Intent
  BY <1>2 DEF Intent
<1>4. [r EXCEPT !.granted = x].action = r.action
  BY <1>1
<1> QED
  BY <1>3, <1>4 DEF x

\* A decision's intents are typed, and there is at least one.
LEMMA IntentListType ==
  ASSUME NEW l \in IntentLists
  PROVE  /\ Len(l) \in Nat \ {0} /\ DOMAIN l = 1..Len(l)
         /\ [i \in DOMAIN l |-> [action |-> l[i], granted |-> FALSE]] \in Seq(Intent)
<1>1. PICK n \in 1..MaxIntents : l \in [1..n -> Action]
  BY DEF IntentLists
<1>2. n \in Nat \ {0}
  BY KernelAssumption
<1>3. l \in Seq(Action) /\ Len(l) = n /\ DOMAIN l = 1..n
  BY <1>1, <1>2
<1>4. \A i \in 1..n : [action |-> l[i], granted |-> FALSE] \in Intent
  BY <1>1 DEF Intent
<1> QED
  BY <1>2, <1>3, <1>4

\* The intents a decision brings are intents.
LEMMA AcceptIntentsInv ==
  ASSUME Inv, NEW w \in Worker, AcceptIntents(w)
  PROVE  Inv'
<1>t. TypeInv /\ ck[w] \in Checkpoint
  BY DEF Inv, TypeInv
<1> DEFINE e == Event("ModelDecisionAccepted", "")
<1>1. e \in LogEvent
  BY Events DEF PlainKind, EventKind
<1>2. /\ pc[w] = "decide" /\ Commit(w, e, ck[w])
      /\ UNCHANGED <<orphans, pos, exit>>
  BY DEF AcceptIntents
<1>3. PICK l \in IntentLists :
        IF ck[w].actions + Len(l) > MaxActions
        THEN Goto(w, "block") /\ UNCHANGED work
        ELSE /\ Goto(w, "request")
             /\ work' = [work EXCEPT ![w] =
                  [i \in DOMAIN l |-> [action |-> l[i], granted |-> FALSE]]]
  BY DEF AcceptIntents
<1> DEFINE W == [i \in DOMAIN l |-> [action |-> l[i], granted |-> FALSE]]
<1>4. CASE Goto(w, "block") /\ UNCHANGED work
  <2>1. "block" \in Point \ IntentPoints
    BY DEF Point, AppendPoints, IntentPoints
  <2> QED BY <1>t, <1>1, <1>2, <1>4, <2>1, CommitGotoInv DEF TypeInv, IntentPoints
<1>5. CASE Goto(w, "request") /\ work' = [work EXCEPT ![w] = W]
  <2>1. W \in Seq(Intent) /\ Len(W) \in Nat \ {0}
    BY IntentListType
  <2> HIDE DEF W
  <2>2. /\ log' \in Seq(LogEvent)
        /\ ck' \in [Worker -> Checkpoint]
        /\ \A v \in Worker : seen[v] <= Len(log')
        /\ Started \subseteq Started'
        /\ UNCHANGED <<checkpoint, ran, runs, seen>>
    BY <1>t, <1>1, <1>2, CommitInv
  <2>3. pc' = [pc EXCEPT ![w] = "request"] /\ "request" \in Point
    BY <1>5 DEF Goto, Point, AppendPoints
  <2>4. TypeInv'
    BY <1>t, <1>2, <1>5, <2>1, <2>2, <2>3 DEF TypeInv
  <2>5. \A v \in Worker \ {w} : WorkInv(v)'
    BY <1>t, <1>2, <1>5, <2>2, <2>3, OthersKept DEF TypeInv
  <2>6. pos[w] = 1
    BY <1>2 DEF Inv, WorkInv, IntentPoints
  <2>7. WorkInv(w)'
    <3>1. pos'[w] = 1 /\ work'[w] = W /\ pc'[w] = "request"
      BY <1>t, <1>2, <1>5, <2>3, <2>6 DEF TypeInv
    <3> QED BY <2>1, <3>1 DEF WorkInv, IntentPoints
  <2>8. WriteAhead'
    BY <2>2 DEF Inv, WriteAhead, Started
  <2> QED BY <2>4, <2>5, <2>7, <2>8 DEF Inv
<1> QED
  BY <1>3, <1>4, <1>5

\* Each append of "start" puts one more intent on record, so that all of them
\* are when control reaches "submit".
LEMMA StartActionInv ==
  ASSUME Inv, NEW w \in Worker, StartAction(w)
  PROVE  Inv'
<1>t. TypeInv /\ ck[w] \in Checkpoint
  BY DEF Inv, TypeInv
<1> DEFINE a == work[w][pos[w]].action
           e == Event("ActionStarted", a)
<1>1. pc[w] = "start" /\ Commit(w, e, ck[w]) /\ UNCHANGED <<orphans, work, exit>>
  BY DEF StartAction
<1>2. /\ work[w] \in Seq(Intent) /\ Len(work[w]) \in Nat
      /\ pos[w] \in 1..Len(work[w])
      /\ \A i \in 1..(pos[w] - 1) : work[w][i].action \in Started
  BY <1>t, <1>1 DEF Inv, TypeInv, WorkInv, IntentPoints
<1>3. a \in Action
  BY <1>2, IntentAt
<1>4. e \in LogEvent
  BY <1>3, Events
<1>5. e.kind = "ActionStarted" /\ e.arg = a
  BY DEF Event
<1> HIDE DEF e
<1>6. /\ log' \in Seq(LogEvent)
      /\ ck' \in [Worker -> Checkpoint]
      /\ \A v \in Worker : seen[v] <= Len(log')
      /\ Started' = Started \cup {a}
      /\ UNCHANGED <<checkpoint, ran, runs, seen>>
  BY <1>t, <1>1, <1>4, <1>5, CommitInv
<1>7. \A i \in 1..pos[w] : work[w][i].action \in Started'
  <2> TAKE i \in 1..pos[w]
  <2>1. CASE i = pos[w]
    BY <1>6, <2>1
  <2>2. CASE i # pos[w]
    BY <1>2, <1>6, <2>2
  <2> QED BY <2>1, <2>2
<1>8. {"start", "submit"} \subseteq Point
  BY DEF Point, AppendPoints
<1>9. CASE pos[w] < Len(work[w])
  <2>1. pos' = [pos EXCEPT ![w] = @ + 1] /\ UNCHANGED pc
    BY <1>9 DEF StartAction
  <2>2. TypeInv'
    BY <1>t, <1>1, <1>2, <1>6, <2>1 DEF TypeInv
  <2>3. \A v \in Worker \ {w} : WorkInv(v)'
    BY <1>t, <1>1, <1>6, <2>1, OthersKept DEF TypeInv
  <2>4. pos'[w] = pos[w] + 1
    BY <1>t, <2>1 DEF TypeInv
  <2>5. WorkInv(w)'
    BY <1>1, <1>2, <1>7, <1>9, <2>1, <2>4 DEF WorkInv, IntentPoints
  <2> QED BY <1>6, <2>2, <2>3, <2>5 DEF Inv, WriteAhead, Started
<1>10. CASE ~(pos[w] < Len(work[w]))
  <2>1. pos' = [pos EXCEPT ![w] = 1] /\ pc' = [pc EXCEPT ![w] = "submit"]
    BY <1>10 DEF StartAction, Goto
  <2>2. TypeInv'
    BY <1>t, <1>1, <1>6, <1>8, <2>1 DEF TypeInv
  <2>3. \A v \in Worker \ {w} : WorkInv(v)'
    BY <1>t, <1>1, <1>6, <2>1, OthersKept DEF TypeInv
  <2>4. pos'[w] = 1 /\ pc'[w] = "submit" /\ pos[w] = Len(work[w])
    BY <1>t, <1>2, <1>10, <2>1 DEF TypeInv
  <2>5. WorkInv(w)'
    BY <1>1, <1>2, <1>7, <2>4 DEF WorkInv, IntentPoints
  <2> QED BY <1>6, <2>2, <2>3, <2>5 DEF Inv, WriteAhead, Started
<1> QED
  BY <1>9, <1>10

\* The tool that runs is that of an intent on record.
LEMMA ExecuteInv ==
  ASSUME Inv, NEW w \in Worker, Execute(w)
  PROVE  Inv'
<1>t. TypeInv /\ ck[w] \in Checkpoint
  BY DEF Inv, TypeInv
<1>1. pc[w] = "submit" /\ UNCHANGED <<log, checkpoint, runs, seen, orphans, exit>>
  BY DEF Execute
<1>2. /\ work[w] \in Seq(Intent) /\ Len(work[w]) \in Nat
      /\ pos[w] \in 1..Len(work[w])
      /\ \A i \in 1..Len(work[w]) : work[w][i].action \in Started
  BY <1>t, <1>1 DEF Inv, TypeInv, WorkInv, IntentPoints
<1>3. PICK granted \in BOOLEAN :
       LET intents == [work[w] EXCEPT ![pos[w]].granted = granted]
       IN  /\ work' = [work EXCEPT ![w] = intents]
           /\ ran' = IF granted THEN ran \cup {intents[pos[w]].action} ELSE ran
           /\ IF pos[w] < Len(intents)
              THEN /\ pos' = [pos EXCEPT ![w] = @ + 1]
                   /\ UNCHANGED <<pc, ck>>
              ELSE /\ pos' = [pos EXCEPT ![w] = 1]
                   /\ Goto(w, ReceiptPoint(intents, 1))
                   /\ ck' = [ck EXCEPT ![w].actions = @ + Len(intents)]
  BY DEF Execute
<1> DEFINE intent == [work[w][pos[w]] EXCEPT !.granted = granted]
           intents == [work[w] EXCEPT ![pos[w]].granted = granted]
<1>4. intent \in Intent /\ intent.action = work[w][pos[w]].action
  BY <1>2, <1>3, IntentAt, IntentGranted
<1>5. intents = [work[w] EXCEPT ![pos[w]] = intent]
  OBVIOUS
<1> HIDE DEF intent, intents
<1>6. /\ intents \in Seq(Intent) /\ Len(intents) = Len(work[w])
      /\ \A i \in 1..Len(intents) : intents[i].action = work[w][i].action
  BY <1>2, <1>4, <1>5
<1>7. /\ ran' \subseteq Started
      /\ ran' \subseteq Action
      /\ Started' = Started
  <2>1. intents[pos[w]].action \in Started
    BY <1>2, <1>6
  <2>2. intents[pos[w]].action \in Action
    BY <1>2, <1>6, IntentAt
  <2>3. ran' \subseteq ran \cup {intents[pos[w]].action}
    BY <1>3 DEF intents
  <2> QED BY <1>t, <1>1, <2>1, <2>2, <2>3 DEF Inv, TypeInv, WriteAhead, Started
<1>8. work' = [work EXCEPT ![w] = intents]
  BY <1>3 DEF intents
<1>9. CASE pos[w] < Len(intents)
  <2>1. pos' = [pos EXCEPT ![w] = @ + 1] /\ UNCHANGED <<pc, ck>>
    BY <1>3, <1>9 DEF intents
  <2>2. TypeInv'
    BY <1>t, <1>1, <1>2, <1>6, <1>7, <1>8, <2>1 DEF TypeInv
  <2>3. \A v \in Worker \ {w} : WorkInv(v)'
    BY <1>t, <1>7, <1>8, <2>1, OthersKept DEF TypeInv
  <2>4. pos'[w] = pos[w] + 1 /\ work'[w] = intents
    BY <1>t, <1>8, <2>1 DEF TypeInv
  <2>5. WorkInv(w)'
    BY <1>1, <1>2, <1>6, <1>7, <1>9, <2>1, <2>4 DEF WorkInv, IntentPoints
  <2> QED BY <1>7, <2>2, <2>3, <2>5 DEF Inv, WriteAhead, Started
<1>10. CASE ~(pos[w] < Len(intents))
  <2>1. /\ pos' = [pos EXCEPT ![w] = 1]
        /\ Goto(w, ReceiptPoint(intents, 1))
        /\ ck' = [ck EXCEPT ![w].actions = @ + Len(intents)]
    BY <1>3, <1>10 DEF intents
  <2>2. PICK next \in {"grant", "observe"} : pc' = [pc EXCEPT ![w] = next]
    BY <2>1 DEF ReceiptPoint, Goto
  <2>3. next \in Point
    BY DEF Point, AppendPoints
  <2>4. [ck[w] EXCEPT !.actions = @ + Len(intents)] \in Checkpoint
    <3> DEFINE n == Len(intents)
    <3>1. n \in Nat
      BY <1>2, <1>6
    <3> HIDE DEF n
    <3>2. [ck[w] EXCEPT !.actions = @ + n] \in Checkpoint
      BY <1>t, <3>1 DEF Checkpoint
    <3> QED BY <3>2 DEF n
  <2>5. ck' \in [Worker -> Checkpoint]
    BY <1>t, <2>1, <2>4 DEF TypeInv
  <2>6. TypeInv'
    BY <1>t, <1>1, <1>6, <1>7, <1>8, <2>1, <2>2, <2>3, <2>5 DEF TypeInv
  <2>7. \A v \in Worker \ {w} : WorkInv(v)'
    BY <1>t, <1>7, <1>8, <2>1, <2>2, OthersKept DEF TypeInv
  <2>8. pos'[w] = 1 /\ work'[w] = intents /\ pc'[w] = next
    BY <1>t, <1>8, <2>1, <2>2 DEF TypeInv
  <2>9. WorkInv(w)'
    BY <1>2, <1>6, <2>8 DEF WorkInv, IntentPoints
  <2> QED BY <1>7, <2>6, <2>7, <2>9 DEF Inv, WriteAhead, Started
<1> QED
  BY <1>9, <1>10

\* The effect that is recorded is of the action that was started.
LEMMA RecordEffectInv ==
  ASSUME Inv, NEW w \in Worker, RecordEffect(w)
  PROVE  Inv'
<1>t. TypeInv /\ ck[w] \in Checkpoint
  BY DEF Inv, TypeInv
<1> DEFINE e == Event("EffectObserved", work[w][pos[w]].action)
<1>1. pc[w] = "observe" /\ Commit(w, e, ck[w]) /\ UNCHANGED <<orphans, exit>>
  BY DEF RecordEffect
<1>2. /\ work[w] \in Seq(Intent) /\ Len(work[w]) \in Nat
      /\ pos[w] \in 1..Len(work[w])
  BY <1>t, <1>1 DEF Inv, TypeInv, WorkInv, IntentPoints
<1>3. work[w][pos[w]].action \in Action
  BY <1>2, IntentAt
<1>4. e \in LogEvent
  BY <1>3, Events
<1>5. /\ log' \in Seq(LogEvent)
      /\ ck' \in [Worker -> Checkpoint]
      /\ \A v \in Worker : seen[v] <= Len(log')
      /\ Started \subseteq Started'
      /\ UNCHANGED <<checkpoint, ran, runs, seen>>
  BY <1>t, <1>1, <1>4, CommitInv
<1> HIDE DEF e
<1>6. {"grant", "observe", "saveTurn"} \subseteq Point
  BY DEF Point, AppendPoints
<1>7. CASE pos[w] < Len(work[w])
  <2>1. /\ pos' = [pos EXCEPT ![w] = @ + 1] /\ UNCHANGED work
        /\ Goto(w, ReceiptPoint(work[w], pos[w] + 1))
    BY <1>7 DEF RecordEffect
  <2>2. PICK next \in {"grant", "observe"} : pc' = [pc EXCEPT ![w] = next]
    BY <2>1 DEF ReceiptPoint, Goto
  <2>3. TypeInv'
    BY <1>t, <1>1, <1>2, <1>5, <1>6, <2>1, <2>2 DEF TypeInv
  <2>4. \A v \in Worker \ {w} : WorkInv(v)'
    BY <1>t, <1>5, <2>1, <2>2, OthersKept DEF TypeInv
  <2>5. pos'[w] = pos[w] + 1 /\ pc'[w] = next /\ work' = work
    BY <1>t, <2>1, <2>2 DEF TypeInv
  <2>6. WorkInv(w)'
    BY <1>2, <1>7, <2>5 DEF WorkInv, IntentPoints
  <2> QED BY <1>5, <2>3, <2>4, <2>6 DEF Inv, WriteAhead, Started
<1>8. CASE ~(pos[w] < Len(work[w]))
  <2>1. /\ pos' = [pos EXCEPT ![w] = 1] /\ work' = [work EXCEPT ![w] = <<>>]
        /\ pc' = [pc EXCEPT ![w] = "saveTurn"]
    BY <1>8 DEF RecordEffect, Goto
  <2>2. TypeInv'
    BY <1>t, <1>1, <1>5, <1>6, <2>1 DEF TypeInv
  <2>3. \A v \in Worker \ {w} : WorkInv(v)'
    BY <1>t, <1>5, <2>1, OthersKept DEF TypeInv
  <2>4. pos'[w] = 1 /\ pc'[w] = "saveTurn"
    BY <1>t, <2>1 DEF TypeInv
  <2>5. WorkInv(w)'
    BY <2>4 DEF WorkInv, IntentPoints
  <2> QED BY <1>5, <2>2, <2>3, <2>5 DEF Inv, WriteAhead, Started
<1> QED
  BY <1>7, <1>8

\* The ways out of run().
LEMMA LeavingInv ==
  ASSUME Inv, NEW w \in Worker, SaveFinal(w) \/ Conflict(w) \/ Crash(w)
  PROVE  Inv'
<1>1. checkpoint \in Checkpoint \cup {NoCheckpoint} /\ ck[w] \in Checkpoint
  BY DEF Inv, TypeInv
<1>2. CASE SaveFinal(w)
  BY <1>1, <1>2, LeaveInv DEF SaveFinal, Save
<1>3. CASE Conflict(w)
  BY <1>1, <1>3, LeaveInv DEF Conflict
<1>4. CASE Crash(w)
  BY <1>1, <1>4, LeaveInv DEF Crash
<1> QED
  BY <1>2, <1>3, <1>4

\* Every step of every worker keeps the invariant.
LEMMA NextInv == Inv /\ [Next]_vars => Inv'
<1> SUFFICES ASSUME Inv, [Next]_vars PROVE Inv'
  OBVIOUS
<1>1. CASE UNCHANGED vars
  BY <1>1 DEF vars, Inv, TypeInv, WorkInv, WriteAhead, Started
<1>2. CASE Next
  <2>1. PICK w \in Worker : LoadEvents(w) \/ Proceed(w) \/ Crash(w)
    BY <1>2 DEF Next
  <2> QED
    BY <2>1, RecoveryInv, StepsInv, ShiftsInv, TurnInv, AcceptIntentsInv,
       StartActionInv, ExecuteInv, RecordEffectInv, LeavingInv DEF Proceed
<1> QED
  BY <1>1, <1>2

-----------------------------------------------------------------------------
(* The theorems. *)

\* The types, what each worker knows and has in hand, and that an action is run
\* only after its start was appended, hold of every behaviour of the kernel.
THEOREM InvHolds == Spec => []Inv
BY InitInv, NextInv, PTL DEF Spec

\* Every variable of the kernel stays within its type, for any workers, actions
\* and budgets (the events run() appends, the checkpoints it saves and replays).
THEOREM TypeCorrect == Spec => []TypeOK
<1>1. Inv => TypeOK
  BY Payloads DEF Inv, TypeInv, TypeOK
<1> QED
  BY <1>1, InvHolds, PTL

\* No tool runs whose start is not on record, for any number of workers that
\* race and die at any step (focus-kernel.ts:259-267, crash window C).
THEOREM WriteAheadHolds == Spec => []WriteAhead
<1>1. Inv => WriteAhead
  BY DEF Inv
<1> QED
  BY <1>1, InvHolds, PTL

=============================================================================
