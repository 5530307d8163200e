------------------------- MODULE KernelLedgerProofs -------------------------
(***************************************************************************)
(* What a crash, a lost race or a restart may do to a task, for every      *)
(* number of workers and runs and every budget: the checkpoint is always   *)
(* the fold of the log, the kernel implements the ledger, and the turn     *)
(* budget is overrun by one turn for each restart at most.                 *)
(*                                                                         *)
(* None of it is inductive.  A checkpoint is saved by a worker that may    *)
(* have lost the log long ago, so every worker's own checkpoint has to be  *)
(* the fold of the prefix it has seen; what it counts depends on where it  *)
(* is in its intents, so the open actions of that prefix have to be the    *)
(* intents it has started and not yet observed; and a start is the first   *)
(* of its action only because no two workers hold the same identity.       *)
(* KernelInv says so.  The first two results assume that the model does    *)
(* not repeat an identity: the run kernel_reused_ids shows what happens    *)
(* when it does.                                                           *)
(***************************************************************************)
EXTENDS FocusKernelProofs

\* What the events say of the actions and of the gate.

Observed(events) == ArgsOf(events, "EffectObserved")
Unknown(events) == ArgsOf(events, "EffectUnknown")
Verdict(events) == LastArg(events, "VerificationCompleted", "none")

\* The events a worker's checkpoint stands for.
Prefix(w) == SubSeq(log, 1, ck[w].version)

\* A checkpoint holds the last state, plan and baseline of the events.
Folded(c, events) ==
  /\ c.state = StateOf(events)
  /\ c.plan = LastArg(events, "PublicPlanRevised", 0)
  /\ c.baseline = (ArgsOf(events, "PreflightCompleted") # {})

\* An action starts once, and its receipt follows its start, once.
Orderly(events) ==
  /\ \A i, j \in 1..Len(events) :
       /\ events[i].kind \in {"ActionStarted", "EffectObserved"}
       /\ events[j].kind = events[i].kind /\ events[j].arg = events[i].arg
       => i = j
  /\ \A j \in 1..Len(events) : events[j].kind = "EffectObserved" =>
       \E i \in 1..(j - 1) : /\ events[i].kind = "ActionStarted"
                             /\ events[i].arg = events[j].arg

\* The log read by itself: what each of its events needed when it was appended.
LogInv ==
  /\ Orderly(log)
  /\ Observed(log) \cap Unknown(log) = {}
  /\ Orphans(log) # {} => StateOf(log) = "RUNNING"
  /\ Unknown(log) # {} => StateOf(log) \in {"RUNNING", "RECONCILING"}
  /\ Verdict(log) # "none" => StateOf(log) \in {"VERIFYING", "REVIEW_READY", "BLOCKED"}
  /\ Cardinality(Started) <= MaxActions
  /\ NoDecisionAfterUnknown

\* The saved checkpoint is the fold of a prefix that has no open action.
CheckpointInv ==
  checkpoint # NoCheckpoint =>
    LET prefix == SubSeq(log, 1, checkpoint.version)
    IN  /\ checkpoint.version <= Len(log)
        /\ Folded(checkpoint, prefix)
        /\ checkpoint.actions = Cardinality(ArgsOf(prefix, "ActionStarted"))
        /\ Orphans(prefix) = {}

\* The points of run() only a RUNNING task without an UNKNOWN mark reaches.
RunningPoints ==
  IntentPoints \cup
  { "turn", "decide", "block", "toBlocked", "respond", "toWaiting", "revisePlan",
    "delegate", "candidate", "toVerifying" }

\* What a worker's position in run() tells of its checkpoint.
PointInv(w) ==
  /\ pc[w] \in RunningPoints => ck[w].state = "RUNNING" /\ Unknown(Prefix(w)) = {}
  /\ pc[w] \in {"blockOrphans", "toReconciling"} =>
       ck[w].state = "RUNNING" /\ Unknown(log) # {}
  /\ pc[w] \in {"create", "toPreflight"} => ck[w].state = "CREATED"
  /\ pc[w] \in {"baseline", "toReady"} => ck[w].state = "PREFLIGHT"
  /\ pc[w] \in {"savePreflight", "toRunning"} => ck[w].state = "READY"
  /\ pc[w] \in {"gate", "verify", "passed", "failed"} => ck[w].state = "VERIFYING"
  /\ pc[w] = "verify" => Verdict(Prefix(w)) = "none"
  /\ pc[w] = "passed" => Verdict(log) = "PASS"
  /\ pc[w] = "failed" => Verdict(log) = "NOT_PASS"
  /\ pc[w] = "saveTurn" /\ ck[w].state = "RUNNING" => Unknown(Prefix(w)) = {}

\* The actions of a worker's intents that wait for their receipt.
Waiting(w) ==
  {work[w][i].action : i \in IF pc[w] = "start" THEN 1..(pos[w] - 1)
                             ELSE IF pc[w] = "submit" THEN 1..Len(work[w])
                             ELSE IF pc[w] \in {"grant", "observe"}
                             THEN pos[w]..Len(work[w]) ELSE {}}

\* The actions started that the worker has not counted yet.
Uncounted(w) == IF pc[w] = "start" THEN pos[w] - 1
                ELSE IF pc[w] = "submit" THEN Len(work[w]) ELSE 0

\* The intents of a worker are distinct, fit the budget and are new until it
\* starts them.
IntentInv(w) ==
  /\ pc[w] \in IntentPoints =>
       \A i, j \in 1..Len(work[w]) : work[w][i].action = work[w][j].action => i = j
  /\ pc[w] \in {"request", "start"} =>
       /\ ck[w].actions + Len(work[w]) <= MaxActions
       /\ \A i \in pos[w]..Len(work[w]) : work[w][i].action \notin Started
  /\ pc[w] \in {"submit", "grant", "observe"} =>
       \A i \in 1..Len(work[w]) : work[w][i].action \in Started
  /\ pc[w] = "submit" =>
       \A i \in 1..Len(work[w]) : work[w][i].action \notin Observed(log)

\* A worker at work holds the fold of a prefix of the log, and the open actions
\* of that prefix are its own.
WorkerInv(w) ==
  pc[w] \notin {"idle", "loadCheckpoint"} =>
    /\ ck[w].version <= Len(log)
    /\ Folded(ck[w], Prefix(w))
    /\ Orphans(Prefix(w)) = IF pc[w] = "markOrphan" THEN orphans[w] ELSE Waiting(w)
    /\ ck[w].actions + Uncounted(w) = Cardinality(ArgsOf(Prefix(w), "ActionStarted"))
    /\ PointInv(w)
    /\ IntentInv(w)

\* No two workers hold an intent for the same action.
Apart == \A v, w \in Worker :
  v # w /\ pc[v] \in IntentPoints /\ pc[w] \in IntentPoints =>
    \A i \in 1..Len(work[v]), j \in 1..Len(work[w]) :
      work[v][i].action # work[w][j].action

KernelInv ==
  /\ Inv
  /\ LogInv
  /\ CheckpointInv
  /\ \A w \in Worker : WorkerInv(w)
  /\ Apart

-----------------------------------------------------------------------------
(* What can be read off a part of a log. *)

\* The last payload of a kind is the new event's, if it is of that kind.
LEMMA LastArgAppend ==
  ASSUME NEW S, NEW l \in Seq(S), NEW e \in S, NEW kind, NEW default
  PROVE  LastArg(Append(l, e), kind, default) =
           IF e.kind = kind THEN e.arg ELSE LastArg(l, kind, default)
<1> DEFINE m == Append(l, e)
           n == Len(l)
           at(s) == {i \in 1..Len(s) : s[i].kind = kind}
           last(s, i) == \A j \in at(s) : j <= i
<1>1. /\ n \in Nat
      /\ Len(m) = n + 1
      /\ m[n + 1] = e
      /\ \A i \in 1..n : m[i] = l[i]
  OBVIOUS
<1> HIDE DEF m
<1>2. \A s, d : LastArg(s, kind, d) =
        IF \E i \in at(s) : last(s, i)
        THEN s[CHOOSE i \in at(s) : last(s, i)].arg ELSE d
  BY DEF LastArg
<1>3. CASE e.kind = kind
  <2>1. n + 1 \in at(m) /\ last(m, n + 1)
    BY <1>1, <1>3
  <2>2. \A i \in at(m) : last(m, i) => i = n + 1
    BY <1>1, <2>1
  <2>3. (CHOOSE i \in at(m) : last(m, i)) = n + 1
    BY <2>1, <2>2
  <2> HIDE DEF at, last
  <2> QED BY <1>1, <1>2, <1>3, <2>1, <2>3 DEF m
<1>4. CASE e.kind # kind
  <2>1. at(m) = at(l)
    BY <1>1, <1>4
  <2>2. \A i : last(m, i) = last(l, i)
    BY <2>1
  <2>3. (CHOOSE i \in at(m) : last(m, i)) = (CHOOSE i \in at(l) : last(l, i))
    BY <2>1, <2>2, Zenon
  <2>4. \A i \in at(l) : m[i] = l[i]
    BY <1>1
  <2>5. (\E i \in at(l) : last(l, i)) =>
          (CHOOSE i \in at(l) : last(l, i)) \in at(l)
    OBVIOUS
  <2> HIDE DEF at, last
  <2>6. (\E i \in at(m) : last(m, i)) <=> (\E i \in at(l) : last(l, i))
    BY <2>1, <2>2
  <2>7. (\E i \in at(l) : last(l, i)) =>
           m[CHOOSE i \in at(m) : last(m, i)] = l[CHOOSE i \in at(l) : last(l, i)]
    BY <2>3, <2>4, <2>5
  <2> QED BY <1>2, <1>4, <2>6, <2>7 DEF m
<1> QED
  BY <1>3, <1>4

\* A set of positions of a log that is not empty has a last one.
LEMMA LastPosition ==
  ASSUME NEW n \in Nat, NEW T, T \subseteq 1..n, T # {}
  PROVE  \E i \in T : \A j \in T : j <= i
<1> DEFINE D == {n - i : i \in T}
<1>0. \A i \in T : i \in Nat /\ i <= n
  OBVIOUS
<1>1. D \subseteq Nat /\ D # {}
  <2>1. \A i \in T : n - i \in Nat
    BY <1>0
  <2>2. PICK i \in T : TRUE
    OBVIOUS
  <2>3. n - i \in D
    BY <2>2
  <2> QED BY <2>1, <2>3
<1>2. IsWellFoundedOn(OpToRel(<, Nat), Nat)
  BY NatLessThanWellFounded
<1>3. PICK x \in D : \A y \in D : ~ (<<y, x>> \in OpToRel(<, Nat))
  <2> HIDE DEF D
  <2> QED BY <1>1, <1>2, WFMin
<1>4. \A y \in D : ~ (y < x)
  BY <1>1, <1>3 DEF OpToRel
<1>5. PICK i \in T : x = n - i
  BY <1>3
<1>6. \A j \in T : j <= i
  <2> TAKE j \in T
  <2>1. ~ (n - j < n - i)
    BY <1>4, <1>5
  <2>2. i \in Nat /\ j \in Nat
    BY <1>0
  <2> QED BY <2>1, <2>2
<1> QED
  BY <1>6

\* A log cut in two.
LEMMA Cut ==
  ASSUME NEW S, NEW l \in Seq(S), NEW v \in 0..Len(l)
  PROVE  LET pre  == SubSeq(l, 1, v)
             post == SubSeq(l, v + 1, Len(l))
         IN  /\ pre \in Seq(S) /\ Len(pre) = v
             /\ \A i \in 1..v : pre[i] = l[i]
             /\ post \in Seq(S) /\ Len(post) = Len(l) - v
             /\ \A i \in 1..(Len(l) - v) : post[i] = l[v + i]
OBVIOUS

\* The payloads of a kind are those before the cut and those after it.
LEMMA ArgsOfCut ==
  ASSUME NEW S, NEW l \in Seq(S), NEW v \in 0..Len(l), NEW kind
  PROVE  ArgsOf(l, kind) = ArgsOf(SubSeq(l, 1, v), kind)
                             \cup ArgsOf(SubSeq(l, v + 1, Len(l)), kind)
<1> DEFINE pre  == SubSeq(l, 1, v)
           post == SubSeq(l, v + 1, Len(l))
           n == Len(l)
<1>1. /\ Len(pre) = v /\ \A i \in 1..v : pre[i] = l[i]
      /\ Len(post) = n - v /\ \A i \in 1..(n - v) : post[i] = l[v + i]
  BY Cut
<1> HIDE DEF pre, post
<1>2. n \in Nat /\ v \in Nat /\ v <= n
  OBVIOUS
<1>3. ASSUME NEW x \in ArgsOf(l, kind)
      PROVE  x \in ArgsOf(pre, kind) \cup ArgsOf(post, kind)
  <2>1. PICK i \in 1..n : l[i].kind = kind /\ x = l[i].arg
    BY <1>3 DEF ArgsOf
  <2>2. CASE i <= v
    <3>1. i \in 1..Len(pre) /\ pre[i] = l[i]
      BY <1>1, <1>2, <2>1, <2>2
    <3> QED BY <2>1, <3>1 DEF ArgsOf
  <2>3. CASE i > v
    <3>1. i - v \in 1..Len(post) /\ post[i - v] = l[i]
      BY <1>1, <1>2, <2>1, <2>3
    <3> QED BY <2>1, <3>1 DEF ArgsOf
  <2> QED BY <1>2, <2>2, <2>3
<1>4. ASSUME NEW x \in ArgsOf(pre, kind)
      PROVE  x \in ArgsOf(l, kind)
  <2>1. PICK i \in 1..v : l[i].kind = kind /\ x = l[i].arg
    BY <1>1, <1>4 DEF ArgsOf
  <2>2. i \in 1..n
    BY <1>2, <2>1
  <2> QED BY <2>1, <2>2 DEF ArgsOf
<1>5. ASSUME NEW x \in ArgsOf(post, kind)
      PROVE  x \in ArgsOf(l, kind)
  <2>1. PICK i \in 1..(n - v) : l[v + i].kind = kind /\ x = l[v + i].arg
    BY <1>1, <1>5 DEF ArgsOf
  <2>2. v + i \in 1..n
    BY <1>2, <2>1
  <2> QED BY <2>1, <2>2 DEF ArgsOf
<1> QED
  BY <1>3, <1>4, <1>5 DEF pre, post

\* The last payload of a kind is the last after the cut, or else before it.
LEMMA LastArgCut ==
  ASSUME NEW S, NEW l \in Seq(S), NEW v \in 0..Len(l), NEW kind, NEW default
  PROVE  LastArg(l, kind, default) =
           LastArg(SubSeq(l, v + 1, Len(l)), kind,
                   LastArg(SubSeq(l, 1, v), kind, default))
<1> DEFINE pre  == SubSeq(l, 1, v)
           post == SubSeq(l, v + 1, Len(l))
           n == Len(l)
           at(s) == {i \in 1..Len(s) : s[i].kind = kind}
           last(s, i) == i \in at(s) /\ \A j \in at(s) : j <= i
<1>1. /\ Len(pre) = v /\ \A i \in 1..v : pre[i] = l[i]
      /\ Len(post) = n - v /\ \A i \in 1..(n - v) : post[i] = l[v + i]
  BY Cut
<1> HIDE DEF pre, post
<1>2. n \in Nat /\ v \in Nat /\ v <= n
  OBVIOUS
<1>3. ASSUME NEW s, NEW d, NEW k, last(s, k), Len(s) \in Nat
      PROVE  LastArg(s, kind, d) = s[k].arg
  <2>1. \A i : last(s, i) => i = k
    BY <1>3
  <2>2. (CHOOSE i \in at(s) : \A j \in at(s) : j <= i) = k
    <3> DEFINE c == CHOOSE i \in at(s) : \A j \in at(s) : j <= i
    <3>1. c \in at(s) /\ \A j \in at(s) : j <= c
      BY <1>3
    <3> QED BY <2>1, <3>1
  <2> QED BY <1>3, <2>2 DEF LastArg
<1>4. ASSUME NEW s, NEW d, at(s) = {} PROVE LastArg(s, kind, d) = d
  BY <1>4 DEF LastArg
<1>5. /\ \A i \in at(post) : v + i \in at(l)
      /\ \A i \in at(pre) : i \in at(l)
      /\ \A i \in at(l) : IF i <= v THEN i \in at(pre) ELSE i - v \in at(post)
  BY <1>1, <1>2
<1>6. /\ Len(l) \in Nat /\ Len(pre) \in Nat /\ Len(post) \in Nat
      /\ at(l) \subseteq 1..n /\ at(pre) \subseteq 1..v /\ at(post) \subseteq 1..(n - v)
  BY <1>1, <1>2
<1>7. CASE at(post) # {}
  <2> HIDE DEF at
  <2>1. PICK k \in at(post) : \A j \in at(post) : j <= k
    BY <1>1, <1>2, <1>6, <1>7, LastPosition
  <2>2. k \in 1..(n - v) /\ v + k \in at(l)
    BY <1>5, <1>6, <2>1
  <2>3. \A j \in at(l) : j <= v + k
    <3> TAKE j \in at(l)
    <3>1. j \in 1..n
      BY <1>6
    <3>2. CASE j <= v
      BY <1>2, <2>2, <3>1, <3>2
    <3>3. CASE ~(j <= v)
      <4>1. j - v \in at(post)
        BY <1>5, <3>3
      <4>2. j - v <= k
        BY <2>1, <4>1
      <4> QED BY <1>2, <2>2, <3>1, <4>2
    <3> QED BY <3>2, <3>3
  <2>4. LastArg(l, kind, default) = l[v + k].arg
    BY <1>3, <1>6, <2>2, <2>3
  <2>5. LastArg(post, kind, LastArg(pre, kind, default)) = post[k].arg
    BY <1>3, <1>6, <2>1
  <2> QED BY <1>1, <2>2, <2>4, <2>5 DEF pre, post
<1>8. CASE at(post) = {} /\ at(pre) # {}
  <2> HIDE DEF at
  <2>1. PICK k \in at(pre) : \A j \in at(pre) : j <= k
    BY <1>1, <1>2, <1>6, <1>8, LastPosition
  <2>2. k \in 1..v /\ k \in at(l)
    BY <1>5, <1>6, <2>1
  <2>3. \A j \in at(l) : j <= k
    BY <1>5, <1>8, <2>1
  <2>4. LastArg(l, kind, default) = l[k].arg
    BY <1>3, <1>6, <2>2, <2>3
  <2>5. LastArg(pre, kind, default) = pre[k].arg
    BY <1>3, <1>6, <2>1
  <2>6. LastArg(post, kind, LastArg(pre, kind, default)) = LastArg(pre, kind, default)
    BY <1>4, <1>8
  <2> QED BY <1>1, <2>2, <2>4, <2>5, <2>6 DEF pre, post
<1>9. CASE at(post) = {} /\ at(pre) = {}
  <2> HIDE DEF at
  <2>1. at(l) = {}
    BY <1>5, <1>9
  <2> QED BY <1>4, <1>9, <2>1 DEF pre, post
<1> QED
  BY <1>7, <1>8, <1>9

\* The shorter prefixes of a log stay what they are when it grows.
LEMMA PrefixKept ==
  ASSUME NEW S, NEW l \in Seq(S), NEW e \in S, NEW n \in 0..Len(l)
  PROVE  SubSeq(Append(l, e), 1, n) = SubSeq(l, 1, n)
OBVIOUS

\* A first part of a first part is one of the whole.
LEMMA PrefixOfPrefix ==
  ASSUME NEW S, NEW l \in Seq(S), NEW m \in 0..Len(l), NEW n \in 0..m
  PROVE  SubSeq(SubSeq(l, 1, m), 1, n) = SubSeq(l, 1, n)
<1> DEFINE a == SubSeq(SubSeq(l, 1, m), 1, n)
           b == SubSeq(l, 1, n)
<1>1. /\ SubSeq(l, 1, m) \in Seq(S) /\ Len(SubSeq(l, 1, m)) = m
      /\ \A i \in 1..m : SubSeq(l, 1, m)[i] = l[i]
  BY Cut
<1>2. a \in Seq(S) /\ Len(a) = n /\ \A i \in 1..n : a[i] = SubSeq(l, 1, m)[i]
  BY <1>1, Cut
<1>3. b \in Seq(S) /\ Len(b) = n /\ \A i \in 1..n : b[i] = l[i]
  BY Cut
<1>4. \A i \in 1..n : a[i] = b[i]
  BY <1>1, <1>2, <1>3
<1> HIDE DEF a, b
<1> QED
  BY <1>2, <1>3, <1>4, SeqEqual DEF a, b

\* Nothing leaves the record.
LEMMA ArgsOfPrefix ==
  ASSUME NEW S, NEW l \in Seq(S), NEW n \in 0..Len(l), NEW kind
  PROVE  ArgsOf(SubSeq(l, 1, n), kind) \subseteq ArgsOf(l, kind)
BY ArgsOfCut

\* What comes in order in a log comes in order in each first part of it.
LEMMA OrderlyPrefix ==
  ASSUME NEW S, NEW l \in Seq(S), NEW n \in 0..Len(l), Orderly(l)
  PROVE  Orderly(SubSeq(l, 1, n))
<1> DEFINE pre == SubSeq(l, 1, n)
<1>1. Len(pre) = n /\ \A i \in 1..n : pre[i] = l[i]
  BY Cut
<1> HIDE DEF pre
<1>2. n \in Nat /\ Len(l) \in Nat /\ n <= Len(l)
  OBVIOUS
<1>3. \A i \in 1..n : i \in 1..Len(l)
  BY <1>2
<1>4. \A j \in 1..n : \A i \in 1..(j - 1) : i \in 1..n
  BY <1>2
<1> QED
  BY <1>1, <1>3, <1>4 DEF Orderly, pre

\* The next event keeps a log orderly when it starts an action for the first
\* time, or observes for the first time one that was started.
LEMMA OrderlyAppend ==
  ASSUME NEW S, NEW l \in Seq(S), NEW e \in S, Orderly(l),
         e.kind = "ActionStarted" => e.arg \notin ArgsOf(l, "ActionStarted"),
         e.kind = "EffectObserved" => /\ e.arg \notin Observed(l)
                                      /\ e.arg \in ArgsOf(l, "ActionStarted")
  PROVE  Orderly(Append(l, e))
<1> DEFINE m == Append(l, e)
           n == Len(l)
<1>1. /\ n \in Nat /\ Len(m) = n + 1 /\ m[n + 1] = e
      /\ \A i \in 1..n : m[i] = l[i]
  OBVIOUS
<1> HIDE DEF m
<1>2. ASSUME NEW i \in 1..n, l[i].kind \in {"ActionStarted", "EffectObserved"},
             e.kind = l[i].kind, e.arg = l[i].arg
      PROVE  FALSE
  <2>1. l[i].arg \in ArgsOf(l, l[i].kind)
    BY DEF ArgsOf
  <2> QED BY <1>2, <2>1 DEF Observed
<1>3. ASSUME NEW i \in 1..(n + 1), NEW j \in 1..(n + 1),
             m[i].kind \in {"ActionStarted", "EffectObserved"},
             m[j].kind = m[i].kind, m[j].arg = m[i].arg
      PROVE  i = j
  <2>1. CASE i \in 1..n /\ j \in 1..n
    BY <1>1, <1>3, <2>1 DEF Orderly
  <2>2. CASE i = n + 1 /\ j \in 1..n
    BY <1>1, <1>2, <1>3, <2>2
  <2>3. CASE i \in 1..n /\ j = n + 1
    BY <1>1, <1>2, <1>3, <2>3
  <2>4. CASE i = n + 1 /\ j = n + 1
    BY <2>4
  <2> QED BY <1>1, <2>1, <2>2, <2>3, <2>4
<1>4. ASSUME NEW j \in 1..(n + 1), m[j].kind = "EffectObserved"
      PROVE  \E i \in 1..(j - 1) : m[i].kind = "ActionStarted" /\ m[i].arg = m[j].arg
  <2>1. CASE j \in 1..n
    <3>1. PICK i \in 1..(j - 1) : l[i].kind = "ActionStarted" /\ l[i].arg = l[j].arg
      BY <1>1, <1>4, <2>1 DEF Orderly
    <3>2. i \in 1..n
      BY <1>1, <2>1
    <3> QED BY <1>1, <2>1, <3>1, <3>2
  <2>2. CASE j = n + 1
    <3>1. PICK i \in 1..n : l[i].kind = "ActionStarted" /\ l[i].arg = e.arg
      BY <1>1, <1>4, <2>2 DEF ArgsOf
    <3>2. i \in 1..(j - 1) /\ m[i] = l[i] /\ m[j] = e
      BY <1>1, <2>2
    <3> QED BY <3>1, <3>2
  <2> QED BY <1>1, <2>1, <2>2
<1> QED
  BY <1>1, <1>3, <1>4 DEF Orderly, m

\* Two sets without a common member have the sum of their numbers.
LEMMA DisjointSum ==
  ASSUME NEW A, NEW B, IsFiniteSet(A), IsFiniteSet(B), A \cap B = {}
  PROVE  Cardinality(A \cup B) = Cardinality(A) + Cardinality(B)
<1>1. Cardinality(A) \in Nat /\ Cardinality(B) \in Nat
  BY FS_CardinalityType
<1>2. Cardinality(A \cap B) = 0
  BY FS_EmptySet
<1>3. Cardinality(A \cup B) = Cardinality(A) + Cardinality(B) - Cardinality(A \cap B)
  BY FS_Union
<1> QED
  BY <1>1, <1>2, <1>3

\* A fresh checkpoint is the fold of no events.
LEMMA FoldOfNothing ==
  ASSUME NEW S, NEW l \in Seq(S)
  PROVE  /\ Folded(NewCheckpoint, SubSeq(l, 1, 0))
         /\ Cardinality(ArgsOf(SubSeq(l, 1, 0), "ActionStarted")) = 0
         /\ Orphans(SubSeq(l, 1, 0)) = {}
<1>1. Len(SubSeq(l, 1, 0)) = 0
  OBVIOUS
<1> DEFINE s == SubSeq(l, 1, 0)
<1>2. \A kind : ArgsOf(s, kind) = {}
  BY <1>1 DEF ArgsOf
<1>3. \A kind, d : LastArg(s, kind, d) = d
  BY <1>1 DEF LastArg
<1> HIDE DEF s
<1>4. Folded(NewCheckpoint, s)
  BY <1>2, <1>3 DEF Folded, NewCheckpoint, StateOf
<1> QED
  BY <1>2, <1>4, FS_EmptySet DEF Orphans, s

\* Replaying the events a settled checkpoint misses gives the fold of them all:
\* each of them is counted once, and none that the checkpoint counts again.
LEMMA ReplayFolds ==
  ASSUME NEW l \in Seq(LogEvent), Orderly(l), Observed(l) \cap Unknown(l) = {},
         NEW c \in Checkpoint, c.version <= Len(l),
         Folded(c, SubSeq(l, 1, c.version)),
         c.actions = Cardinality(ArgsOf(SubSeq(l, 1, c.version), "ActionStarted")),
         Orphans(SubSeq(l, 1, c.version)) = {}
  PROVE  /\ Folded(Replay(c, l), l)
         /\ Replay(c, l).actions = Cardinality(ArgsOf(l, "ActionStarted"))
         /\ Replay(c, l).version = Len(l)
<1> DEFINE v == c.version
           n == Len(l)
           pre == SubSeq(l, 1, v)
           post == SubSeq(l, v + 1, n)
           before == ArgsOf(pre, "ActionStarted")
           after == ArgsOf(post, "ActionStarted")
<1>1. v \in 0..n /\ n \in Nat /\ v \in Nat
  BY DEF Checkpoint
<1> HIDE DEF v
<1>2. /\ pre \in Seq(LogEvent) /\ Len(pre) = v /\ \A i \in 1..v : pre[i] = l[i]
      /\ post \in Seq(LogEvent) /\ Len(post) = n - v
      /\ \A i \in 1..(n - v) : post[i] = l[v + i]
  BY <1>1, Cut
<1>3. \A kind : ArgsOf(l, kind) = ArgsOf(pre, kind) \cup ArgsOf(post, kind)
  BY <1>1, ArgsOfCut
<1>4. \A kind, d : LastArg(l, kind, d) = LastArg(post, kind, LastArg(pre, kind, d))
  BY <1>1, LastArgCut
<1>h. /\ Folded(c, pre) /\ c.actions = Cardinality(before) /\ Orphans(pre) = {}
  BY DEF v
<1> HIDE DEF pre, post, n
<1>5. ASSUME NEW a \in ArgsOf(post, "EffectObserved")
      PROVE  a \in after
  <2>1. PICK k \in 1..(n - v) : l[v + k].kind = "EffectObserved" /\ a = l[v + k].arg
    BY <1>2, <1>5 DEF ArgsOf
  <2>2. v + k \in 1..n
    BY <1>1, <2>1
  <2> DEFINE j == v + k
  <2>j. j \in 1..n /\ l[j].kind = "EffectObserved" /\ a = l[j].arg
    BY <2>1, <2>2
  <2> HIDE DEF j
  <2>3. PICK i \in 1..(j - 1) : l[i].kind = "ActionStarted" /\ l[i].arg = a
    BY <2>j DEF Orderly, n
  <2>i. i < v + k /\ i >= 1 /\ i \in Nat
    BY <1>1, <2>1, <2>3, <2>j DEF j
  <2>4. CASE i <= v
    <3>1. i \in 1..Len(pre) /\ pre[i] = l[i]
      BY <1>1, <1>2, <2>i, <2>4
    <3>2. a \in before
      BY <2>3, <3>1 DEF ArgsOf
    <3>3. a \in ArgsOf(pre, "EffectObserved") \cup ArgsOf(pre, "EffectUnknown")
      BY <1>h, <3>2 DEF Orphans
    <3>4. a \notin ArgsOf(pre, "EffectUnknown")
      BY <1>3, <1>5 DEF Observed, Unknown
    <3>5. a \in ArgsOf(pre, "EffectObserved")
      BY <3>3, <3>4
    <3>6. PICK o \in 1..v : l[o].kind = "EffectObserved" /\ l[o].arg = a
      BY <1>2, <3>5 DEF ArgsOf
    <3>7. o \in 1..n /\ o # j
      BY <1>1, <2>1, <3>6 DEF j
    <3> QED BY <2>j, <3>6, <3>7 DEF Orderly, n
  <2>5. CASE i > v
    <3>1. i - v \in 1..Len(post) /\ post[i - v] = l[i]
      BY <1>1, <1>2, <2>1, <2>i, <2>5
    <3> QED BY <2>3, <3>1 DEF ArgsOf
  <2> QED BY <1>1, <2>i, <2>4, <2>5
<1>6. before \cap after = {}
  <2> SUFFICES ASSUME NEW a \in before, a \in after PROVE FALSE
    OBVIOUS
  <2>1. PICK i \in 1..v : l[i].kind = "ActionStarted" /\ l[i].arg = a
    BY <1>2 DEF ArgsOf
  <2>2. PICK k \in 1..(n - v) : l[v + k].kind = "ActionStarted" /\ l[v + k].arg = a
    BY <1>2 DEF ArgsOf
  <2>3. i \in 1..n /\ v + k \in 1..n /\ i # v + k
    BY <1>1, <2>1, <2>2
  <2> QED BY <2>1, <2>2, <2>3 DEF Orderly, n
<1>7. Cardinality(ArgsOf(l, "ActionStarted")) = Cardinality(before) + Cardinality(after)
  <2>1. IsFiniteSet(before) /\ IsFiniteSet(after)
    BY <1>2, ArgsOfFinite
  <2>2. ArgsOf(l, "ActionStarted") = before \cup after
    BY <1>3
  <2> QED BY <1>6, <2>1, <2>2, DisjointSum
<1>8. after \cup ArgsOf(post, "EffectObserved") = after
  BY <1>5
<1>9. /\ Replay(c, l).state = LastArg(post, "TaskStateChanged", c.state)
      /\ Replay(c, l).version = n
      /\ Replay(c, l).actions =
           c.actions + Cardinality(after \cup ArgsOf(post, "EffectObserved"))
      /\ Replay(c, l).plan = LastArg(post, "PublicPlanRevised", c.plan)
      /\ Replay(c, l).baseline =
           IF ArgsOf(post, "PreflightCompleted") # {} THEN TRUE ELSE c.baseline
  BY DEF Replay, post, v, n
<1>10. /\ c.state = StateOf(pre)
       /\ c.plan = LastArg(pre, "PublicPlanRevised", 0)
       /\ c.baseline = (ArgsOf(pre, "PreflightCompleted") # {})
       /\ c.actions = Cardinality(before)
  BY <1>h DEF Folded
<1>11. Replay(c, l).actions = Cardinality(ArgsOf(l, "ActionStarted"))
  BY <1>7, <1>8, <1>9, <1>10
<1>12. Folded(Replay(c, l), l)
  <2>1. Replay(c, l).state = StateOf(l)
    BY <1>4, <1>9, <1>10 DEF StateOf
  <2>2. Replay(c, l).plan = LastArg(l, "PublicPlanRevised", 0)
    BY <1>4, <1>9, <1>10
  <2>3. Replay(c, l).baseline = (ArgsOf(l, "PreflightCompleted") # {})
    BY <1>3, <1>9, <1>10
  <2> QED BY <2>1, <2>2, <2>3 DEF Folded
<1> QED
  BY <1>9, <1>11, <1>12 DEF n

-----------------------------------------------------------------------------
(* The log grows by events its state allows. *)

\* What the log must say for an event to be its next one.
Allowed(e) ==
  /\ e.kind = "ActionStarted" =>
       /\ StateOf(log) = "RUNNING" /\ Unknown(log) = {}
       /\ e.arg \notin Started
       /\ Cardinality(Started) < MaxActions
  /\ e.kind = "EffectObserved" => e.arg \in Orphans(log) /\ Unknown(log) = {}
  /\ e.kind = "EffectUnknown" => e.arg \in Orphans(log)
  /\ e.kind = "VerificationCompleted" =>
       StateOf(log) = "VERIFYING" /\ Verdict(log) = "none"
  /\ e.kind = "TaskStateChanged" =>
       /\ LegalTransition(StateOf(log), e.arg)
       /\ Orphans(log) = {}
       /\ (Unknown(log) # {}) = (e.arg = "RECONCILING")
       /\ e.arg = "REVIEW_READY" => Verdict(log) = "PASS"
       /\ StateOf(log) = "VERIFYING" =>
            Verdict(log) # "none" /\ e.arg \in {"REVIEW_READY", "BLOCKED"}
       /\ StateOf(log) \notin QuiescentStates \cup {"RECONCILING"}
  /\ Unknown(log) # {} =>
       e.kind \in {"EffectUnknown", "TaskBlocked", "TaskStateChanged"}

\* What a log of one event more says.
LEMMA LogReads ==
  ASSUME log \in Seq(LogEvent), NEW e \in LogEvent, log' = Append(log, e)
  PROVE  /\ log' \in Seq(LogEvent) /\ Len(log') = Len(log) + 1
         /\ \A kind : ArgsOf(log', kind) =
              ArgsOf(log, kind) \cup (IF e.kind = kind THEN {e.arg} ELSE {})
         /\ \A kind, d : LastArg(log', kind, d) =
              IF e.kind = kind THEN e.arg ELSE LastArg(log, kind, d)
         /\ \A n \in 0..Len(log) : SubSeq(log', 1, n) = SubSeq(log, 1, n)
<1>1. log' \in Seq(LogEvent) /\ Len(log') = Len(log) + 1
  OBVIOUS
<1>2. \A n \in 0..Len(log) : SubSeq(log', 1, n) = SubSeq(log, 1, n)
  BY PrefixKept
<1> QED
  BY <1>1, <1>2, ArgsOfAppend, LastArgAppend

\* The types of what can be read.
LEMMA ReadTypes ==
  ASSUME NEW l \in Seq(LogEvent)
  PROVE  /\ StateOf(l) \in TaskState
         /\ Verdict(l) \in {"none", "PASS", "NOT_PASS"}
         /\ \A kind \in {"ActionStarted", "EffectObserved", "EffectUnknown"} :
              ArgsOf(l, kind) \subseteq Action
<1>1. \A i \in 1..Len(l) :
         l[i].kind = "VerificationCompleted" => l[i].arg \in {"none", "PASS", "NOT_PASS"}
  <2> TAKE i \in 1..Len(l)
  <2>1. l[i] \in LogEvent
    OBVIOUS
  <2> QED BY <2>1 DEF LogEvent, PlainKind, EventKind
<1>2. Verdict(l) \in {"none", "PASS", "NOT_PASS"}
  BY <1>1, LastArgType DEF Verdict
<1>3. "CREATED" \in TaskState
  BY DEF TaskState
<1>4. StateOf(l) \in TaskState
  BY <1>3, Payloads, LastArgType DEF StateOf
<1>5. \A kind \in {"ActionStarted", "EffectObserved", "EffectUnknown"} :
        ArgsOf(l, kind) \subseteq Action
  BY Payloads DEF ArgsOf
<1> QED
  BY <1>2, <1>4, <1>5

\* An allowed event keeps the log's invariant.
LEMMA LogKept ==
  ASSUME log \in Seq(LogEvent), LogInv, NEW e \in LogEvent, Allowed(e),
         log' = Append(log, e)
  PROVE  LogInv'
<1>1. /\ log' \in Seq(LogEvent) /\ Len(log') = Len(log) + 1 /\ Len(log) \in Nat
      /\ \A kind : ArgsOf(log', kind) =
           ArgsOf(log, kind) \cup (IF e.kind = kind THEN {e.arg} ELSE {})
      /\ \A kind, d : LastArg(log', kind, d) =
           IF e.kind = kind THEN e.arg ELSE LastArg(log, kind, d)
  BY LogReads
<1>2. Orderly(log)'
  <2>1. Orderly(log)
    BY DEF LogInv
  <2>2. e.kind = "ActionStarted" => e.arg \notin ArgsOf(log, "ActionStarted")
    BY DEF Allowed, Started
  <2>3. e.kind = "EffectObserved" => /\ e.arg \notin Observed(log)
                                     /\ e.arg \in ArgsOf(log, "ActionStarted")
    BY DEF Allowed, Orphans, Observed
  <2>4. Orderly(Append(log, e))
    BY <2>1, <2>2, <2>3, OrderlyAppend
  <2>5. Orderly(log')
    BY <2>4
  <2> QED BY <2>5
<1>3. (Observed(log) \cap Unknown(log) = {})'
  BY <1>1 DEF LogInv, Allowed, Observed, Unknown, Orphans
<1>4. (Orphans(log) # {} => StateOf(log) = "RUNNING")'
  BY <1>1 DEF LogInv, Allowed, Orphans, StateOf
<1>5. (Unknown(log) # {} => StateOf(log) \in {"RUNNING", "RECONCILING"})'
  BY <1>1 DEF LogInv, Allowed, Orphans, Unknown, StateOf
<1>6. (Verdict(log) # "none" =>
         StateOf(log) \in {"VERIFYING", "REVIEW_READY", "BLOCKED"})'
  BY <1>1 DEF LogInv, Allowed, Verdict, StateOf, QuiescentStates
<1>7. (Cardinality(Started) <= MaxActions)'
  <2>1. IsFiniteSet(Started)
    BY ArgsOfFinite DEF Started
  <2>2. Cardinality(Started) \in Nat
    BY <2>1, FS_CardinalityType
  <2>3. CASE e.kind = "ActionStarted"
    <3>1. Started' = Started \cup {e.arg}
      BY <1>1, <2>3 DEF Started
    <3>2. Cardinality(Started \cup {e.arg}) = Cardinality(Started) + 1
      BY <2>1, <2>3, FS_AddElement DEF Allowed
    <3>3. Cardinality(Started) < MaxActions
      BY <2>3 DEF Allowed
    <3> QED BY <2>2, <3>1, <3>2, <3>3, KernelAssumption
  <2>4. CASE e.kind # "ActionStarted"
    <3>1. Started' = Started
      BY <1>1, <2>4 DEF Started
    <3> QED BY <3>1 DEF LogInv
  <2> QED BY <2>3, <2>4
<1>8. NoDecisionAfterUnknown'
  <2> DEFINE n == Len(log)
  <2>1. /\ n \in Nat /\ Len(log') = n + 1 /\ log'[n + 1] = e
        /\ \A i \in 1..n : log'[i] = log[i]
    OBVIOUS
  <2> SUFFICES ASSUME NEW i \in 1..(n + 1), NEW j \in 1..(n + 1), i < j,
                      log'[i].kind = "EffectUnknown"
               PROVE  \/ log'[j].kind \in {"EffectUnknown", "TaskBlocked"}
                      \/ log'[j] = Event("TaskStateChanged", "RECONCILING")
    BY <2>1 DEF NoDecisionAfterUnknown
  <2>2. i \in 1..n /\ log[i].kind = "EffectUnknown"
    BY <2>1
  <2>3. CASE j \in 1..n
    BY <2>1, <2>2, <2>3 DEF LogInv, NoDecisionAfterUnknown
  <2>4. CASE j = n + 1
    <3>1. Unknown(log) # {}
      BY <2>2 DEF Unknown, ArgsOf
    <3>2. CASE e.kind \in {"EffectUnknown", "TaskBlocked"}
      BY <2>1, <2>4, <3>2
    <3>3. CASE e.kind = "TaskStateChanged"
      <4>1. e.arg = "RECONCILING"
        BY <3>1, <3>3 DEF Allowed
      <4>2. e = Event("TaskStateChanged", "RECONCILING")
        BY <3>3, <4>1 DEF LogEvent, Event, PlainKind
      <4> QED BY <2>1, <2>4, <4>2
    <3> QED BY <3>1, <3>2, <3>3 DEF Allowed
  <2> QED BY <2>1, <2>3, <2>4
<1> QED
  BY <1>2, <1>3, <1>4, <1>5, <1>6, <1>7, <1>8 DEF LogInv

-----------------------------------------------------------------------------
(* What a step leaves alone. *)

\* The log keeps what it says and only says more.
Grown ==
  /\ log' \in Seq(LogEvent)
  /\ Len(log) <= Len(log')
  /\ \A n \in 0..Len(log) : SubSeq(log', 1, n) = SubSeq(log, 1, n)
  /\ Started \subseteq Started'
  /\ Unknown(log) \subseteq Unknown(log')
  /\ Verdict(log) # "none" => Verdict(log') = Verdict(log)

\* A log that stays as it is has grown.
LEMMA GrownBySame ==
  ASSUME log \in Seq(LogEvent), log' = log
  PROVE  Grown
  BY DEF Grown, Started

\* A log has grown by an event that is allowed there.
LEMMA GrownByEvent ==
  ASSUME log \in Seq(LogEvent), NEW e \in LogEvent, Allowed(e), log' = Append(log, e)
  PROVE  Grown
<1>1. /\ log' \in Seq(LogEvent) /\ Len(log') = Len(log) + 1 /\ Len(log) \in Nat
      /\ \A kind : ArgsOf(log', kind) =
           ArgsOf(log, kind) \cup (IF e.kind = kind THEN {e.arg} ELSE {})
      /\ \A kind, d : LastArg(log', kind, d) =
           IF e.kind = kind THEN e.arg ELSE LastArg(log, kind, d)
      /\ \A n \in 0..Len(log) : SubSeq(log', 1, n) = SubSeq(log, 1, n)
  BY LogReads
<1>2. Started \subseteq Started' /\ Unknown(log) \subseteq Unknown(log')
  BY <1>1 DEF Started, Unknown
<1>3. Verdict(log) # "none" => Verdict(log') = Verdict(log)
  BY <1>1 DEF Verdict, Allowed
<1> QED
  BY <1>1, <1>2, <1>3 DEF Grown

Untouched(v) ==
  /\ pc'[v] = pc[v] /\ ck'[v] = ck[v] /\ orphans'[v] = orphans[v]
  /\ work'[v] = work[v] /\ pos'[v] = pos[v]

\* A worker that does not move keeps its invariant, as long as none of the
\* actions it has yet to start or to dispatch is started or observed by another.
LEMMA OtherWorker ==
  ASSUME TypeInv, NEW v \in Worker, WorkerInv(v), Grown, Untouched(v),
         pc[v] \in {"request", "start"} => \A i \in 1..Len(work[v]) :
           work[v][i].action \in Started' => work[v][i].action \in Started,
         pc[v] = "submit" => \A i \in 1..Len(work[v]) :
           work[v][i].action \in Observed(log') => work[v][i].action \in Observed(log)
  PROVE  WorkerInv(v)'
<1> SUFFICES ASSUME pc[v] \notin {"idle", "loadCheckpoint"} PROVE WorkerInv(v)'
  BY DEF WorkerInv, Untouched
<1>1. /\ ck[v].version \in Nat /\ ck[v].version <= Len(log)
      /\ Len(log) \in Nat /\ Len(log') \in Nat
      /\ pos[v] \in Nat \ {0} /\ Len(work[v]) \in Nat
  BY DEF TypeInv, WorkerInv, Checkpoint, Grown
<1>2. Prefix(v)' = Prefix(v)
  BY <1>1 DEF Prefix, Grown, Untouched
<1>3. ck'[v].version <= Len(log')
  BY <1>1 DEF Grown, Untouched
<1>4. Folded(ck[v], Prefix(v))'
  BY <1>2 DEF WorkerInv, Folded, Untouched
<1>5. (Orphans(Prefix(v)) = IF pc[v] = "markOrphan" THEN orphans[v] ELSE Waiting(v))'
  BY <1>2 DEF WorkerInv, Untouched, Waiting
<1>6. (ck[v].actions + Uncounted(v) = Cardinality(ArgsOf(Prefix(v), "ActionStarted")))'
  BY <1>2 DEF WorkerInv, Untouched, Uncounted
<1>7. PointInv(v)'
  <2>1. PointInv(v)
    BY DEF WorkerInv
  <2>2. (Unknown(log) # {}) => (Unknown(log') # {})
    BY DEF Grown
  <2>3. Verdict(log) \in {"PASS", "NOT_PASS"} => Verdict(log') = Verdict(log)
    BY DEF Grown
  <2> QED BY <1>2, <2>1, <2>2, <2>3 DEF PointInv, Untouched
<1>8. IntentInv(v)'
  <2>1. IntentInv(v)
    BY DEF WorkerInv
  <2>2. \A i \in pos[v]..Len(work[v]) : i \in 1..Len(work[v])
    BY <1>1
  <2>3. Started \subseteq Started'
    BY DEF Grown
  <2>4. /\ pc'[v] = pc[v] /\ ck'[v] = ck[v] /\ work'[v] = work[v] /\ pos'[v] = pos[v]
    BY DEF Untouched
  <2>5. pc[v] \in {"request", "start"} =>
          \A i \in pos[v]..Len(work[v]) : work[v][i].action \notin Started'
    BY <2>1, <2>2 DEF IntentInv
  <2>6. pc[v] = "submit" =>
          \A i \in 1..Len(work[v]) : work[v][i].action \notin Observed(log')
    BY <2>1 DEF IntentInv
  <2> QED BY <2>1, <2>3, <2>4, <2>5, <2>6 DEF IntentInv
<1> QED
  BY <1>3, <1>4, <1>5, <1>6, <1>7, <1>8 DEF WorkerInv

\* A saved checkpoint stays the fold of its prefix.
LEMMA CheckpointStays ==
  ASSUME TypeInv, CheckpointInv, Grown, checkpoint' = checkpoint
  PROVE  CheckpointInv'
<1> SUFFICES ASSUME checkpoint # NoCheckpoint PROVE CheckpointInv'
  BY DEF CheckpointInv
<1>1. checkpoint.version \in 0..Len(log) /\ Len(log) \in Nat /\ Len(log') \in Nat
  BY DEF TypeInv, CheckpointInv, Checkpoint, Grown
<1>2. SubSeq(log', 1, checkpoint.version) = SubSeq(log, 1, checkpoint.version)
  BY <1>1 DEF Grown
<1>3. checkpoint.version <= Len(log')
  BY <1>1 DEF Grown
<1> QED
  BY <1>2, <1>3 DEF CheckpointInv, Folded

\* The intents of two workers stay apart when no worker takes new ones.
LEMMA ApartKept ==
  ASSUME Apart, NEW w \in Worker,
         \A v \in Worker \ {w} : Untouched(v),
         pc'[w] \in IntentPoints => /\ pc[w] \in IntentPoints
                                    /\ Len(work'[w]) = Len(work[w])
                                    /\ \A i \in 1..Len(work[w]) :
                                         work'[w][i].action = work[w][i].action
  PROVE  Apart'
<1> SUFFICES ASSUME NEW u \in Worker, NEW v \in Worker, u # v,
                    pc'[u] \in IntentPoints, pc'[v] \in IntentPoints,
                    NEW i \in 1..Len(work'[u]), NEW j \in 1..Len(work'[v])
             PROVE  work'[u][i].action # work'[v][j].action
  BY DEF Apart
<1>1. ASSUME NEW x \in Worker, pc'[x] \in IntentPoints
      PROVE  /\ pc[x] \in IntentPoints
             /\ Len(work'[x]) = Len(work[x])
             /\ \A k \in 1..Len(work[x]) : work'[x][k].action = work[x][k].action
  BY <1>1 DEF Untouched
<1> QED
  BY <1>1 DEF Apart

\* A step of one worker that adds nothing to the log.
LEMMA LocalStep ==
  ASSUME KernelInv, Inv', NEW w \in Worker, log' = log,
         \A v \in Worker \ {w} : Untouched(v),
         CheckpointInv', WorkerInv(w)',
         pc'[w] \in IntentPoints => /\ pc[w] \in IntentPoints
                                    /\ Len(work'[w]) = Len(work[w])
                                    /\ \A i \in 1..Len(work[w]) :
                                         work'[w][i].action = work[w][i].action
  PROVE  KernelInv'
<1>1. TypeInv /\ log \in Seq(LogEvent)
  BY DEF KernelInv, Inv, TypeInv
<1>2. Grown
  BY <1>1, GrownBySame
<1>3. LogInv'
  BY DEF KernelInv, LogInv, Orderly, Started, NoDecisionAfterUnknown
<1>4. \A v \in Worker \ {w} : WorkerInv(v)'
  <2>1. Started' = Started
    BY DEF Started
  <2> QED BY <1>1, <1>2, <2>1, OtherWorker DEF KernelInv
<1>5. Apart'
  BY ApartKept DEF KernelInv
<1> QED
  BY <1>3, <1>4, <1>5 DEF KernelInv

\* A step of one worker that appends an allowed event, one of its own intents if
\* it is a start or a receipt.
LEMMA CommitStep ==
  ASSUME KernelInv, Inv', NEW w \in Worker, NEW e \in LogEvent, Allowed(e),
         log' = Append(log, e), checkpoint' = checkpoint,
         \A v \in Worker \ {w} : Untouched(v),
         e.kind \in {"ActionStarted", "EffectObserved"} =>
           /\ pc[w] \in IntentPoints
           /\ \E i \in 1..Len(work[w]) : work[w][i].action = e.arg,
         WorkerInv(w)', Apart'
  PROVE  KernelInv'
<1>1. TypeInv /\ log \in Seq(LogEvent)
  BY DEF KernelInv, Inv, TypeInv
<1>2. Grown
  BY <1>1, GrownByEvent
<1>3. LogInv'
  BY <1>1, LogKept DEF KernelInv
<1>4. CheckpointInv'
  BY <1>1, <1>2, CheckpointStays DEF KernelInv
<1>5. ASSUME NEW v \in Worker \ {w}
      PROVE  WorkerInv(v)'
  <2>1. \A kind : ArgsOf(log', kind) =
          ArgsOf(log, kind) \cup (IF e.kind = kind THEN {e.arg} ELSE {})
    BY <1>1, LogReads
  <2>2. ASSUME pc[v] \in IntentPoints, NEW i \in 1..Len(work[v]),
               NEW kind \in {"ActionStarted", "EffectObserved"},
               work[v][i].action \in ArgsOf(log', kind)
        PROVE  work[v][i].action \in ArgsOf(log, kind)
    <3>1. CASE e.kind = kind
      <4>1. pc[w] \in IntentPoints
        BY <3>1
      <4>2. PICK k \in 1..Len(work[w]) : work[w][k].action = e.arg
        BY <3>1
      <4>3. work[v][i].action # work[w][k].action
        BY <2>2, <4>1, <1>5 DEF KernelInv, Apart
      <4> QED BY <2>1, <2>2, <4>2, <4>3
    <3>2. CASE e.kind # kind
      BY <2>1, <2>2, <3>2
    <3> QED BY <3>1, <3>2
  <2>3. pc[v] \in {"request", "start"} => \A i \in 1..Len(work[v]) :
          work[v][i].action \in Started' => work[v][i].action \in Started
    BY <2>2 DEF Started, IntentPoints
  <2>4. pc[v] = "submit" => \A i \in 1..Len(work[v]) :
          work[v][i].action \in Observed(log') => work[v][i].action \in Observed(log)
    BY <2>2 DEF Observed, IntentPoints
  <2>5. WorkerInv(v) /\ Untouched(v)
    BY DEF KernelInv
  <2> QED BY <1>1, <1>2, <2>3, <2>4, <2>5, OtherWorker
<1> QED
  BY <1>3, <1>4, <1>5 DEF KernelInv

-----------------------------------------------------------------------------
(* The appends. *)

Away == {"idle", "loadCheckpoint"}

\* A worker whose append is accepted knows the whole log.
LEMMA AtHead ==
  ASSUME KernelInv, NEW w \in Worker, pc[w] \notin Away, ck[w].version = Len(log)
  PROVE  /\ log \in Seq(LogEvent) /\ ck[w] \in Checkpoint
         /\ Prefix(w) = log
         /\ Folded(ck[w], log)
         /\ Orphans(log) = IF pc[w] = "markOrphan" THEN orphans[w] ELSE Waiting(w)
         /\ ck[w].actions + Uncounted(w) = Cardinality(Started)
         /\ PointInv(w) /\ IntentInv(w)
         /\ pc[w] \in RunningPoints => StateOf(log) = "RUNNING" /\ Unknown(log) = {}
<1>1. log \in Seq(LogEvent) /\ ck[w] \in Checkpoint
  BY DEF KernelInv, Inv, TypeInv
<1>2. Prefix(w) = log
  BY <1>1 DEF Prefix
<1>3. WorkerInv(w)
  BY DEF KernelInv
<1> QED
  BY <1>1, <1>2, <1>3 DEF WorkerInv, Away, Started, PointInv, Folded

\* What an accepted append leaves to its worker and to the others.
LEMMA AfterCommit ==
  ASSUME KernelInv, NEW w \in Worker, NEW e \in LogEvent, NEW c \in Checkpoint,
         Commit(w, e, c)
  PROVE  /\ ck[w].version = Len(log)
         /\ log' = Append(log, e) /\ log' \in Seq(LogEvent)
         /\ UNCHANGED <<checkpoint, ran, runs, seen>>
         /\ ck'[w].version = Len(log') /\ Len(log') \in Nat
         /\ Prefix(w)' = log'
         /\ ck'[w].state = c.state /\ ck'[w].plan = c.plan
         /\ ck'[w].baseline = c.baseline /\ ck'[w].actions = c.actions
         /\ ck'[w].turn = c.turn
         /\ \A v \in Worker \ {w} : ck'[v] = ck[v]
<1>1. /\ log \in Seq(LogEvent) /\ ck \in [Worker -> Checkpoint]
      /\ ck[w].version = Len(log) /\ log' = Append(log, e)
      /\ ck' = [ck EXCEPT ![w] = [c EXCEPT !.version = Len(log) + 1]]
      /\ UNCHANGED <<checkpoint, ran, runs, seen>>
  BY DEF KernelInv, Inv, TypeInv, Commit
<1>2. log' \in Seq(LogEvent) /\ Len(log') = Len(log) + 1 /\ Len(log') \in Nat
  BY <1>1
<1>3. ck'[w] = [c EXCEPT !.version = Len(log) + 1]
  BY <1>1
<1>4. /\ ck'[w].version = Len(log')
      /\ ck'[w].state = c.state /\ ck'[w].plan = c.plan
      /\ ck'[w].baseline = c.baseline /\ ck'[w].actions = c.actions
      /\ ck'[w].turn = c.turn
  BY <1>2, <1>3 DEF Checkpoint
<1>5. SubSeq(log', 1, Len(log')) = log'
  BY <1>2
<1>6. Prefix(w)' = log'
  BY <1>4, <1>5 DEF Prefix
<1>7. \A v \in Worker \ {w} : ck'[v] = ck[v]
  BY <1>1
<1> QED
  BY <1>1, <1>2, <1>4, <1>6, <1>7

\* Events that replay does not read.
QuietKind == PlainKind \ {"PreflightCompleted"}

\* A quiet event changes nothing of what the log says of states, actions and verdicts.
LEMMA QuietReads ==
  ASSUME log \in Seq(LogEvent), NEW e \in LogEvent, e.kind \in QuietKind,
         log' = Append(log, e)
  PROVE  /\ Started' = Started /\ Observed(log') = Observed(log)
         /\ Unknown(log') = Unknown(log) /\ Orphans(log') = Orphans(log)
         /\ StateOf(log') = StateOf(log) /\ Verdict(log') = Verdict(log)
         /\ \A c : Folded(c, log') = Folded(c, log)
<1>1. /\ \A kind : ArgsOf(log', kind) =
           ArgsOf(log, kind) \cup (IF e.kind = kind THEN {e.arg} ELSE {})
      /\ \A kind, d : LastArg(log', kind, d) =
           IF e.kind = kind THEN e.arg ELSE LastArg(log, kind, d)
  BY LogReads
<1>2. e.kind \notin {"TaskStateChanged", "PublicPlanRevised", "ActionStarted",
                     "EffectObserved", "EffectUnknown", "VerificationCompleted",
                     "PreflightCompleted"}
  BY DEF QuietKind, PlainKind
<1>3. \A kind \in {"ActionStarted", "EffectObserved", "EffectUnknown",
                   "PreflightCompleted"} : ArgsOf(log', kind) = ArgsOf(log, kind)
  BY <1>1, <1>2
<1>4. \A kind \in {"TaskStateChanged", "PublicPlanRevised", "VerificationCompleted"} :
        \A d : LastArg(log', kind, d) = LastArg(log, kind, d)
  BY <1>1, <1>2
<1> QED
  BY <1>3, <1>4 DEF Started, Observed, Unknown, Orphans, StateOf, Verdict, Folded

\* An append of such an event, between two points of which the second asks no
\* more than the first.
QuietMove(from, to) ==
  \/ from \in RunningPoints \ IntentPoints /\ to \in RunningPoints \ IntentPoints
  \/ from = "request" /\ to = "start"
  \/ from = "grant" /\ to = "observe"
  \/ from = "blockOrphans" /\ to = "toReconciling"
  \/ from = "create" /\ to = "toPreflight"

\* A commit of a quiet event that moves the worker quietly keeps the invariant.
LEMMA QuietStep ==
  ASSUME KernelInv, Inv', NEW w \in Worker, NEW e \in LogEvent, e.kind \in QuietKind,
         e.kind = "TaskBlocked" \/ Unknown(log) = {},
         NEW c \in Checkpoint, Commit(w, e, c),
         c.state = ck[w].state, c.plan = ck[w].plan, c.baseline = ck[w].baseline,
         c.actions = ck[w].actions,
         NEW next, Goto(w, next), QuietMove(pc[w], next), UNCHANGED <<orphans, work, pos>>
  PROVE  KernelInv'
<1>t. TypeInv /\ WorkerInv(w) /\ WorkInv(w) /\ pc[w] \notin Away
  BY DEF KernelInv, Inv, QuietMove, RunningPoints, IntentPoints, Away
<1>1. /\ ck[w].version = Len(log)
      /\ log' = Append(log, e) /\ checkpoint' = checkpoint
      /\ ck'[w].version = Len(log') /\ Len(log') \in Nat
      /\ Prefix(w)' = log'
      /\ ck'[w].state = c.state /\ ck'[w].plan = c.plan
      /\ ck'[w].baseline = c.baseline /\ ck'[w].actions = c.actions
      /\ \A v \in Worker \ {w} : ck'[v] = ck[v]
  BY AfterCommit
<1>2. /\ log \in Seq(LogEvent) /\ Prefix(w) = log /\ Folded(ck[w], log)
      /\ Orphans(log) = IF pc[w] = "markOrphan" THEN orphans[w] ELSE Waiting(w)
      /\ ck[w].actions + Uncounted(w) = Cardinality(Started)
      /\ PointInv(w) /\ IntentInv(w)
  BY <1>t, <1>1, AtHead
<1>3. /\ Started' = Started /\ Observed(log') = Observed(log)
      /\ Unknown(log') = Unknown(log) /\ Orphans(log') = Orphans(log)
      /\ StateOf(log') = StateOf(log) /\ Verdict(log') = Verdict(log)
      /\ \A d : Folded(d, log') = Folded(d, log)
  BY <1>1, <1>2, QuietReads
<1>4. pc' = [pc EXCEPT ![w] = next]
  BY DEF Goto
<1>5. pc'[w] = next /\ \A v \in Worker \ {w} : pc'[v] = pc[v]
  BY <1>t, <1>4 DEF TypeInv
<1>6. \A v \in Worker \ {w} : Untouched(v)
  BY <1>1, <1>5 DEF Untouched
<1>7. Allowed(e)
  BY <1>2 DEF Allowed, QuietKind, PlainKind
<1>8. e.kind \notin {"ActionStarted", "EffectObserved"}
  BY DEF QuietKind, PlainKind
<1>9. pc[w] = "request" => pos[w] = 1
  BY <1>t DEF WorkInv
<1>10. Orphans(log') = Waiting(w)'
  <2>1. Orphans(log) = Waiting(w)
    BY <1>2 DEF QuietMove, RunningPoints, IntentPoints
  <2>2. Waiting(w)' = Waiting(w)
    BY <1>5, <1>9 DEF Waiting, QuietMove, RunningPoints, IntentPoints
  <2> QED BY <1>3, <2>1, <2>2
<1>11. Uncounted(w)' = Uncounted(w)
  BY <1>5, <1>9 DEF Uncounted, QuietMove, RunningPoints, IntentPoints
<1>12. PointInv(w)'
  BY <1>1, <1>2, <1>3, <1>5 DEF PointInv, QuietMove, RunningPoints, IntentPoints
<1>13. IntentInv(w)'
  BY <1>1, <1>2, <1>3, <1>5 DEF IntentInv, QuietMove, RunningPoints, IntentPoints
<1>14. WorkerInv(w)'
  <2>1. Folded(ck[w], log)' 
    BY <1>1, <1>2, <1>3 DEF Folded
  <2>2. next # "markOrphan"
    BY DEF QuietMove, RunningPoints, IntentPoints
  <2>3. (ck[w].actions + Uncounted(w) = Cardinality(Started))'
    BY <1>1, <1>2, <1>3, <1>11
  <2> QED BY <1>1, <1>5, <1>10, <1>12, <1>13, <2>1, <2>2, <2>3 DEF WorkerInv, Started
<1>15. Apart'
  <2>1. pc'[w] \in IntentPoints => pc[w] \in IntentPoints
    BY <1>5 DEF QuietMove, RunningPoints, IntentPoints
  <2> QED BY <1>6, <2>1, ApartKept DEF KernelInv
<1> QED
  BY <1>1, <1>6, <1>7, <1>8, <1>14, <1>15, CommitStep

\* The appends that change nothing replay reads.
LEMMA QuietSteps ==
  ASSUME KernelInv, Inv', NEW w \in Worker,
         \/ BlockOrphans(w) \/ Create(w) \/ Block(w) \/ Respond(w) \/ Delegate(w)
         \/ Request(w) \/ RecordGrant(w) \/ Propose(w)
         \/ ExhaustBudget(w) \/ StartTurn(w) \/ RejectDecision(w) \/ AcceptDecision(w)
  PROVE  KernelInv'
<1>t. /\ ck[w] \in Checkpoint /\ WorkerInv(w)
      /\ pc[w] \notin Away /\ ck[w].version = Len(log) => PointInv(w)
      /\ pc[w] \in RunningPoints /\ ck[w].version = Len(log) => Unknown(log) = {}
  BY AtHead DEF KernelInv, Inv, TypeInv, RunningPoints, IntentPoints, Away
<1>1. ASSUME NEW kind \in QuietKind, kind = "TaskBlocked" \/ pc[w] \in RunningPoints \cup {"create"},
             NEW next, QuietMove(pc[w], next),
             NEW c \in Checkpoint, c = ck[w] \/ c = [ck[w] EXCEPT !.turn = @ + 1],
             Commit(w, Event(kind, ""), c), Goto(w, next), UNCHANGED <<orphans, work, pos>>
      PROVE  KernelInv'
  <2>1. Event(kind, "") \in LogEvent /\ Event(kind, "").kind = kind
    BY Events DEF QuietKind, Event
  <2>2. ck[w].version = Len(log)
    BY <1>1 DEF Commit
  <2>3. kind = "TaskBlocked" \/ Unknown(log) = {}
    <3>1. CASE pc[w] \in RunningPoints
      BY <1>t, <2>2, <3>1
    <3>2. CASE pc[w] = "create"
      <4>1. ck[w].state = "CREATED" /\ Folded(ck[w], log)
        BY <1>t, <2>2, <3>2, AtHead DEF PointInv, Away
      <4> QED BY <4>1 DEF KernelInv, LogInv, Folded
    <3> QED BY <1>1, <3>1, <3>2
  <2>4. c.state = ck[w].state /\ c.plan = ck[w].plan /\ c.baseline = ck[w].baseline
        /\ c.actions = ck[w].actions
    BY <1>1, <1>t DEF Checkpoint
  <2> QED BY <1>1, <2>1, <2>3, <2>4, QuietStep
<1>2. {"TaskBlocked", "TaskCreated", "ResponseProduced", "DelegationRejected",
       "ActionRequested", "GrantIssued", "CompletionCandidateProposed", "TurnStarted",
       "ModelDecisionRejected", "ModelDecisionAccepted"} \subseteq QuietKind
  BY DEF QuietKind, PlainKind, EventKind
<1>3. [ck[w] EXCEPT !.turn = @ + 1] \in Checkpoint
  BY <1>t DEF Checkpoint
<1>4. CASE BlockOrphans(w)
  BY <1>1, <1>2, <1>t, <1>4 DEF BlockOrphans, Step, QuietMove
<1>5. CASE Create(w)
  BY <1>1, <1>2, <1>t, <1>5 DEF Create, Step, QuietMove
<1>6. CASE Block(w)
  BY <1>1, <1>2, <1>t, <1>6 DEF Block, Step, QuietMove, RunningPoints, IntentPoints
<1>7. CASE Respond(w)
  BY <1>1, <1>2, <1>t, <1>7 DEF Respond, Step, QuietMove, RunningPoints, IntentPoints
<1>8. CASE Delegate(w)
  BY <1>1, <1>2, <1>t, <1>8 DEF Delegate, Step, QuietMove, RunningPoints, IntentPoints
<1>9. CASE Request(w)
  BY <1>1, <1>2, <1>t, <1>9 DEF Request, Step, QuietMove, RunningPoints, IntentPoints
<1>10. CASE RecordGrant(w)
  BY <1>1, <1>2, <1>t, <1>10 DEF RecordGrant, Step, QuietMove, RunningPoints, IntentPoints
<1>11. CASE Propose(w)
  BY <1>1, <1>2, <1>t, <1>11 DEF Propose, Step, QuietMove, RunningPoints, IntentPoints
<1>12. CASE ExhaustBudget(w)
  BY <1>1, <1>2, <1>t, <1>12 DEF ExhaustBudget, QuietMove, RunningPoints, IntentPoints
<1>13. CASE StartTurn(w)
  BY <1>1, <1>2, <1>3, <1>t, <1>13 DEF StartTurn, QuietMove, RunningPoints, IntentPoints
<1>14. CASE RejectDecision(w)
  BY <1>1, <1>2, <1>t, <1>14 DEF RejectDecision, QuietMove, RunningPoints, IntentPoints
<1>15. CASE AcceptDecision(w)
  <2>1. PICK next \in DecisionPoint : Goto(w, next)
    BY <1>15 DEF AcceptDecision
  <2>2. QuietMove(pc[w], next)
    BY <1>15, <2>1 DEF AcceptDecision, DecisionPoint, QuietMove, RunningPoints, IntentPoints
  <2> QED BY <1>1, <1>2, <1>t, <1>15, <2>1, <2>2
       DEF AcceptDecision, RunningPoints, IntentPoints
<1> QED
  BY <1>4, <1>5, <1>6, <1>7, <1>8, <1>9, <1>10, <1>11, <1>12, <1>13, <1>14, <1>15

\* The state changes: where run() makes one, and where it goes from there.
StateMove(from, to, next) ==
  \/ from = "toReconciling" /\ to = "RECONCILING" /\ next = "saveFinal"
  \/ from = "toPreflight" /\ to = "PREFLIGHT" /\ next = "baseline"
  \/ from = "toReady" /\ to = "READY" /\ next = "savePreflight"
  \/ from = "toRunning" /\ to = "RUNNING" /\ next = "turn"
  \/ from = "toBlocked" /\ to = "BLOCKED" /\ next \in {"saveTurn", "saveFinal"}
  \/ from = "toWaiting" /\ to = "WAITING_INPUT" /\ next = "saveTurn"
  \/ from = "toVerifying" /\ to = "VERIFYING" /\ next = "gate"
  \/ from = "passed" /\ to = "REVIEW_READY" /\ next \in {"saveTurn", "saveFinal"}
  \/ from = "failed" /\ to = "BLOCKED" /\ next \in {"saveTurn", "saveFinal"}

\* Each of them is one the log allows.
LEMMA ShiftAllowed ==
  ASSUME KernelInv, NEW w \in Worker, NEW to, NEW next,
         StateMove(pc[w], to, next), Shift(w, pc[w], to, next)
  PROVE  Allowed(Event("TaskStateChanged", to))
<1>1. pc[w] \notin Away /\ ck[w].version = Len(log)
  BY DEF StateMove, Away, Shift, Transition, Commit
<1>2. /\ Folded(ck[w], log)
      /\ Orphans(log) = IF pc[w] = "markOrphan" THEN orphans[w] ELSE Waiting(w)
      /\ PointInv(w)
      /\ pc[w] \in RunningPoints => StateOf(log) = "RUNNING" /\ Unknown(log) = {}
  BY <1>1, AtHead
<1>3. LegalTransition(StateOf(log), to)
  BY <1>2 DEF Shift, Transition, Folded
<1>4. Orphans(log) = {}
  BY <1>2 DEF StateMove, Waiting
<1>5. /\ pc[w] = "toReconciling" => StateOf(log) = "RUNNING" /\ Unknown(log) # {}
      /\ pc[w] = "toPreflight" => StateOf(log) = "CREATED"
      /\ pc[w] = "toReady" => StateOf(log) = "PREFLIGHT"
      /\ pc[w] = "toRunning" => StateOf(log) = "READY"
      /\ pc[w] \in {"toBlocked", "toWaiting", "toVerifying"} =>
           StateOf(log) = "RUNNING" /\ Unknown(log) = {}
      /\ pc[w] = "passed" => StateOf(log) = "VERIFYING" /\ Verdict(log) = "PASS"
      /\ pc[w] = "failed" => StateOf(log) = "VERIFYING" /\ Verdict(log) = "NOT_PASS"
  BY <1>2 DEF PointInv, Folded, RunningPoints
<1>6. StateOf(log) \in {"CREATED", "PREFLIGHT", "READY", "VERIFYING"} => Unknown(log) = {}
  BY DEF KernelInv, LogInv
<1>7. (Unknown(log) # {}) = (to = "RECONCILING")
  BY <1>5, <1>6 DEF StateMove
<1>8. /\ to = "REVIEW_READY" => Verdict(log) = "PASS"
      /\ StateOf(log) = "VERIFYING" =>
           Verdict(log) # "none" /\ to \in {"REVIEW_READY", "BLOCKED"}
      /\ StateOf(log) \notin QuiescentStates \cup {"RECONCILING"}
  BY <1>5 DEF StateMove, QuiescentStates, TerminalStates
<1> QED
  BY <1>3, <1>4, <1>7, <1>8 DEF Allowed, Event

\* A commit of a change of state keeps the invariant.
LEMMA StateStep ==
  ASSUME KernelInv, Inv', NEW w \in Worker, NEW to \in TaskState, NEW next,
         StateMove(pc[w], to, next), Shift(w, pc[w], to, next)
  PROVE  KernelInv'
<1> DEFINE e == Event("TaskStateChanged", to)
           c == [ck[w] EXCEPT !.state = to]
<1>t. TypeInv /\ ck[w] \in Checkpoint /\ pc[w] \notin Away
  BY DEF KernelInv, Inv, TypeInv, StateMove, Away
<1>1. /\ e \in LogEvent /\ e.kind = "TaskStateChanged" /\ e.arg = to /\ Allowed(e)
  BY Events, ShiftAllowed DEF Event
<1>2. /\ c \in Checkpoint /\ c.state = to /\ c.plan = ck[w].plan
      /\ c.baseline = ck[w].baseline /\ c.actions = ck[w].actions
  BY <1>t DEF Checkpoint
<1>3. Commit(w, e, c) /\ Goto(w, next) /\ UNCHANGED <<orphans, work, pos>>
  BY DEF Shift, Transition
<1> HIDE DEF e, c
<1>4. /\ ck[w].version = Len(log)
      /\ log' = Append(log, e) /\ checkpoint' = checkpoint
      /\ ck'[w].version = Len(log') /\ Len(log') \in Nat
      /\ Prefix(w)' = log'
      /\ ck'[w].state = to /\ ck'[w].plan = ck[w].plan
      /\ ck'[w].baseline = ck[w].baseline /\ ck'[w].actions = ck[w].actions
      /\ \A v \in Worker \ {w} : ck'[v] = ck[v]
  BY <1>1, <1>2, <1>3, AfterCommit
<1>5. /\ log \in Seq(LogEvent) /\ Folded(ck[w], log)
      /\ Orphans(log) = IF pc[w] = "markOrphan" THEN orphans[w] ELSE Waiting(w)
      /\ ck[w].actions + Uncounted(w) = Cardinality(Started)
      /\ PointInv(w)
  BY <1>t, <1>4, AtHead
<1>6. pc'[w] = next /\ \A v \in Worker \ {w} : pc'[v] = pc[v]
  BY <1>t, <1>3 DEF TypeInv, Goto
<1>7. \A v \in Worker \ {w} : Untouched(v)
  BY <1>3, <1>4, <1>6 DEF Untouched
<1>8. /\ \A kind : ArgsOf(log', kind) =
           ArgsOf(log, kind) \cup (IF e.kind = kind THEN {e.arg} ELSE {})
      /\ \A kind, d : LastArg(log', kind, d) =
           IF e.kind = kind THEN e.arg ELSE LastArg(log, kind, d)
  BY <1>1, <1>4, <1>5, LogReads
<1>9. /\ Started' = Started /\ Unknown(log') = Unknown(log) /\ Orphans(log') = Orphans(log)
      /\ StateOf(log') = to /\ Verdict(log') = Verdict(log)
      /\ LastArg(log', "PublicPlanRevised", 0) = LastArg(log, "PublicPlanRevised", 0)
      /\ ArgsOf(log', "PreflightCompleted") = ArgsOf(log, "PreflightCompleted")
  BY <1>1, <1>8 DEF Started, Unknown, Orphans, StateOf, Verdict
<1>10. Folded(ck[w], log)'
  BY <1>4, <1>5, <1>9 DEF Folded
<1>11. pc'[w] \notin IntentPoints \cup {"markOrphan"} /\ pc[w] \notin IntentPoints \cup {"markOrphan"}
  BY <1>6 DEF StateMove, IntentPoints
<1>12. Orphans(log') = Waiting(w)'
  BY <1>5, <1>9, <1>11 DEF Waiting, IntentPoints
<1>13. (ck[w].actions + Uncounted(w) = Cardinality(Started))'
  BY <1>4, <1>5, <1>9, <1>11 DEF Uncounted, IntentPoints
<1>14. PointInv(w)'
  <2>1. to = "RUNNING" => Unknown(log) = {}
    BY <1>1 DEF Allowed
  <2> QED BY <1>4, <1>6, <1>9, <2>1 DEF PointInv, StateMove, RunningPoints, IntentPoints
<1>15. IntentInv(w)'
  BY <1>11 DEF IntentInv, IntentPoints
<1>16. WorkerInv(w)'
  BY <1>4, <1>10, <1>11, <1>12, <1>13, <1>14, <1>15 DEF WorkerInv, Started
<1>17. Apart'
  BY <1>7, <1>11, ApartKept DEF KernelInv
<1> QED
  BY <1>1, <1>4, <1>7, <1>16, <1>17, CommitStep

\* The state changes of run() are those of StateMove.
LEMMA ShiftPoints ==
  ASSUME TypeInv, NEW w \in Worker,
         \/ ToReconciling(w) \/ ToPreflight(w) \/ ToReady(w) \/ ToRunning(w)
         \/ ToBlocked(w) \/ ToWaiting(w) \/ ToVerifying(w) \/ Passed(w) \/ Failed(w)
  PROVE  \E to \in TaskState, next \in Point :
           StateMove(pc[w], to, next) /\ Shift(w, pc[w], to, next)
<1>1. {"RECONCILING", "PREFLIGHT", "READY", "RUNNING", "BLOCKED", "WAITING_INPUT",
       "VERIFYING", "REVIEW_READY"} \subseteq TaskState
  BY DEF TaskState
<1>2. {"saveFinal", "baseline", "savePreflight", "turn", "saveTurn", "gate"}
         \subseteq Point
  BY DEF Point, AppendPoints
<1>3. exit[w] \in {"saveTurn", "saveFinal"}
  BY DEF TypeInv
<1>4. \A from, to, next : Shift(w, from, to, next) => pc[w] = from
  BY DEF Shift
<1> QED BY <1>1, <1>2, <1>3, <1>4
     DEF ToReconciling, ToPreflight, ToReady, ToRunning, ToBlocked, ToWaiting,
         ToVerifying, Passed, Failed, StateMove

\* Every action of run() that changes the state keeps the invariant.
LEMMA StateSteps ==
  ASSUME KernelInv, Inv', NEW w \in Worker,
         \/ ToReconciling(w) \/ ToPreflight(w) \/ ToReady(w) \/ ToRunning(w)
         \/ ToBlocked(w) \/ ToWaiting(w) \/ ToVerifying(w) \/ Passed(w) \/ Failed(w)
  PROVE  KernelInv'
<1>1. PICK to \in TaskState, next \in Point :
        StateMove(pc[w], to, next) /\ Shift(w, pc[w], to, next)
  BY ShiftPoints DEF KernelInv, Inv
<1> QED
  BY <1>1, StateStep

-----------------------------------------------------------------------------
(* Start of run(). *)

\* The invariant holds of a task that was not run yet.
LEMMA LedgerInit == Init => KernelInv
<1> SUFFICES ASSUME Init PROVE KernelInv
  OBVIOUS
<1>1. Inv
  BY InitInv
<1>2. log \in Seq(LogEvent) /\ Len(log) = 0
  BY DEF Init
<1>3. \A kind : ArgsOf(log, kind) = {}
  BY <1>2 DEF ArgsOf
<1>4. \A kind, d : LastArg(log, kind, d) = d
  BY <1>2 DEF LastArg
<1>5. LogInv
  <2>1. Cardinality(Started) <= MaxActions
    BY <1>3, FS_EmptySet, KernelAssumption DEF Started
  <2>2. Orderly(log) /\ NoDecisionAfterUnknown
    BY <1>2 DEF Orderly, NoDecisionAfterUnknown
  <2> QED BY <1>3, <1>4, <2>1, <2>2
       DEF LogInv, Observed, Unknown, Orphans, Verdict
<1>6. CheckpointInv
  BY DEF Init, CheckpointInv
<1>7. \A w \in Worker : pc[w] = "idle"
  BY DEF Init
<1> QED
  BY <1>1, <1>5, <1>6, <1>7 DEF KernelInv, WorkerInv, Apart, IntentPoints

\* The worker loads the log and is not yet at work.
LEMMA LoadEventsStep ==
  ASSUME KernelInv, Inv', NEW w \in Worker, LoadEvents(w)
  PROVE  KernelInv'
<1>1. /\ pc'[w] = "loadCheckpoint"
      /\ \A v \in Worker \ {w} : Untouched(v)
      /\ log' = log /\ checkpoint' = checkpoint
  BY DEF KernelInv, Inv, TypeInv, LoadEvents, Goto, Untouched
<1>2. CheckpointInv'
  BY <1>1 DEF KernelInv, CheckpointInv, Folded
<1>3. WorkerInv(w)'
  BY <1>1 DEF WorkerInv
<1> QED
  BY <1>1, <1>2, <1>3, LocalStep DEF IntentPoints

\* A worker that leaves run(), whatever it saved before.
LEMMA LeaveStep ==
  ASSUME KernelInv, Inv', NEW w \in Worker, Leave(w), log' = log, CheckpointInv'
  PROVE  KernelInv'
<1>1. pc'[w] = "idle" /\ \A v \in Worker \ {w} : Untouched(v)
  BY DEF KernelInv, Inv, TypeInv, Leave, Goto, Untouched
<1>2. WorkerInv(w)'
  BY <1>1 DEF WorkerInv
<1> QED
  BY <1>1, <1>2, LocalStep DEF IntentPoints

\* What a worker with no open action saves is the fold of a prefix, even when
\* the log has grown past it.
LEMMA SavedCheckpoint ==
  ASSUME KernelInv, NEW w \in Worker,
         pc[w] \in {"saveReplay", "savePreflight", "saveTurn", "saveFinal"},
         checkpoint' = ck[w], log' = log
  PROVE  CheckpointInv'
<1>1. /\ ck[w].version <= Len(log)
      /\ Folded(ck[w], Prefix(w))
      /\ Orphans(Prefix(w)) = Waiting(w)
      /\ ck[w].actions + Uncounted(w) = Cardinality(ArgsOf(Prefix(w), "ActionStarted"))
  BY DEF KernelInv, WorkerInv
<1>2. Waiting(w) = {} /\ Uncounted(w) = 0
  BY DEF Waiting, Uncounted
<1>3. ck[w].actions \in Nat
  BY DEF KernelInv, Inv, TypeInv, Checkpoint
<1> QED
  BY <1>1, <1>2, <1>3 DEF CheckpointInv, Prefix, Folded

\* A run that returns, throws a version conflict or dies keeps the invariant.
LEMMA LeavingSteps ==
  ASSUME KernelInv, Inv', NEW w \in Worker,
         ReturnAtOnce(w) \/ SaveFinal(w) \/ Conflict(w) \/ Crash(w)
  PROVE  KernelInv'
<1>1. CASE SaveFinal(w)
  <2>1. CheckpointInv' /\ Leave(w) /\ log' = log
    BY <1>1, SavedCheckpoint DEF SaveFinal, Save
  <2> QED BY <2>1, LeaveStep
<1>2. CASE ReturnAtOnce(w) \/ Conflict(w) \/ Crash(w)
  <2>1. Leave(w) /\ log' = log /\ checkpoint' = checkpoint
    BY <1>2 DEF ReturnAtOnce, Conflict, Crash
  <2>2. CheckpointInv'
    BY <2>1 DEF KernelInv, CheckpointInv, Folded
  <2> QED BY <2>1, <2>2, LeaveStep
<1> QED
  BY <1>1, <1>2

\* Control moves outside the intents; the worker's checkpoint stays.
LEMMA GotoStep ==
  ASSUME KernelInv, Inv', NEW w \in Worker, pc[w] \notin Away \cup IntentPoints \cup {"markOrphan"},
         NEW next, next \notin Away \cup IntentPoints \cup {"markOrphan"}, Goto(w, next),
         UNCHANGED <<log, ck, orphans, work, pos>>,
         CheckpointInv', PointInv(w)'
  PROVE  KernelInv'
<1>1. TypeInv /\ WorkerInv(w)
  BY DEF KernelInv, Inv
<1>2. pc'[w] = next /\ \A v \in Worker \ {w} : Untouched(v)
  BY <1>1 DEF TypeInv, Goto, Untouched
<1>3. Prefix(w)' = Prefix(w)
  BY DEF Prefix
<1>4. Waiting(w) = {} /\ Waiting(w)' = {} /\ Uncounted(w) = 0 /\ Uncounted(w)' = 0
  BY <1>2 DEF Waiting, Uncounted, IntentPoints
<1>5. IntentInv(w)'
  BY <1>2 DEF IntentInv, IntentPoints
<1>6. WorkerInv(w)'
  BY <1>1, <1>2, <1>3, <1>4, <1>5 DEF WorkerInv, Folded, Away
<1> QED
  BY <1>2, <1>6, LocalStep

\* A save of the checkpoint inside run() keeps the invariant.
LEMMA SavingSteps ==
  ASSUME KernelInv, Inv', NEW w \in Worker,
         SaveReplay(w) \/ SavePreflight(w) \/ SaveTurn(w)
  PROVE  KernelInv'
<1>t. TypeInv /\ PointInv(w)
  <2>1. pc[w] \notin Away
    BY DEF SaveReplay, SavePreflight, SaveTurn, Away
  <2> QED BY <2>1 DEF KernelInv, Inv, WorkerInv, Away
<1>1. CheckpointInv' /\ UNCHANGED <<log, ck, orphans, work, pos>>
  BY SavedCheckpoint DEF SaveReplay, SavePreflight, SaveTurn, Save
<1>2. PICK next : /\ Goto(w, next)
                  /\ \/ pc[w] = "saveReplay" /\ next = "resume"
                     \/ pc[w] = "savePreflight" /\ next = "toRunning"
                     \/ pc[w] = "saveTurn" /\ next = "turn" /\ ck[w].state = "RUNNING"
                     \/ pc[w] = "saveTurn" /\ next = "saveFinal"
  BY DEF SaveReplay, SavePreflight, SaveTurn
<1>3. pc'[w] = next
  BY <1>t, <1>2 DEF TypeInv, Goto
<1>4. PointInv(w)'
  BY <1>t, <1>1, <1>2, <1>3 DEF PointInv, Prefix, RunningPoints, IntentPoints
<1>5. {pc[w], next} \cap (Away \cup IntentPoints \cup {"markOrphan"}) = {}
  BY <1>2 DEF Away, IntentPoints
<1> QED
  BY <1>1, <1>2, <1>4, <1>5, GotoStep

\* A worker that runs knows the log up to its version, which the log has reached.
LEMMA KnowsPrefix ==
  ASSUME KernelInv, NEW w \in Worker, pc[w] \notin Away
  PROVE  ck[w].version \in 0..Len(log)
<1>1. ck[w] \in Checkpoint /\ Len(log) \in Nat /\ ck[w].version <= Len(log)
  BY DEF KernelInv, Inv, TypeInv, WorkerInv, Away
<1> QED
  BY <1>1 DEF Checkpoint

\* A RUNNING task goes on only when no action of it is marked UNKNOWN.
LEMMA ResumeStep ==
  ASSUME KernelInv, Inv', NEW w \in Worker, Resume(w)
  PROVE  KernelInv'
<1>t. TypeInv /\ ck[w].version \in 0..Len(log)
  BY KnowsPrefix DEF Resume, Away, KernelInv, Inv
<1>1. /\ pc[w] = "resume"
      /\ UNCHANGED <<log, checkpoint, ck, orphans, work, pos>>
  BY DEF Resume
<1>2. PICK next : /\ Goto(w, next)
                  /\ \/ ck[w].state = "RUNNING" /\ Unknown(log) # {} /\ next = "blockOrphans"
                     \/ ck[w].state = "RUNNING" /\ Unknown(log) = {} /\ next = "turn"
                     \/ ck[w].state = "CREATED" /\ next \in {"create", "toPreflight"}
                     \/ ck[w].state = "PREFLIGHT" /\ next \in {"baseline", "toReady"}
                     \/ ck[w].state = "READY" /\ next = "toRunning"
                     \/ ck[w].state = "VERIFYING" /\ next = "gate"
  BY DEF Resume, Unknown
<1>3. pc'[w] = next
  BY <1>t, <1>2 DEF TypeInv, Goto
<1>4. Unknown(Prefix(w)) \subseteq Unknown(log)
  BY <1>t, ArgsOfPrefix DEF TypeInv, Prefix, Unknown
<1>5. PointInv(w)'
  BY <1>1, <1>2, <1>3, <1>4 DEF PointInv, Prefix, RunningPoints, IntentPoints
<1>6. {pc[w], next} \cap (Away \cup IntentPoints \cup {"markOrphan"}) = {}
  BY <1>1, <1>2 DEF Away, IntentPoints
<1>7. CheckpointInv'
  BY <1>1 DEF KernelInv, CheckpointInv, Folded
<1> QED
  BY <1>1, <1>2, <1>5, <1>6, <1>7, GotoStep

\* A recorded verdict is used again: the gate verifies only when there is none.
LEMMA ReadGateStep ==
  ASSUME KernelInv, Inv', NEW w \in Worker, ReadGate(w)
  PROVE  KernelInv'
<1>t. TypeInv /\ ck[w].version \in 0..Len(log) /\ ck[w].state = "VERIFYING"
  <2>1. pc[w] = "gate" /\ pc[w] \notin Away
    BY DEF ReadGate, Away
  <2> QED BY <2>1, KnowsPrefix DEF KernelInv, Inv, WorkerInv, PointInv, Away
<1>1. /\ pc[w] = "gate"
      /\ UNCHANGED <<log, checkpoint, ck, orphans, work, pos>>
      /\ Goto(w, IF Verdict(log) = "none" THEN "verify" ELSE VerdictPoint(Verdict(log)))
  BY DEF ReadGate, Verdict
<1>2. Verdict(log) \in {"none", "PASS", "NOT_PASS"}
  BY <1>t, ReadTypes DEF TypeInv
<1>3. PICK next : /\ Goto(w, next)
                  /\ \/ Verdict(log) = "none" /\ next = "verify"
                     \/ Verdict(log) = "PASS" /\ next = "passed"
                     \/ Verdict(log) = "NOT_PASS" /\ next = "failed"
  BY <1>1, <1>2 DEF VerdictPoint
<1>4. pc'[w] = next
  BY <1>t, <1>3 DEF TypeInv, Goto
<1>5. Verdict(log) = "none" => Verdict(Prefix(w)) = "none"
  <2> SUFFICES ASSUME Verdict(log) = "none" PROVE Verdict(Prefix(w)) = "none"
    OBVIOUS
  <2> DEFINE post == SubSeq(log, ck[w].version + 1, Len(log))
  <2>1. LastArg(log, "VerificationCompleted", "none") =
          LastArg(post, "VerificationCompleted", Verdict(Prefix(w)))
    BY <1>t, LastArgCut DEF TypeInv, Verdict, Prefix
  <2>2. Prefix(w) \in Seq(LogEvent)
    BY <1>t, Cut DEF TypeInv, Prefix
  <2>3. post \in Seq(LogEvent)
    BY <1>t, Cut DEF TypeInv
  <2>4. \A i \in 1..Len(post) : post[i].kind = "VerificationCompleted" =>
           post[i].arg \in {"PASS", "NOT_PASS"}
    <3> HIDE DEF post
    <3> TAKE i \in 1..Len(post)
    <3>1. post[i] \in LogEvent
      BY <2>3
    <3> QED BY <3>1 DEF LogEvent, PlainKind
  <2> HIDE DEF post
  <2>5. \/ LastArg(post, "VerificationCompleted", Verdict(Prefix(w))) = Verdict(Prefix(w))
        \/ LastArg(post, "VerificationCompleted", Verdict(Prefix(w))) \in {"PASS", "NOT_PASS"}
    BY <2>4 DEF LastArg
  <2> QED BY <2>1, <2>5 DEF Verdict
<1>6. PointInv(w)'
  BY <1>t, <1>1, <1>3, <1>4, <1>5 DEF PointInv, Prefix, RunningPoints, IntentPoints
<1>7. {pc[w], next} \cap (Away \cup IntentPoints \cup {"markOrphan"}) = {}
  BY <1>1, <1>3 DEF Away, IntentPoints
<1>8. CheckpointInv'
  BY <1>1 DEF KernelInv, CheckpointInv, Folded
<1> QED
  BY <1>1, <1>3, <1>6, <1>7, <1>8, GotoStep

\* Whatever checkpoint is found, replaying the events loaded before it gives
\* the fold of those events; one newer than the events is not used.
LEMMA LoadCheckpointStep ==
  ASSUME KernelInv, Inv', NEW w \in Worker, LoadCheckpoint(w)
  PROVE  KernelInv'
<1> DEFINE n == seen[w]
           events == SubSeq(log, 1, n)
           base == IF checkpoint = NoCheckpoint THEN NewCheckpoint
                   ELSE IF checkpoint.version > n THEN NewCheckpoint
                   ELSE checkpoint
           b == base.version
<1>t. TypeInv /\ log \in Seq(LogEvent) /\ n \in 0..Len(log)
  BY DEF KernelInv, Inv, TypeInv
<1>1. /\ ck' = [ck EXCEPT ![w] = Replay(base, events)]
      /\ orphans' = [orphans EXCEPT ![w] = Orphans(events)]
      /\ UNCHANGED <<log, checkpoint, ran, runs, seen, work, pos, exit>>
  BY DEF LoadCheckpoint
<1>2. PICK next : /\ Goto(w, next)
                  /\ \/ next = "markOrphan"
                     \/ next \in {"saveReplay", "resume"} /\ Orphans(events) = {}
  BY DEF LoadCheckpoint
<1>3. /\ base \in Checkpoint /\ b \in 0..n
      /\ Folded(base, SubSeq(log, 1, b))
      /\ base.actions = Cardinality(ArgsOf(SubSeq(log, 1, b), "ActionStarted"))
      /\ Orphans(SubSeq(log, 1, b)) = {}
  <2>1. CASE base = NewCheckpoint
    <3>0. /\ NewCheckpoint.version = 0 /\ NewCheckpoint.actions = 0
          /\ NewCheckpoint \in Checkpoint
      BY DEF NewCheckpoint, Checkpoint, TaskState
    <3>1. b = 0 /\ base.actions = 0 /\ base \in Checkpoint
      BY <2>1, <3>0, Zenon
    <3>2. /\ Folded(NewCheckpoint, SubSeq(log, 1, 0))
          /\ Cardinality(ArgsOf(SubSeq(log, 1, 0), "ActionStarted")) = 0
          /\ Orphans(SubSeq(log, 1, 0)) = {}
      BY <1>t, FoldOfNothing
    <3> HIDE DEF base
    <3> QED BY <1>t, <2>1, <3>1, <3>2
  <2>2. CASE base # NewCheckpoint
    <3>1. base = checkpoint /\ checkpoint # NoCheckpoint /\ ~ (checkpoint.version > n)
      BY <2>2
    <3>2. checkpoint \in Checkpoint /\ checkpoint.version \in Nat
      BY <1>t, <3>1 DEF TypeInv, Checkpoint
    <3>3. checkpoint.version \in 0..n
      BY <1>t, <3>1, <3>2
    <3> HIDE DEF base
    <3> QED BY <3>1, <3>2, <3>3 DEF KernelInv, CheckpointInv
  <2> QED BY <2>1, <2>2
<1> HIDE DEF base, b
<1>4. /\ events \in Seq(LogEvent) /\ Len(events) = n /\ Orderly(events)
      /\ Observed(events) \cap Unknown(events) = {}
  <2>1. events \in Seq(LogEvent) /\ Len(events) = n
    BY <1>t, Cut
  <2>2. Orderly(events)
    BY <1>t, OrderlyPrefix DEF KernelInv, LogInv
  <2>3. Observed(events) \subseteq Observed(log) /\ Unknown(events) \subseteq Unknown(log)
    BY <1>t, ArgsOfPrefix DEF Observed, Unknown
  <2>4. Observed(log) \cap Unknown(log) = {}
    BY DEF KernelInv, LogInv
  <2> QED BY <2>1, <2>2, <2>3, <2>4
<1>5. SubSeq(events, 1, b) = SubSeq(log, 1, b)
  BY <1>t, <1>3, PrefixOfPrefix
<1> HIDE DEF events, n
<1>6. /\ Folded(Replay(base, events), events)
      /\ Replay(base, events).actions = Cardinality(ArgsOf(events, "ActionStarted"))
      /\ Replay(base, events).version = n
  <2>1. b <= Len(events)
    BY <1>t, <1>3, <1>4
  <2> QED BY <1>3, <1>4, <1>5, <2>1, ReplayFolds DEF b
<1>7. /\ pc'[w] = next /\ ck'[w] = Replay(base, events) /\ orphans'[w] = Orphans(events)
      /\ \A v \in Worker \ {w} : Untouched(v)
  BY <1>t, <1>1, <1>2 DEF TypeInv, Goto, Untouched
<1>8. Prefix(w)' = events
  BY <1>1, <1>6, <1>7 DEF Prefix, events
<1>9. WorkerInv(w)'
  <2>1. next \in {"markOrphan", "saveReplay", "resume"}
    BY <1>2
  <2>2. ck'[w].version <= Len(log')
    BY <1>t, <1>1, <1>6, <1>7
  <2>3. Folded(ck[w], Prefix(w))'
    BY <1>6, <1>7, <1>8 DEF Folded
  <2>4. Waiting(w)' = {} /\ Uncounted(w)' = 0
    BY <1>7, <2>1 DEF Waiting, Uncounted
  <2>5. (Orphans(Prefix(w)) = IF pc[w] = "markOrphan" THEN orphans[w] ELSE Waiting(w))'
    BY <1>2, <1>7, <1>8, <2>4
  <2>6. IsFiniteSet(ArgsOf(events, "ActionStarted"))
    BY <1>4, ArgsOfFinite
  <2>7. Cardinality(ArgsOf(events, "ActionStarted")) \in Nat
    BY <2>6, FS_CardinalityType
  <2>8. (ck[w].actions + Uncounted(w) = Cardinality(ArgsOf(Prefix(w), "ActionStarted")))'
    BY <1>6, <1>7, <1>8, <2>4, <2>7
  <2>9. PointInv(w)' /\ IntentInv(w)'
    BY <1>7, <2>1 DEF PointInv, IntentInv, RunningPoints, IntentPoints
  <2> QED BY <2>2, <2>3, <2>5, <2>8, <2>9 DEF WorkerInv
<1>10. CheckpointInv'
  BY <1>1 DEF KernelInv, CheckpointInv, Folded
<1> QED
  BY <1>1, <1>2, <1>7, <1>9, <1>10, LocalStep DEF IntentPoints

-----------------------------------------------------------------------------
(* The appends that replay reads. *)

\* What an append of a worker outside its intents has to establish.
LEMMA FoldStep ==
  ASSUME KernelInv, Inv', NEW w \in Worker, NEW e \in LogEvent, NEW c \in Checkpoint,
         Commit(w, e, c), Allowed(e),
         e.kind \notin {"ActionStarted", "EffectObserved"},
         pc[w] \notin Away, pc[w] \notin IntentPoints,
         NEW next, Goto(w, next), next \notin IntentPoints,
         UNCHANGED <<work, pos>>, \A v \in Worker \ {w} : orphans'[v] = orphans[v],
         c.actions = ck[w].actions, Folded(c, log'),
         Orphans(log') = IF next = "markOrphan" THEN orphans'[w] ELSE {},
         PointInv(w)'
  PROVE  KernelInv'
<1>t. TypeInv
  BY DEF KernelInv, Inv
<1>1. /\ ck[w].version = Len(log)
      /\ log' = Append(log, e) /\ checkpoint' = checkpoint
      /\ ck'[w].version = Len(log') /\ Len(log') \in Nat
      /\ Prefix(w)' = log'
      /\ ck'[w].state = c.state /\ ck'[w].plan = c.plan
      /\ ck'[w].baseline = c.baseline /\ ck'[w].actions = c.actions
      /\ \A v \in Worker \ {w} : ck'[v] = ck[v]
  BY AfterCommit
<1>2. log \in Seq(LogEvent) /\ ck[w].actions + Uncounted(w) = Cardinality(Started)
  BY <1>1, AtHead
<1>3. pc'[w] = next /\ \A v \in Worker \ {w} : Untouched(v)
  BY <1>t, <1>1 DEF TypeInv, Goto, Untouched
<1>4. Uncounted(w) = 0 /\ Uncounted(w)' = 0 /\ Waiting(w)' = {}
  BY <1>3 DEF Uncounted, Waiting, IntentPoints
<1>5. Started' = Started
  <2>1. ArgsOf(log', "ActionStarted") = ArgsOf(log, "ActionStarted") \cup
          (IF e.kind = "ActionStarted" THEN {e.arg} ELSE {})
    BY <1>1, <1>2, LogReads
  <2> QED BY <2>1 DEF Started
<1>6. IntentInv(w)'
  BY <1>3 DEF IntentInv, IntentPoints
<1>7. Folded(ck[w], log)'
  BY <1>1 DEF Folded
<1>8. (ck[w].actions + Uncounted(w) = Cardinality(Started))'
  BY <1>1, <1>2, <1>4, <1>5
<1>9. WorkerInv(w)'
  BY <1>1, <1>3, <1>4, <1>6, <1>7, <1>8 DEF WorkerInv, Started
<1>10. Apart'
  BY <1>3, ApartKept DEF KernelInv
<1> QED
  BY <1>1, <1>3, <1>9, <1>10, CommitStep

\* An orphan is marked while the task is RUNNING: it is open in the whole log.
LEMMA MarkOrphanStep ==
  ASSUME KernelInv, Inv', NEW w \in Worker, MarkOrphan(w)
  PROVE  KernelInv'
<1>t. TypeInv /\ ck[w] \in Checkpoint
  BY DEF KernelInv, Inv, TypeInv
<1>1. pc[w] = "markOrphan" /\ UNCHANGED <<work, pos, exit>>
  BY DEF MarkOrphan
<1>2. PICK a \in orphans[w] :
        /\ Commit(w, Event("EffectUnknown", a), ck[w])
        /\ orphans' = [orphans EXCEPT ![w] = @ \ {a}]
        /\ Goto(w, IF orphans[w] = {a} THEN "saveReplay" ELSE "markOrphan")
  BY DEF MarkOrphan
<1> DEFINE e == Event("EffectUnknown", a)
           next == IF orphans[w] = {a} THEN "saveReplay" ELSE "markOrphan"
<1>3. a \in Action /\ e \in LogEvent /\ e.kind = "EffectUnknown" /\ e.arg = a
  BY <1>t, Events DEF TypeInv, Event
<1> HIDE DEF e, next
<1>4. pc[w] \notin Away /\ pc[w] \notin IntentPoints /\ ck[w].version = Len(log)
  BY <1>1, <1>2 DEF Away, IntentPoints, Commit
<1>5. /\ log \in Seq(LogEvent) /\ Folded(ck[w], log) /\ Orphans(log) = orphans[w]
  BY <1>1, <1>4, AtHead
<1>6. Allowed(e)
  BY <1>3, <1>5 DEF Allowed
<1>7. log' = Append(log, e)
  BY <1>2 DEF Commit, e
<1>8. /\ \A kind : ArgsOf(log', kind) =
           ArgsOf(log, kind) \cup (IF e.kind = kind THEN {e.arg} ELSE {})
      /\ \A kind, d : LastArg(log', kind, d) =
           IF e.kind = kind THEN e.arg ELSE LastArg(log, kind, d)
  BY <1>3, <1>5, <1>7, LogReads
<1>9. Folded(ck[w], log')
  BY <1>3, <1>5, <1>8 DEF Folded, StateOf
<1>10. Orphans(log') = orphans[w] \ {a} /\ orphans'[w] = orphans[w] \ {a}
  <2>1. Orphans(log') = Orphans(log) \ {a}
    BY <1>3, <1>8 DEF Orphans
  <2> QED BY <1>t, <1>2, <1>5, <2>1 DEF TypeInv
<1>11. next \in {"saveReplay", "markOrphan"}
       /\ (next = "saveReplay" => orphans[w] = {a})
  BY DEF next
<1>12. PointInv(w)'
  <2>1. pc'[w] = next
    BY <1>t, <1>2 DEF TypeInv, Goto, next
  <2> QED BY <1>11, <2>1 DEF PointInv, RunningPoints, IntentPoints
<1>13. Orphans(log') = IF next = "markOrphan" THEN orphans'[w] ELSE {}
  BY <1>10, <1>11
<1>14. \A v \in Worker \ {w} : orphans'[v] = orphans[v]
  BY <1>t, <1>2 DEF TypeInv
<1>15. Commit(w, e, ck[w]) /\ Goto(w, next) /\ next \notin IntentPoints
  BY <1>2, <1>11 DEF e, next, IntentPoints
<1> QED
  BY <1>t, <1>1, <1>3, <1>4, <1>6, <1>9, <1>12, <1>13, <1>14, <1>15, FoldStep

\* The baseline, the plan and the verdict.
LEMMA RecordingSteps ==
  ASSUME KernelInv, Inv', NEW w \in Worker, Baseline(w) \/ RevisePlan(w) \/ Verify(w)
  PROVE  KernelInv'
<1>t. TypeInv /\ ck[w] \in Checkpoint /\ log \in Seq(LogEvent) /\ ck[w].turn \in Nat
  BY DEF KernelInv, Inv, TypeInv, Checkpoint
<1>1. PICK e \in LogEvent, c \in Checkpoint, next \in {"toReady", "saveTurn", "passed", "failed"} :
        /\ Commit(w, e, c) /\ Goto(w, next) /\ UNCHANGED <<orphans, work, pos>>
        /\ c.actions = ck[w].actions /\ c.state = ck[w].state
        /\ \/ /\ pc[w] = "baseline" /\ next = "toReady"
              /\ e.kind = "PreflightCompleted"
              /\ c.baseline = TRUE /\ c.plan = ck[w].plan
           \/ /\ pc[w] = "revisePlan" /\ next = "saveTurn"
              /\ e.kind = "PublicPlanRevised" /\ e.arg = c.plan
              /\ c.baseline = ck[w].baseline
           \/ /\ pc[w] = "verify" /\ e.kind = "VerificationCompleted"
              /\ \/ e.arg = "PASS" /\ next = "passed"
                 \/ e.arg = "NOT_PASS" /\ next = "failed"
              /\ c.baseline = ck[w].baseline /\ c.plan = ck[w].plan
  <2>1. CASE Baseline(w)
    <3>1. /\ [ck[w] EXCEPT !.baseline = TRUE] \in Checkpoint
          /\ [ck[w] EXCEPT !.baseline = TRUE].actions = ck[w].actions
          /\ [ck[w] EXCEPT !.baseline = TRUE].state = ck[w].state
          /\ [ck[w] EXCEPT !.baseline = TRUE].plan = ck[w].plan
          /\ [ck[w] EXCEPT !.baseline = TRUE].baseline = TRUE
      BY <1>t DEF Checkpoint
    <3>2. /\ Event("PreflightCompleted", "") \in LogEvent
          /\ Event("PreflightCompleted", "").kind = "PreflightCompleted"
      BY Events DEF PlainKind, EventKind, Event
    <3> QED BY <2>1, <3>1, <3>2 DEF Baseline
  <2>2. CASE RevisePlan(w)
    <3> DEFINE c == [ck[w] EXCEPT !.plan = ck[w].turn]
    <3>1. /\ c \in Checkpoint /\ c.actions = ck[w].actions /\ c.state = ck[w].state
          /\ c.baseline = ck[w].baseline /\ c.plan = ck[w].turn
      BY <1>t DEF Checkpoint
    <3>2. /\ Event("PublicPlanRevised", ck[w].turn) \in LogEvent
          /\ Event("PublicPlanRevised", ck[w].turn).kind = "PublicPlanRevised"
          /\ Event("PublicPlanRevised", ck[w].turn).arg = ck[w].turn
      BY <1>t, Events DEF Event
    <3> QED BY <2>2, <3>1, <3>2 DEF RevisePlan
  <2>3. CASE Verify(w)
    <3>1. PICK v \in {"PASS", "NOT_PASS"} :
            Commit(w, Event("VerificationCompleted", v), ck[w]) /\ Goto(w, VerdictPoint(v))
      BY <2>3 DEF Verify
    <3>2. /\ Event("VerificationCompleted", v) \in LogEvent
          /\ Event("VerificationCompleted", v).kind = "VerificationCompleted"
          /\ Event("VerificationCompleted", v).arg = v
      BY Events DEF Event
    <3> QED BY <1>t, <2>3, <3>1, <3>2 DEF Verify, VerdictPoint
  <2> QED BY <2>1, <2>2, <2>3
<1>2. /\ ck[w].version = Len(log) /\ log' = Append(log, e)
      /\ ck'[w].state = c.state /\ Prefix(w)' = log'
  BY <1>1, AfterCommit
<1>3. pc[w] \notin Away /\ pc[w] \notin IntentPoints
  BY <1>1 DEF Away, IntentPoints
<1>4. /\ Folded(ck[w], log) /\ PointInv(w)
      /\ Orphans(log) = IF pc[w] = "markOrphan" THEN orphans[w] ELSE Waiting(w)
      /\ Prefix(w) = log
      /\ pc[w] \in RunningPoints => StateOf(log) = "RUNNING" /\ Unknown(log) = {}
  BY <1>2, <1>3, AtHead
<1>5. /\ \A kind : ArgsOf(log', kind) =
           ArgsOf(log, kind) \cup (IF e.kind = kind THEN {e.arg} ELSE {})
      /\ \A kind, d : LastArg(log', kind, d) =
           IF e.kind = kind THEN e.arg ELSE LastArg(log, kind, d)
  BY <1>t, <1>2, LogReads
<1>6. Allowed(e)
  <2>1. /\ pc[w] = "baseline" => StateOf(log) = "PREFLIGHT"
        /\ pc[w] = "verify" => StateOf(log) = "VERIFYING" /\ Verdict(log) = "none"
        /\ pc[w] = "revisePlan" => Unknown(log) = {}
    BY <1>4 DEF PointInv, Folded, RunningPoints
  <2>2. StateOf(log) \in {"PREFLIGHT", "VERIFYING"} => Unknown(log) = {}
    BY DEF KernelInv, LogInv
  <2> QED BY <1>1, <2>1, <2>2 DEF Allowed
<1>7. Folded(c, log')
  <2>1. StateOf(log') = StateOf(log)
    BY <1>1, <1>5 DEF StateOf
  <2>2. LastArg(log', "PublicPlanRevised", 0) =
          IF e.kind = "PublicPlanRevised" THEN e.arg
          ELSE LastArg(log, "PublicPlanRevised", 0)
    BY <1>5
  <2>3. ArgsOf(log', "PreflightCompleted") = ArgsOf(log, "PreflightCompleted") \cup
          (IF e.kind = "PreflightCompleted" THEN {e.arg} ELSE {})
    BY <1>5
  <2>4. c.state = StateOf(log')
    BY <1>1, <1>4, <2>1 DEF Folded
  <2>5. c.plan = LastArg(log', "PublicPlanRevised", 0)
    BY <1>1, <1>4, <2>2 DEF Folded
  <2>6. c.baseline = (ArgsOf(log', "PreflightCompleted") # {})
    <3>1. CASE e.kind = "PreflightCompleted"
      <4>1. c.baseline = TRUE /\ ArgsOf(log', "PreflightCompleted") # {}
        BY <1>1, <2>3, <3>1
      <4> QED BY <4>1
    <3>2. CASE e.kind # "PreflightCompleted"
      <4>1. c.baseline = ck[w].baseline
        BY <1>1, <3>2
      <4>2. ArgsOf(log', "PreflightCompleted") = ArgsOf(log, "PreflightCompleted")
        BY <2>3, <3>2
      <4>3. ck[w].baseline = (ArgsOf(log, "PreflightCompleted") # {})
        BY <1>4 DEF Folded
      <4> QED BY <4>1, <4>2, <4>3
    <3> QED BY <3>1, <3>2
  <2> QED BY <2>4, <2>5, <2>6 DEF Folded
<1>8. Orphans(log') = {}
  <2>1. Orphans(log) = {}
    BY <1>1, <1>4 DEF Waiting
  <2> QED BY <1>1, <1>5, <2>1 DEF Orphans
<1>9. pc'[w] = next
  BY <1>t, <1>1 DEF TypeInv, Goto
<1>10. PointInv(w)'
  <2>1. /\ pc[w] = "baseline" => ck[w].state = "PREFLIGHT"
        /\ pc[w] = "verify" => ck[w].state = "VERIFYING"
        /\ pc[w] = "revisePlan" => Unknown(log') = {}
    BY <1>1, <1>4, <1>5 DEF PointInv, RunningPoints, Unknown
  <2>2. pc[w] = "verify" => Verdict(log') = e.arg
    BY <1>1, <1>5 DEF Verdict
  <2> QED BY <1>1, <1>2, <1>9, <2>1, <2>2 DEF PointInv, RunningPoints, IntentPoints
<1>11. next \notin IntentPoints /\ next # "markOrphan"
       /\ e.kind \notin {"ActionStarted", "EffectObserved"}
  BY <1>1 DEF IntentPoints
<1> QED
  BY <1>1, <1>3, <1>6, <1>7, <1>8, <1>10, <1>11, FoldStep

-----------------------------------------------------------------------------
(* The intents, when the model does not repeat an identity. *)

\* The intents a decision may carry are new to the log and to every worker.
LEMMA FreshIntents ==
  ASSUME KernelInv, ReuseIds = FALSE, NEW l \in IntentLists
  PROVE  /\ \A i, j \in 1..Len(l) : l[i] = l[j] => i = j
         /\ \A i \in 1..Len(l) : l[i] \notin Started
         /\ \A v \in Worker : pc[v] \in IntentPoints =>
              \A i \in 1..Len(l), j \in 1..Len(work[v]) : work[v][j].action # l[i]
<1>1. DOMAIN l = 1..Len(l)
  BY IntentListType
<1>2. /\ \A i \in DOMAIN l : l[i] \notin UsedActions
      /\ \A i, j \in DOMAIN l : l[i] = l[j] => i = j
  BY DEF IntentLists
<1>3. Started \subseteq UsedActions
  BY DEF UsedActions, Started
<1>4. ASSUME NEW v \in Worker, pc[v] \in IntentPoints, NEW j \in 1..Len(work[v])
      PROVE  work[v][j].action \in UsedActions
  <2>1. CASE pc[v] \in {"request", "start"}
    BY <1>4, <2>1 DEF UsedActions
  <2>2. CASE pc[v] \in {"submit", "grant", "observe"}
    <3>1. IntentInv(v)
      BY <2>2 DEF KernelInv, WorkerInv
    <3> QED BY <1>3, <1>4, <2>2, <3>1 DEF IntentInv
  <2> QED BY <1>4, <2>1, <2>2 DEF IntentPoints
<1> QED
  BY <1>1, <1>2, <1>3, <1>4

\* The intents a decision brings are of actions that were not started.
LEMMA AcceptIntentsStep ==
  ASSUME KernelInv, Inv', ReuseIds = FALSE, NEW w \in Worker, AcceptIntents(w)
  PROVE  KernelInv'
<1> DEFINE e == Event("ModelDecisionAccepted", "")
<1>t. TypeInv /\ ck[w] \in Checkpoint /\ log \in Seq(LogEvent) /\ WorkInv(w)
  BY DEF KernelInv, Inv, TypeInv
<1>1. /\ pc[w] = "decide" /\ Commit(w, e, ck[w]) /\ UNCHANGED <<orphans, pos, exit>>
  BY DEF AcceptIntents
<1>2. PICK l \in IntentLists :
        IF ck[w].actions + Len(l) > MaxActions
        THEN Goto(w, "block") /\ UNCHANGED work
        ELSE /\ Goto(w, "request")
             /\ work' = [work EXCEPT ![w] =
                  [i \in DOMAIN l |-> [action |-> l[i], granted |-> FALSE]]]
  BY DEF AcceptIntents
<1>3. e \in LogEvent /\ e.kind \in QuietKind /\ e.kind = "ModelDecisionAccepted"
  BY Events DEF Event, QuietKind, PlainKind, EventKind
<1> HIDE DEF e
<1>4. /\ ck[w].version = Len(log) /\ log' = Append(log, e) /\ checkpoint' = checkpoint
      /\ ck'[w].version = Len(log') /\ Len(log') \in Nat
      /\ Prefix(w)' = log'
      /\ ck'[w].state = ck[w].state /\ ck'[w].plan = ck[w].plan
      /\ ck'[w].baseline = ck[w].baseline /\ ck'[w].actions = ck[w].actions
      /\ \A v \in Worker \ {w} : ck'[v] = ck[v]
  BY <1>t, <1>1, <1>3, AfterCommit
<1>5. /\ Prefix(w) = log /\ Folded(ck[w], log)
      /\ Orphans(log) = IF pc[w] = "markOrphan" THEN orphans[w] ELSE Waiting(w)
      /\ ck[w].actions + Uncounted(w) = Cardinality(Started)
      /\ PointInv(w) /\ Unknown(log) = {}
  BY <1>1, <1>4, AtHead DEF RunningPoints, Away
<1>6. CASE Goto(w, "block") /\ UNCHANGED work
  <2>1. QuietMove(pc[w], "block")
    BY <1>1 DEF QuietMove, RunningPoints, IntentPoints
  <2> QED BY <1>t, <1>1, <1>3, <1>5, <1>6, <2>1, QuietStep
<1>7. CASE ~ (ck[w].actions + Len(l) > MaxActions)
  <2> DEFINE W == [i \in DOMAIN l |-> [action |-> l[i], granted |-> FALSE]]
  <2>1. /\ Len(l) \in Nat \ {0} /\ DOMAIN l = 1..Len(l) /\ W \in Seq(Intent)
    BY IntentListType
  <2>2. Len(W) = Len(l) /\ \A i \in 1..Len(l) : W[i].action = l[i]
    BY <2>1
  <2>3. Goto(w, "request") /\ work' = [work EXCEPT ![w] = W]
    BY <1>2, <1>7
  <2> HIDE DEF W
  <2>4. /\ \A i, j \in 1..Len(W) : W[i].action = W[j].action => i = j
        /\ \A i \in 1..Len(W) : W[i].action \notin Started
        /\ \A v \in Worker : pc[v] \in IntentPoints =>
             \A i \in 1..Len(W), j \in 1..Len(work[v]) : work[v][j].action # W[i].action
    <3>1. \A i \in 1..Len(W) : i \in 1..Len(l) /\ W[i].action = l[i]
      BY <2>2
    <3>2. /\ \A i, j \in 1..Len(l) : l[i] = l[j] => i = j
          /\ \A i \in 1..Len(l) : l[i] \notin Started
          /\ \A v \in Worker : pc[v] \in IntentPoints =>
               \A i \in 1..Len(l), j \in 1..Len(work[v]) : work[v][j].action # l[i]
      BY FreshIntents
    <3> QED BY <3>1, <3>2
  <2>5. /\ Started' = Started /\ Unknown(log') = Unknown(log)
        /\ Orphans(log') = Orphans(log)
        /\ \A c : Folded(c, log') = Folded(c, log)
    BY <1>t, <1>3, <1>4, QuietReads
  <2>6. /\ pc'[w] = "request" /\ work'[w] = W /\ pos'[w] = 1
        /\ \A v \in Worker \ {w} : Untouched(v)
    BY <1>t, <1>1, <1>4, <2>3 DEF TypeInv, Goto, Untouched, WorkInv, IntentPoints
  <2>7. Allowed(e)
    BY <1>3, <1>5 DEF Allowed
  <2>8. ck[w].actions + Len(W) <= MaxActions
    <3>1. ck[w].actions \in Nat /\ MaxActions \in Nat
      BY <1>t, KernelAssumption DEF Checkpoint
    <3> QED BY <1>7, <2>1, <2>2, <3>1
  <2>9. WorkerInv(w)'
    <3>1. Folded(ck[w], log)'
      BY <1>4, <1>5, <2>5 DEF Folded
    <3>2. Waiting(w)' = {} /\ Waiting(w) = {} /\ Uncounted(w)' = 0 /\ Uncounted(w) = 0
      BY <1>1, <2>6 DEF Waiting, Uncounted
    <3>3. Orphans(log') = {}
      BY <1>1, <1>5, <2>5, <3>2
    <3>4. (ck[w].actions + Uncounted(w) = Cardinality(Started))'
      BY <1>4, <1>5, <2>5, <3>2
    <3>5. PointInv(w)'
      BY <1>1, <1>4, <1>5, <2>5, <2>6 DEF PointInv, RunningPoints, IntentPoints
    <3>6. IntentInv(w)'
      BY <1>4, <2>4, <2>5, <2>6, <2>8 DEF IntentInv
    <3> QED BY <1>4, <2>6, <3>1, <3>2, <3>3, <3>4, <3>5, <3>6 DEF WorkerInv, Started
  <2>10. Apart'
    <3> SUFFICES ASSUME NEW u \in Worker, NEW v \in Worker, u # v,
                        pc'[u] \in IntentPoints, pc'[v] \in IntentPoints,
                        NEW i \in 1..Len(work'[u]), NEW j \in 1..Len(work'[v])
                 PROVE  work'[u][i].action # work'[v][j].action
      BY DEF Apart
    <3>1. \A x \in Worker \ {w} : pc'[x] = pc[x] /\ work'[x] = work[x]
      BY <2>6 DEF Untouched
    <3>2. CASE u = w
      BY <2>4, <2>6, <3>1, <3>2
    <3>3. CASE v = w
      BY <2>4, <2>6, <3>1, <3>3
    <3>4. CASE u # w /\ v # w
      BY <3>1, <3>4 DEF KernelInv, Apart
    <3> QED BY <3>2, <3>3, <3>4
  <2> QED BY <1>3, <1>4, <2>6, <2>7, <2>9, <2>10, CommitStep
<1> QED
  BY <1>2, <1>6, <1>7

\* Each start is the first of its action and within the budget.
LEMMA StartActionStep ==
  ASSUME KernelInv, Inv', NEW w \in Worker, StartAction(w)
  PROVE  KernelInv'
<1> DEFINE a == work[w][pos[w]].action
           e == Event("ActionStarted", a)
           n == Len(work[w])
<1>t. /\ TypeInv /\ ck[w] \in Checkpoint /\ log \in Seq(LogEvent) /\ WorkInv(w)
      /\ work[w] \in Seq(Intent) /\ n \in Nat /\ ck[w].actions \in Nat /\ pos[w] \in Nat
  <2>1. TypeInv /\ WorkInv(w)
    BY DEF KernelInv, Inv
  <2>2. /\ ck[w] \in Checkpoint /\ log \in Seq(LogEvent)
        /\ work[w] \in Seq(Intent) /\ pos[w] \in Nat
    BY <2>1 DEF TypeInv
  <2>3. n \in Nat
    BY <2>2
  <2>4. ck[w].actions \in Nat
    BY <2>2 DEF Checkpoint
  <2> QED BY <2>1, <2>2, <2>3, <2>4
<1>1. /\ pc[w] = "start" /\ Commit(w, e, ck[w]) /\ UNCHANGED <<orphans, work, exit>>
  BY DEF StartAction
<1>2. pos[w] \in 1..n
  BY <1>t, <1>1 DEF WorkInv, IntentPoints
<1>3. e \in LogEvent /\ e.kind = "ActionStarted" /\ e.arg = a
  BY <1>t, <1>2, IntentAt, Events DEF Event
<1> HIDE DEF e
<1>4. /\ ck[w].version = Len(log) /\ log' = Append(log, e) /\ checkpoint' = checkpoint
      /\ ck'[w].version = Len(log') /\ Len(log') \in Nat
      /\ Prefix(w)' = log'
      /\ ck'[w].state = ck[w].state /\ ck'[w].plan = ck[w].plan
      /\ ck'[w].baseline = ck[w].baseline /\ ck'[w].actions = ck[w].actions
      /\ \A v \in Worker \ {w} : ck'[v] = ck[v]
  BY <1>t, <1>1, <1>3, AfterCommit
<1>5. /\ Prefix(w) = log /\ Folded(ck[w], log) /\ Orphans(log) = Waiting(w)
      /\ ck[w].actions + (pos[w] - 1) = Cardinality(Started)
      /\ IntentInv(w) /\ StateOf(log) = "RUNNING" /\ Unknown(log) = {}
  BY <1>1, <1>4, AtHead DEF RunningPoints, IntentPoints, Away, Uncounted
<1>6. /\ \A i, j \in 1..n : work[w][i].action = work[w][j].action => i = j
      /\ ck[w].actions + n <= MaxActions
      /\ \A i \in pos[w]..n : work[w][i].action \notin Started
  BY <1>1, <1>5 DEF IntentInv, IntentPoints
<1>7. a \notin Started
  BY <1>2, <1>6
<1>8. Cardinality(Started) < MaxActions
  BY <1>t, <1>2, <1>5, <1>6, KernelAssumption
<1>9. Allowed(e)
  BY <1>3, <1>5, <1>7, <1>8 DEF Allowed
<1>10. /\ \A kind : ArgsOf(log', kind) =
            ArgsOf(log, kind) \cup (IF e.kind = kind THEN {e.arg} ELSE {})
       /\ \A kind, d : LastArg(log', kind, d) =
            IF e.kind = kind THEN e.arg ELSE LastArg(log, kind, d)
  BY <1>t, <1>3, <1>4, LogReads
<1>11. /\ Started' = Started \cup {a}
       /\ Observed(log') = Observed(log) /\ Unknown(log') = Unknown(log)
       /\ StateOf(log') = StateOf(log)
       /\ LastArg(log', "PublicPlanRevised", 0) = LastArg(log, "PublicPlanRevised", 0)
       /\ ArgsOf(log', "PreflightCompleted") = ArgsOf(log, "PreflightCompleted")
  BY <1>3, <1>10 DEF Started, Observed, Unknown, StateOf
<1>12. Folded(ck[w], log)'
  BY <1>4, <1>5, <1>11 DEF Folded
<1>13. Orphans(log') = Waiting(w) \cup {a}
  <2>1. a \notin Observed(log) /\ a \notin Unknown(log)
    <3>1. \A b \in Observed(log) : b \in Started
      <4> TAKE b \in Observed(log)
      <4>1. PICK j \in 1..Len(log) : log[j].kind = "EffectObserved" /\ b = log[j].arg
        BY DEF Observed, ArgsOf
      <4>2. PICK i \in 1..(j - 1) : log[i].kind = "ActionStarted" /\ log[i].arg = log[j].arg
        BY <4>1 DEF KernelInv, LogInv, Orderly
      <4>3. i \in 1..Len(log)
        BY <1>t, <4>1, <4>2
      <4> QED BY <4>1, <4>2, <4>3 DEF Started, ArgsOf
    <3> QED BY <1>5, <1>7, <3>1
  <2> QED BY <1>5, <1>11, <2>1 DEF Orphans, Started, Observed, Unknown
<1>14. Cardinality(Started') = Cardinality(Started) + 1
  <2>1. IsFiniteSet(Started)
    BY <1>t, ArgsOfFinite DEF Started
  <2> QED BY <1>7, <1>11, <2>1, FS_AddElement
<1>15. Waiting(w) = {work[w][i].action : i \in 1..(pos[w] - 1)}
  BY <1>1 DEF Waiting
<1>16. Waiting(w) \cup {a} = {work[w][i].action : i \in 1..pos[w]}
  BY <1>2, <1>15
<1>17. /\ work' = work
       /\ \/ /\ pos[w] < n /\ pc'[w] = "start" /\ pos'[w] = pos[w] + 1
          \/ /\ pos[w] = n /\ pc'[w] = "submit" /\ pos'[w] = 1
       /\ \A v \in Worker \ {w} : Untouched(v)
  <2>1. CASE pos[w] < n
    <3>1. pos' = [pos EXCEPT ![w] = @ + 1] /\ UNCHANGED pc
      BY <2>1 DEF StartAction
    <3> QED BY <1>t, <1>1, <1>4, <2>1, <3>1 DEF TypeInv, Untouched
  <2>2. CASE ~ (pos[w] < n)
    <3>1. pos' = [pos EXCEPT ![w] = 1] /\ pc' = [pc EXCEPT ![w] = "submit"]
      BY <2>2 DEF StartAction, Goto
    <3> QED BY <1>t, <1>1, <1>2, <1>4, <2>2, <3>1 DEF TypeInv, Untouched
  <2> QED BY <2>1, <2>2
<1>18. Waiting(w)' = Waiting(w) \cup {a}
  <2>1. CASE pos[w] < n /\ pc'[w] = "start" /\ pos'[w] = pos[w] + 1
    <3>1. Waiting(w)' = {work'[w][i].action : i \in 1..(pos'[w] - 1)}
      BY <2>1 DEF Waiting
    <3>2. pos'[w] - 1 = pos[w]
      BY <1>t, <2>1
    <3> QED BY <1>16, <1>17, <3>1, <3>2
  <2>2. CASE pos[w] = n /\ pc'[w] = "submit"
    <3>1. Waiting(w)' = {work[w][i].action : i \in 1..n}
      BY <1>17, <2>2 DEF Waiting
    <3> QED BY <1>16, <2>2, <3>1
  <2> QED BY <1>17, <2>1, <2>2
<1>19. (ck[w].actions + Uncounted(w) = Cardinality(Started))'
  <2>1. Uncounted(w)' = pos[w]
    BY <1>t, <1>17 DEF Uncounted
  <2> QED BY <1>t, <1>4, <1>5, <1>14, <2>1
<1>20. PointInv(w)'
  BY <1>4, <1>5, <1>11, <1>17 DEF PointInv, Folded, RunningPoints, IntentPoints
<1>21. IntentInv(w)'
  <2>1. \A i, j \in 1..n : work'[w][i].action = work'[w][j].action => i = j
    BY <1>6, <1>17
  <2>2. CASE pos[w] < n /\ pc'[w] = "start" /\ pos'[w] = pos[w] + 1
    <3>1. \A i \in (pos[w] + 1)..n : work[w][i].action \notin Started'
      <4> TAKE i \in (pos[w] + 1)..n
      <4>1. i \in pos[w]..n /\ i \in 1..n /\ i # pos[w]
        BY <1>t, <1>2
      <4>2. work[w][i].action # a
        BY <1>2, <1>6, <4>1
      <4> QED BY <1>6, <1>11, <4>1, <4>2
    <3> QED BY <1>4, <1>6, <1>17, <2>1, <2>2, <3>1 DEF IntentInv, IntentPoints
  <2>3. CASE pos[w] = n /\ pc'[w] = "submit" /\ pos'[w] = 1
    <3>1. /\ {work[w][i].action : i \in 1..n} = Orphans(log')
      BY <1>13, <1>16, <2>3
    <3>2. \A i \in 1..n : work[w][i].action \in Orphans(log')
      BY <3>1
    <3>3. \A i \in 1..n : work[w][i].action \in Started' /\ work[w][i].action \notin Observed(log')
      BY <3>2 DEF Orphans, Started, Observed
    <3> QED BY <1>17, <2>1, <2>3, <3>3 DEF IntentInv, IntentPoints
  <2> QED BY <1>17, <2>2, <2>3
<1>22. WorkerInv(w)'
  BY <1>4, <1>12, <1>13, <1>17, <1>18, <1>19, <1>20, <1>21 DEF WorkerInv, Started
<1>23. Apart'
  <2>1. pc[w] \in IntentPoints
    BY <1>1 DEF IntentPoints
  <2> QED BY <1>17, <2>1, ApartKept DEF KernelInv
<1>24. pc[w] \in IntentPoints /\ \E i \in 1..Len(work[w]) : work[w][i].action = e.arg
  BY <1>1, <1>2, <1>3 DEF IntentPoints
<1> QED
  BY <1>3, <1>4, <1>9, <1>17, <1>22, <1>23, <1>24, CommitStep

\* A tool runs, or is refused; the last one brings the receipts and the count.
LEMMA ExecuteStep ==
  ASSUME KernelInv, Inv', NEW w \in Worker, Execute(w)
  PROVE  KernelInv'
<1> DEFINE n == Len(work[w])
<1>t. /\ TypeInv /\ log \in Seq(LogEvent) /\ WorkInv(w) /\ WorkerInv(w)
      /\ work[w] \in Seq(Intent) /\ ck[w] \in Checkpoint /\ pos[w] \in Nat
  BY DEF KernelInv, Inv, TypeInv
<1>n. n \in Nat
  BY <1>t
<1>1. /\ pc[w] = "submit"
      /\ UNCHANGED <<log, checkpoint, runs, seen, orphans, exit>>
  BY DEF Execute
<1>2. pos[w] \in 1..n
  BY <1>t, <1>1 DEF WorkInv, IntentPoints
<1>3. PICK granted \in BOOLEAN :
        LET intents == [work[w] EXCEPT ![pos[w]].granted = granted]
        IN  /\ work' = [work EXCEPT ![w] = intents]
            /\ IF pos[w] < Len(intents)
               THEN /\ pos' = [pos EXCEPT ![w] = @ + 1]
                    /\ UNCHANGED <<pc, ck>>
               ELSE /\ pos' = [pos EXCEPT ![w] = 1]
                    /\ Goto(w, ReceiptPoint(intents, 1))
                    /\ ck' = [ck EXCEPT ![w].actions = @ + Len(intents)]
  BY DEF Execute
<1> DEFINE intent == [work[w][pos[w]] EXCEPT !.granted = granted]
           intents == [work[w] EXCEPT ![pos[w]].granted = granted]
<1>4. intent \in Intent /\ intent.action = work[w][pos[w]].action
  BY <1>t, <1>2, <1>3, IntentAt, IntentGranted
<1>5. intents = [work[w] EXCEPT ![pos[w]] = intent]
  OBVIOUS
<1> HIDE DEF intent, intents
<1>6. /\ Len(intents) = n
      /\ \A i \in 1..n : intents[i].action = work[w][i].action
  BY <1>t, <1>2, <1>4, <1>5
<1>7. work' = [work EXCEPT ![w] = intents] /\ work'[w] = intents
  BY <1>t, <1>3 DEF intents, TypeInv
<1>8. \/ /\ pc' = pc /\ ck' = ck
         /\ pos' = [pos EXCEPT ![w] = @ + 1]
      \/ \E next \in {"grant", "observe"} :
           /\ pc' = [pc EXCEPT ![w] = next]
           /\ pos' = [pos EXCEPT ![w] = 1]
           /\ ck' = [ck EXCEPT ![w].actions = @ + n]
  <2>1. CASE pos[w] < Len(intents)
    BY <1>3, <2>1 DEF intents
  <2>2. CASE ~ (pos[w] < Len(intents))
    <3>1. /\ pos' = [pos EXCEPT ![w] = 1]
          /\ Goto(w, ReceiptPoint(intents, 1))
          /\ ck' = [ck EXCEPT ![w].actions = @ + Len(intents)]
      BY <1>3, <2>2 DEF intents
    <3> QED BY <1>6, <3>1 DEF Goto, ReceiptPoint
  <2> QED BY <2>1, <2>2
<1>9. \A v \in Worker \ {w} : Untouched(v)
  <2>1. \A v \in Worker \ {w} : work'[v] = work[v] /\ orphans'[v] = orphans[v]
    BY <1>t, <1>1, <1>7 DEF TypeInv
  <2>2. \A v \in Worker \ {w} : pc'[v] = pc[v] /\ ck'[v] = ck[v] /\ pos'[v] = pos[v]
    BY <1>t, <1>8 DEF TypeInv
  <2> QED BY <2>1, <2>2 DEF Untouched
<1>10. /\ ck[w].version <= Len(log) /\ Folded(ck[w], Prefix(w))
       /\ Orphans(Prefix(w)) = Waiting(w)
       /\ ck[w].actions + n = Cardinality(ArgsOf(Prefix(w), "ActionStarted"))
       /\ PointInv(w) /\ IntentInv(w)
  BY <1>t, <1>1 DEF WorkerInv, Uncounted
<1>11. /\ ck[w].state = "RUNNING" /\ Unknown(Prefix(w)) = {}
       /\ \A i, j \in 1..n : work[w][i].action = work[w][j].action => i = j
       /\ \A i \in 1..n : work[w][i].action \in Started
       /\ \A i \in 1..n : work[w][i].action \notin Observed(log)
  BY <1>1, <1>10 DEF PointInv, IntentInv, RunningPoints, IntentPoints
<1>12. {work'[w][i].action : i \in 1..n} = Waiting(w)
  <2>1. Waiting(w) = {work[w][i].action : i \in 1..n}
    BY <1>1 DEF Waiting
  <2> QED BY <1>6, <1>7, <2>1
<1>13. \A i, j \in 1..n : work'[w][i].action = work'[w][j].action => i = j
  BY <1>6, <1>7, <1>11
<1>14. \A i \in 1..n : /\ work'[w][i].action \in Started'
                        /\ work'[w][i].action \notin Observed(log')
  BY <1>1, <1>6, <1>7, <1>11 DEF Started
<1>15. Len(work'[w]) = n
  BY <1>6, <1>7
<1>16. ASSUME pc' = pc, ck' = ck
       PROVE  WorkerInv(w)'
  <2>1. Prefix(w)' = Prefix(w)
    BY <1>1, <1>16 DEF Prefix
  <2>2. Waiting(w)' = Waiting(w) /\ Uncounted(w)' = n
    BY <1>1, <1>12, <1>15, <1>16 DEF Waiting, Uncounted
  <2>3. Folded(ck[w], Prefix(w))'
    BY <1>10, <1>16, <2>1 DEF Folded
  <2>4. PointInv(w)'
    BY <1>1, <1>10, <1>16, <2>1 DEF PointInv
  <2>5. IntentInv(w)'
    BY <1>1, <1>13, <1>14, <1>15, <1>16 DEF IntentInv
  <2>6. pc'[w] = "submit" /\ ck'[w] = ck[w] /\ log' = log
    BY <1>1, <1>16
  <2>7. (ck[w].actions + Uncounted(w) = Cardinality(ArgsOf(Prefix(w), "ActionStarted")))'
    BY <1>10, <2>1, <2>2, <2>6
  <2> HIDE DEF n
  <2> QED BY <1>10, <2>1, <2>2, <2>3, <2>4, <2>5, <2>6, <2>7 DEF WorkerInv
<1>17. ASSUME NEW next \in {"grant", "observe"},
              pc' = [pc EXCEPT ![w] = next], pos' = [pos EXCEPT ![w] = 1],
              ck' = [ck EXCEPT ![w].actions = @ + n]
       PROVE  WorkerInv(w)'
  <2>1. pc'[w] = next /\ pos'[w] = 1 /\ ck'[w] = [ck[w] EXCEPT !.actions = @ + n]
    BY <1>t, <1>17 DEF TypeInv
  <2>2. /\ ck'[w].version = ck[w].version /\ ck'[w].state = ck[w].state
        /\ ck'[w].plan = ck[w].plan /\ ck'[w].baseline = ck[w].baseline
        /\ ck'[w].actions = ck[w].actions + n /\ ck[w].actions \in Nat
    <3>1. DOMAIN ck[w] = {"state", "version", "turn", "actions", "plan", "baseline"}
          /\ ck[w].actions \in Nat
      BY <1>t DEF Checkpoint
    <3> HIDE DEF n
    <3> QED BY <2>1, <3>1
  <2>3. Prefix(w)' = Prefix(w)
    BY <1>1, <2>2 DEF Prefix
  <2>4. Waiting(w)' = Waiting(w) /\ Uncounted(w)' = 0
    BY <1>12, <1>15, <2>1 DEF Waiting, Uncounted
  <2>5. Folded(ck[w], Prefix(w))'
    BY <1>10, <2>2, <2>3 DEF Folded
  <2>6. PointInv(w)'
    BY <1>1, <1>11, <2>1, <2>2, <2>3 DEF PointInv, RunningPoints, IntentPoints
  <2>7. IntentInv(w)'
    BY <1>13, <1>14, <1>15, <2>1 DEF IntentInv
  <2>8. ck[w].version <= Len(log)
    BY <1>10
  <2>9. (ck[w].actions + Uncounted(w) = Cardinality(ArgsOf(Prefix(w), "ActionStarted")))'
    BY <1>n, <1>10, <2>2, <2>3, <2>4
  <2> QED BY <1>1, <1>10, <2>1, <2>2, <2>3, <2>4, <2>5, <2>6, <2>7, <2>8, <2>9
       DEF WorkerInv
<1>18. WorkerInv(w)'
  <2>1. CASE pc' = pc /\ ck' = ck
    BY <1>16, <2>1
  <2>2. CASE ~ (pc' = pc /\ ck' = ck)
    <3>1. PICK next \in {"grant", "observe"} :
            /\ pc' = [pc EXCEPT ![w] = next]
            /\ pos' = [pos EXCEPT ![w] = 1]
            /\ ck' = [ck EXCEPT ![w].actions = @ + n]
      BY <1>8, <2>2
    <3> HIDE DEF n
    <3> QED BY <1>17, <3>1
  <2> QED BY <2>1, <2>2
<1>19. CheckpointInv'
  BY <1>1 DEF KernelInv, CheckpointInv, Folded
<1>20. /\ pc[w] \in IntentPoints /\ Len(work'[w]) = Len(work[w])
       /\ \A i \in 1..Len(work[w]) : work'[w][i].action = work[w][i].action
  BY <1>1, <1>6, <1>7 DEF IntentPoints
<1>21. log' = log
  BY <1>1
<1> HIDE DEF n
<1> QED
  BY <1>9, <1>18, <1>19, <1>20, <1>21, LocalStep

\* Each receipt is that of an action still open, and settles it.
LEMMA RecordEffectStep ==
  ASSUME KernelInv, Inv', NEW w \in Worker, RecordEffect(w)
  PROVE  KernelInv'
<1> DEFINE a == work[w][pos[w]].action
           e == Event("EffectObserved", a)
           n == Len(work[w])
<1>t. /\ TypeInv /\ WorkInv(w) /\ ck[w] \in Checkpoint /\ log \in Seq(LogEvent)
      /\ work[w] \in Seq(Intent) /\ pos[w] \in Nat
  BY DEF KernelInv, Inv, TypeInv
<1>n. n \in Nat
  BY <1>t
<1>1. /\ pc[w] = "observe" /\ Commit(w, e, ck[w]) /\ UNCHANGED <<orphans, exit>>
  BY DEF RecordEffect
<1>2. pos[w] \in 1..n
  BY <1>t, <1>1 DEF WorkInv, IntentPoints
<1>3. e \in LogEvent /\ e.kind = "EffectObserved" /\ e.arg = a
  BY <1>t, <1>2, IntentAt, Events DEF Event
<1> HIDE DEF e
<1>4. /\ ck[w].version = Len(log) /\ log' = Append(log, e) /\ checkpoint' = checkpoint
      /\ ck'[w].version = Len(log') /\ Len(log') \in Nat
      /\ Prefix(w)' = log'
      /\ ck'[w].state = ck[w].state /\ ck'[w].plan = ck[w].plan
      /\ ck'[w].baseline = ck[w].baseline /\ ck'[w].actions = ck[w].actions
      /\ \A v \in Worker \ {w} : ck'[v] = ck[v]
  BY <1>t, <1>1, <1>3, AfterCommit
<1>5. /\ Folded(ck[w], log) /\ Orphans(log) = Waiting(w)
      /\ ck[w].actions + Uncounted(w) = Cardinality(Started)
      /\ IntentInv(w) /\ StateOf(log) = "RUNNING" /\ Unknown(log) = {}
  BY <1>1, <1>4, AtHead DEF RunningPoints, IntentPoints, Away
<1>6. /\ \A i, j \in 1..n : work[w][i].action = work[w][j].action => i = j
      /\ \A i \in 1..n : work[w][i].action \in Started
  BY <1>1, <1>5 DEF IntentInv, IntentPoints
<1>7. Waiting(w) = {work[w][i].action : i \in pos[w]..n}
  BY <1>1 DEF Waiting
<1>8. Waiting(w) \ {a} = {work[w][i].action : i \in (pos[w] + 1)..n}
  <2>1. \A i \in (pos[w] + 1)..n : i \in pos[w]..n /\ i \in 1..n /\ i # pos[w]
    BY <1>t, <1>n, <1>2
  <2>2. \A i \in pos[w]..n : i = pos[w] \/ i \in (pos[w] + 1)..n
    BY <1>t, <1>n, <1>2
  <2> QED BY <1>2, <1>6, <1>7, <2>1, <2>2
<1>9. a \in Orphans(log)
  BY <1>2, <1>5, <1>7
<1>10. Allowed(e)
  BY <1>3, <1>5, <1>9 DEF Allowed
<1>11. /\ \A kind : ArgsOf(log', kind) =
            ArgsOf(log, kind) \cup (IF e.kind = kind THEN {e.arg} ELSE {})
       /\ \A kind, d : LastArg(log', kind, d) =
            IF e.kind = kind THEN e.arg ELSE LastArg(log, kind, d)
  BY <1>t, <1>3, <1>4, LogReads
<1>12. /\ Started' = Started /\ Unknown(log') = Unknown(log)
       /\ Orphans(log') = Orphans(log) \ {a}
       /\ StateOf(log') = StateOf(log)
       /\ LastArg(log', "PublicPlanRevised", 0) = LastArg(log, "PublicPlanRevised", 0)
       /\ ArgsOf(log', "PreflightCompleted") = ArgsOf(log, "PreflightCompleted")
  BY <1>3, <1>11 DEF Started, Unknown, StateOf, Orphans
<1>13. Folded(ck[w], log)'
  BY <1>4, <1>5, <1>12 DEF Folded
<1>14. /\ \/ /\ pos[w] < n /\ pc'[w] \in {"grant", "observe"}
             /\ pos'[w] = pos[w] + 1 /\ work'[w] = work[w]
          \/ /\ pos[w] = n /\ pc'[w] = "saveTurn"
       /\ \A v \in Worker \ {w} : Untouched(v)
  <2>1. CASE pos[w] < n
    <3>1. /\ pos' = [pos EXCEPT ![w] = @ + 1] /\ UNCHANGED work
          /\ Goto(w, ReceiptPoint(work[w], pos[w] + 1))
      BY <2>1 DEF RecordEffect
    <3>2. PICK next \in {"grant", "observe"} : pc' = [pc EXCEPT ![w] = next]
      BY <3>1 DEF ReceiptPoint, Goto
    <3> QED BY <1>t, <1>1, <1>4, <2>1, <3>1, <3>2 DEF TypeInv, Untouched
  <2>2. CASE ~ (pos[w] < n)
    <3>1. /\ pos' = [pos EXCEPT ![w] = 1] /\ work' = [work EXCEPT ![w] = <<>>]
          /\ pc' = [pc EXCEPT ![w] = "saveTurn"]
      BY <2>2 DEF RecordEffect, Goto
    <3>2. pos[w] = n
      BY <1>n, <1>2, <2>2
    <3> QED BY <1>t, <1>1, <1>4, <3>1, <3>2 DEF TypeInv, Untouched
  <2> QED BY <2>1, <2>2
<1>15. Waiting(w)' = Waiting(w) \ {a}
  <2>1. CASE pos[w] < n
    <3>1. Waiting(w)' = {work'[w][i].action : i \in pos'[w]..Len(work'[w])}
      BY <1>14, <2>1 DEF Waiting
    <3> QED BY <1>8, <1>14, <2>1, <3>1
  <2>2. CASE pos[w] = n
    <3>1. (pos[w] + 1)..n = {}
      BY <1>t, <2>2
    <3>2. pc'[w] = "saveTurn"
      BY <1>n, <1>14, <2>2
    <3>3. Waiting(w)' = {}
      BY <3>2 DEF Waiting
    <3> QED BY <1>8, <3>1, <3>3
  <2> QED BY <1>14, <2>1, <2>2
<1>16. Uncounted(w) = 0 /\ Uncounted(w)' = 0
  BY <1>1, <1>14 DEF Uncounted
<1>17. (ck[w].actions + Uncounted(w) = Cardinality(Started))'
  BY <1>4, <1>5, <1>12, <1>16
<1>18. PointInv(w)'
  BY <1>4, <1>5, <1>12, <1>14 DEF PointInv, Folded, RunningPoints, IntentPoints
<1>19. IntentInv(w)'
  BY <1>6, <1>12, <1>14 DEF IntentInv, IntentPoints
<1>20. WorkerInv(w)'
  BY <1>4, <1>5, <1>12, <1>13, <1>14, <1>15, <1>17, <1>18, <1>19 DEF WorkerInv, Started
<1>21. pc[w] \in IntentPoints /\ \E i \in 1..Len(work[w]) : work[w][i].action = e.arg
  BY <1>1, <1>2, <1>3 DEF IntentPoints
<1>22. Apart'
  BY <1>14, <1>21, ApartKept DEF KernelInv, IntentPoints
<1> QED
  BY <1>3, <1>4, <1>10, <1>14, <1>20, <1>21, <1>22, CommitStep

-----------------------------------------------------------------------------
(* The theorems. *)

\* Every step keeps the invariant, when no id is used for a second action.
LEMMA LedgerNext ==
  ASSUME ReuseIds = FALSE
  PROVE  KernelInv /\ [Next]_vars => KernelInv'
<1> SUFFICES ASSUME KernelInv, [Next]_vars PROVE KernelInv'
  OBVIOUS
<1>1. Inv'
  BY NextInv DEF KernelInv
<1>2. CASE UNCHANGED vars
  <2>1. \A v \in Worker : Untouched(v)
    BY <1>2 DEF vars, Untouched
  <2>2. LogInv' /\ CheckpointInv' /\ Apart'
    BY <1>2 DEF vars, KernelInv, LogInv, Orderly, Started, NoDecisionAfterUnknown,
                CheckpointInv, Folded, Apart
  <2>3. Grown /\ Started' = Started /\ log' = log /\ TypeInv
    BY <1>2, GrownBySame DEF vars, KernelInv, Inv, TypeInv, Started
  <2>4. \A v \in Worker : WorkerInv(v)'
    BY <2>1, <2>3, OtherWorker DEF KernelInv
  <2> QED BY <1>1, <2>2, <2>4 DEF KernelInv
<1>3. CASE Next
  <2>1. PICK w \in Worker : LoadEvents(w) \/ Proceed(w) \/ Crash(w)
    BY <1>3 DEF Next
  <2> QED
    BY <1>1, <2>1, LoadEventsStep, LoadCheckpointStep, MarkOrphanStep, SavingSteps,
       LeavingSteps, ResumeStep, QuietSteps, StateSteps, RecordingSteps,
       AcceptIntentsStep, StartActionStep, ExecuteStep, RecordEffectStep, ReadGateStep
       DEF Proceed
<1> QED
  BY <1>2, <1>3

\* The invariant holds in every reachable state: the log, the checkpoint and the
\* workers' own checkpoints and intents agree, whatever crashed in between.
THEOREM KernelInvHolds ==
  ASSUME ReuseIds = FALSE
  PROVE  Spec => []KernelInv
<1>1. KernelInv /\ [Next]_vars => KernelInv'
  BY LedgerNext
<1> QED
  BY <1>1, LedgerInit, PTL DEF Spec

\* Whichever worker saves a checkpoint and whatever crashed before, it is what a
\* replay of the log up to its version gives, so no action is counted twice or
\* not at all; and once an action is marked UNKNOWN the kernel issues no decision
\* on the task again (focus-kernel.ts:83-102, 371-423).  For any number of
\* workers, restarts and actions, when the model does not repeat an identity.
THEOREM RecoveryIsSound ==
  ASSUME ReuseIds = FALSE
  PROVE  Spec => []RecoverySound
<1>1. KernelInv => RecoverySound
  BY DEF KernelInv, LogInv, CheckpointInv, Folded, RecoverySound, CheckpointIsFold
<1> QED
  BY <1>1, KernelInvHolds, PTL

-----------------------------------------------------------------------------
(* The kernel implements the ledger. *)

\* An append that the ledger takes as it is, when replay reads it as a state, a
\* mark or a verdict; the invariant says why it takes the others.
Written(e) ==
  /\ e \in LogEvent
  /\ log' = Append(log, e)
  /\ ran' = ran
  /\ e.kind \in {"TaskStateChanged", "EffectUnknown", "VerificationCompleted"} => Allowed(e)

\* The actions that append an event other than a state, a mark or a verdict.
LEMMA WrittenEvents ==
  ASSUME KernelInv, NEW w \in Worker,
         \/ BlockOrphans(w) \/ Create(w) \/ Block(w) \/ Respond(w) \/ Delegate(w)
         \/ Request(w) \/ RecordGrant(w) \/ Propose(w)
         \/ ExhaustBudget(w) \/ StartTurn(w) \/ RejectDecision(w) \/ AcceptDecision(w)
         \/ AcceptIntents(w) \/ Baseline(w) \/ RevisePlan(w)
         \/ StartAction(w) \/ RecordEffect(w)
  PROVE  \E e \in LogEvent : Written(e)
<1>t. /\ TypeInv /\ WorkInv(w) /\ ck[w].turn \in Nat
      /\ work[w] \in Seq(Intent)
  BY DEF KernelInv, Inv, TypeInv, Checkpoint
<1>1. ASSUME NEW e \in LogEvent, NEW c, Commit(w, e, c),
             e.kind \notin {"TaskStateChanged", "EffectUnknown", "VerificationCompleted"}
      PROVE  \E d \in LogEvent : Written(d)
  BY <1>1 DEF Commit, Written
<1>2. \A kind \in PlainKind : /\ Event(kind, "") \in LogEvent
                              /\ Event(kind, "").kind = kind
                              /\ kind \notin {"TaskStateChanged", "EffectUnknown",
                                              "VerificationCompleted"}
  BY Events DEF Event, PlainKind
<1>3. {"TaskBlocked", "TaskCreated", "ResponseProduced", "DelegationRejected",
       "ActionRequested", "GrantIssued", "CompletionCandidateProposed", "TurnStarted",
       "ModelDecisionRejected", "ModelDecisionAccepted", "PreflightCompleted"}
        \subseteq PlainKind
  BY DEF PlainKind, EventKind
<1>4. CASE \/ BlockOrphans(w) \/ Create(w) \/ Block(w) \/ Respond(w) \/ Delegate(w)
           \/ Request(w) \/ RecordGrant(w) \/ Propose(w)
  <2>1. PICK kind \in PlainKind : Commit(w, Event(kind, ""), ck[w])
    BY <1>3, <1>4 DEF BlockOrphans, Create, Block, Respond, Delegate, Request,
                      RecordGrant, Propose, Step
  <2> QED BY <1>1, <1>2, <2>1
<1>5. CASE \/ ExhaustBudget(w) \/ StartTurn(w) \/ RejectDecision(w) \/ AcceptDecision(w)
           \/ AcceptIntents(w) \/ Baseline(w)
  <2>1. PICK kind \in PlainKind : \E c : Commit(w, Event(kind, ""), c)
    BY <1>3, <1>5 DEF ExhaustBudget, StartTurn, RejectDecision, AcceptDecision,
                      AcceptIntents, Baseline
  <2> QED BY <1>1, <1>2, <2>1
<1>6. CASE RevisePlan(w)
  <2>1. Event("PublicPlanRevised", ck[w].turn) \in LogEvent
        /\ Event("PublicPlanRevised", ck[w].turn).kind = "PublicPlanRevised"
    BY <1>t, Events DEF Event
  <2> QED BY <1>1, <1>6, <2>1 DEF RevisePlan
<1>7. CASE StartAction(w) \/ RecordEffect(w)
  <2>1. pos[w] \in 1..Len(work[w])
    BY <1>t, <1>7 DEF WorkInv, StartAction, RecordEffect, IntentPoints
  <2>2. work[w][pos[w]].action \in Action
    BY <1>t, <2>1, IntentAt
  <2>3. \A kind \in {"ActionStarted", "EffectObserved"} :
          LET e == Event(kind, work[w][pos[w]].action) IN e \in LogEvent /\ e.kind = kind
    BY <2>2, Events DEF Event
  <2> QED BY <1>1, <1>7, <2>3 DEF StartAction, RecordEffect
<1> QED
  BY <1>4, <1>5, <1>6, <1>7

\* The actions that append a change of state.
LEMMA WrittenStates ==
  ASSUME KernelInv, NEW w \in Worker,
         \/ ToReconciling(w) \/ ToPreflight(w) \/ ToReady(w) \/ ToRunning(w)
         \/ ToBlocked(w) \/ ToWaiting(w) \/ ToVerifying(w) \/ Passed(w) \/ Failed(w)
  PROVE  \E e \in LogEvent : Written(e)
<1>1. PICK to \in TaskState, next \in Point :
        StateMove(pc[w], to, next) /\ Shift(w, pc[w], to, next)
  BY ShiftPoints DEF KernelInv, Inv
<1>2. Allowed(Event("TaskStateChanged", to)) /\ Event("TaskStateChanged", to) \in LogEvent
  BY <1>1, ShiftAllowed, Events
<1> QED
  BY <1>1, <1>2 DEF Shift, Transition, Commit, Written

\* The actions that append what became of an orphan, or a verdict.
LEMMA WrittenMarks ==
  ASSUME KernelInv, NEW w \in Worker, MarkOrphan(w) \/ Verify(w)
  PROVE  \E e \in LogEvent : Written(e)
<1>1. CASE MarkOrphan(w)
  <2>1. PICK a \in orphans[w] : Commit(w, Event("EffectUnknown", a), ck[w])
    BY <1>1 DEF MarkOrphan
  <2>2. ck[w].version = Len(log) /\ pc[w] = "markOrphan"
    BY <1>1, <2>1 DEF Commit, MarkOrphan
  <2>3. Orphans(log) = orphans[w]
    BY <2>2, AtHead DEF Away
  <2>4. /\ Event("EffectUnknown", a) \in LogEvent
        /\ Event("EffectUnknown", a).kind = "EffectUnknown"
        /\ Event("EffectUnknown", a).arg = a
    BY Events DEF KernelInv, Inv, TypeInv, Event
  <2> QED BY <2>1, <2>3, <2>4 DEF Commit, Written, Allowed
<1>2. CASE Verify(w)
  <2>1. PICK v \in {"PASS", "NOT_PASS"} : Commit(w, Event("VerificationCompleted", v), ck[w])
    BY <1>2 DEF Verify
  <2>2. ck[w].version = Len(log) /\ pc[w] = "verify"
    BY <1>2, <2>1 DEF Commit, Verify
  <2>3. StateOf(log) = "VERIFYING" /\ Verdict(log) = "none"
    BY <2>2, AtHead DEF Away, PointInv, Folded
  <2>4. Unknown(log) = {}
    BY <2>3 DEF KernelInv, LogInv
  <2>5. /\ Event("VerificationCompleted", v) \in LogEvent
        /\ Event("VerificationCompleted", v).kind = "VerificationCompleted"
    BY Events DEF Event
  <2> QED BY <2>1, <2>3, <2>4, <2>5 DEF Commit, Written, Allowed
<1> QED
  BY <1>1, <1>2

\* The states and the transitions of the ledger are those of the kernel.
LEMMA LedgerStates ==
  /\ Ledger!TaskState = TaskState
  /\ Ledger!QuiescentStates = QuiescentStates
  /\ \A from, to : Ledger!LegalTransition(from, to) = LegalTransition(from, to)
<1>1. Ledger!Transitions = Transitions
  BY DEF Ledger!Transitions, Transitions
<1>2. Ledger!TaskState = TaskState
  BY DEF Ledger!TaskState, TaskState
<1>3. Ledger!QuiescentStates = QuiescentStates
  BY DEF Ledger!QuiescentStates, QuiescentStates, Ledger!TerminalStates, TerminalStates
<1> QED
  BY <1>1, <1>2, <1>3, Zenon DEF Ledger!LegalTransition, LegalTransition

\* Both modules count alike.
LEMMA LedgerCardinality == \A S : Ledger!Cardinality(S) = Cardinality(S)
  BY Zenon DEF Ledger!Cardinality, Cardinality

\* An append is a step of the ledger, or none of its business.
LEMMA WrittenStep ==
  ASSUME KernelInv, KernelInv', NEW e \in LogEvent, Written(e)
  PROVE  [Ledger!Next]_(Ledger!vars)
<1>t. log \in Seq(LogEvent) /\ log' = Append(log, e) /\ ran' = ran
  BY DEF KernelInv, Inv, TypeInv, Written
<1>1. /\ Len(log') = Len(log) + 1 /\ Len(log) \in Nat /\ log'[Len(log) + 1] = e
      /\ \A i \in 1..Len(log) : log'[i] = log[i]
      /\ \A kind : ArgsOf(log', kind) =
           ArgsOf(log, kind) \cup (IF e.kind = kind THEN {e.arg} ELSE {})
      /\ \A kind, d : LastArg(log', kind, d) =
           IF e.kind = kind THEN e.arg ELSE LastArg(log, kind, d)
  BY <1>t, LogReads
<1>2. /\ LogInv /\ LogInv' /\ TypeInv
  BY DEF KernelInv, Inv
<1>a. /\ ArgsOf(log', "ActionStarted") = ArgsOf(log, "ActionStarted") \cup
           (IF e.kind = "ActionStarted" THEN {e.arg} ELSE {})
      /\ ArgsOf(log', "EffectObserved") = ArgsOf(log, "EffectObserved") \cup
           (IF e.kind = "EffectObserved" THEN {e.arg} ELSE {})
      /\ ArgsOf(log', "EffectUnknown") = ArgsOf(log, "EffectUnknown") \cup
           (IF e.kind = "EffectUnknown" THEN {e.arg} ELSE {})
      /\ LastArg(log', "VerificationCompleted", "none") =
           IF e.kind = "VerificationCompleted" THEN e.arg
           ELSE LastArg(log, "VerificationCompleted", "none")
      /\ LastArg(log', "TaskStateChanged", "CREATED") =
           IF e.kind = "TaskStateChanged" THEN e.arg
           ELSE LastArg(log, "TaskStateChanged", "CREATED")
  BY <1>1
<1>3. Orphans(log) = ArgsOf(log, "ActionStarted")
                       \ (ArgsOf(log, "EffectObserved") \cup ArgsOf(log, "EffectUnknown"))
  BY DEF Orphans
<1>4. e.kind \in {"ActionStarted", "EffectObserved"} => Unknown(log) = {}
  <2> SUFFICES ASSUME e.kind \in {"ActionStarted", "EffectObserved"}, Unknown(log) # {}
               PROVE  FALSE
    OBVIOUS
  <2>1. PICK i \in 1..Len(log) : log[i].kind = "EffectUnknown"
    BY DEF Unknown, ArgsOf
  <2>2. i \in 1..Len(log') /\ Len(log) + 1 \in 1..Len(log') /\ i < Len(log) + 1
    BY <1>1
  <2>3. log'[i].kind = "EffectUnknown" /\ log'[Len(log) + 1].kind = e.kind
    BY <1>1, <2>1
  <2> QED BY <1>2, <2>2, <2>3 DEF LogInv, NoDecisionAfterUnknown, Event
<1>5. CASE e.kind = "ActionStarted"
  <2>1. e.arg \in Action
    BY <1>5 DEF LogEvent, PlainKind
  <2>2. e.arg \notin Started
    <3> SUFFICES ASSUME NEW i \in 1..Len(log), log[i].kind = "ActionStarted", log[i].arg = e.arg
                 PROVE  FALSE
      BY DEF Started, ArgsOf
    <3>1. i \in 1..Len(log') /\ Len(log) + 1 \in 1..Len(log') /\ i # Len(log) + 1
      BY <1>1
    <3>2. log'[i] = log[i] /\ log'[Len(log) + 1] = e
      BY <1>1
    <3> QED BY <1>2, <1>5, <3>1, <3>2 DEF LogInv, Orderly
  <2>3. Started' = Started \cup {e.arg} /\ IsFiniteSet(Started)
    BY <1>t, <1>1, <1>5, ArgsOfFinite DEF Started
  <2>4. Cardinality(Started) < MaxActions
    <3>1. Cardinality(Started') = Cardinality(Started) + 1 /\ Cardinality(Started) \in Nat
      BY <2>2, <2>3, FS_AddElement, FS_CardinalityType
    <3>2. Cardinality(Started') <= MaxActions
      BY <1>2 DEF LogInv
    <3> QED BY <3>1, <3>2, KernelAssumption
  <2>5. e.arg \in Orphans(log')
    <3>1. e.arg \notin Observed(log)
      <4> SUFFICES ASSUME NEW j \in 1..Len(log), log[j].kind = "EffectObserved",
                          log[j].arg = e.arg
                   PROVE  FALSE
        BY DEF Observed, ArgsOf
      <4>1. PICK i \in 1..(j - 1) : log[i].kind = "ActionStarted" /\ log[i].arg = e.arg
        BY <1>2 DEF LogInv, Orderly
      <4>2. i \in 1..Len(log)
        BY <1>1, <4>1
      <4> QED BY <2>2, <4>1, <4>2 DEF Started, ArgsOf
    <3>2. Unknown(log) = {}
      BY <1>4, <1>5
    <3> QED BY <1>1, <1>5, <3>1, <3>2 DEF Orphans, Observed, Unknown
  <2>6. StateOf(log) = "RUNNING"
    <3>1. StateOf(log') = "RUNNING"
      BY <1>2, <2>5 DEF LogInv
    <3> QED BY <1>1, <1>5, <3>1 DEF StateOf
  <2>7. /\ LastArg(log, "TaskStateChanged", "CREATED") = "RUNNING"
        /\ ArgsOf(log, "EffectUnknown") = {}
        /\ e.arg \notin ArgsOf(log, "ActionStarted")
        /\ Cardinality(ArgsOf(log, "ActionStarted")) < MaxActions
    BY <1>4, <1>5, <2>2, <2>4, <2>6 DEF Started, Unknown, StateOf
  <2>8. /\ ArgsOf(log', "ActionStarted") = ArgsOf(log, "ActionStarted") \cup {e.arg}
        /\ ArgsOf(log', "EffectObserved") = ArgsOf(log, "EffectObserved")
        /\ ArgsOf(log', "EffectUnknown") = ArgsOf(log, "EffectUnknown")
        /\ LastArg(log', "VerificationCompleted", "none") =
             LastArg(log, "VerificationCompleted", "none")
        /\ LastArg(log', "TaskStateChanged", "CREATED") =
             LastArg(log, "TaskStateChanged", "CREATED")
    BY <1>a, <1>5
  <2>9. Ledger!Start(e.arg)
    BY <1>t, <2>7, <2>8, LedgerCardinality DEF Ledger!Start, StateOf
  <2> QED BY <2>1, <2>9 DEF Ledger!Next
<1>6. CASE e.kind = "EffectObserved"
  <2>1. e.arg \in Action
    BY <1>6 DEF LogEvent, PlainKind
  <2>2. e.arg \in Orphans(log)
    <3>1. e.arg \in Started
      <4>1. Len(log) + 1 \in 1..Len(log') /\ log'[Len(log) + 1].kind = "EffectObserved"
        BY <1>1, <1>6
      <4>2. PICK i \in 1..Len(log) : log'[i].kind = "ActionStarted" /\ log'[i].arg = e.arg
        BY <1>1, <1>2, <4>1 DEF LogInv, Orderly
      <4> QED BY <1>1, <4>2 DEF Started, ArgsOf
    <3>2. e.arg \notin Observed(log)
      <4> SUFFICES ASSUME NEW i \in 1..Len(log), log[i].kind = "EffectObserved",
                          log[i].arg = e.arg
                   PROVE  FALSE
        BY DEF Observed, ArgsOf
      <4>1. i \in 1..Len(log') /\ Len(log) + 1 \in 1..Len(log') /\ i # Len(log) + 1
        BY <1>1
      <4>2. log'[i] = log[i] /\ log'[Len(log) + 1] = e
        BY <1>1
      <4> QED BY <1>2, <1>6, <4>1, <4>2 DEF LogInv, Orderly
    <3> QED BY <1>4, <1>6, <3>1, <3>2 DEF Orphans, Started, Observed, Unknown
  <2>3. StateOf(log) = "RUNNING"
    BY <1>2, <2>2 DEF LogInv
  <2>4. Ledger!Observe(e.arg)
    BY <1>t, <1>a, <1>3, <1>4, <1>6, <2>2, <2>3
       DEF Ledger!Observe, Ledger!Pending, Unknown, StateOf
  <2> QED BY <2>1, <2>4 DEF Ledger!Next
<1>7. CASE e.kind = "EffectUnknown"
  <2>1. e.arg \in Action
    BY <1>7 DEF LogEvent, PlainKind
  <2>2. e.arg \in Orphans(log)
    BY <1>7 DEF Written, Allowed
  <2>3. StateOf(log) = "RUNNING"
    BY <1>2, <2>2 DEF LogInv
  <2>4. Ledger!MarkUnknown(e.arg)
    BY <1>t, <1>a, <1>3, <1>7, <2>2, <2>3
       DEF Ledger!MarkUnknown, Ledger!Pending, StateOf
  <2> QED BY <2>1, <2>4 DEF Ledger!Next
<1>8. CASE e.kind = "VerificationCompleted"
  <2>1. e.arg \in {"PASS", "NOT_PASS"}
    BY <1>8 DEF LogEvent, PlainKind
  <2>2. StateOf(log) = "VERIFYING" /\ Verdict(log) = "none"
    BY <1>8 DEF Written, Allowed
  <2>3. Ledger!Verify(e.arg)
    BY <1>t, <1>1, <1>8, <2>2 DEF Ledger!Verify, StateOf, Verdict
  <2> QED BY <2>1, <2>3 DEF Ledger!Next, Ledger!Verdict
<1>9. CASE e.kind = "TaskStateChanged"
  <2>1. e.arg \in TaskState
    BY <1>9 DEF LogEvent, PlainKind
  <2>2. /\ LegalTransition(StateOf(log), e.arg)
        /\ Orphans(log) = {}
        /\ (Unknown(log) # {}) = (e.arg = "RECONCILING")
        /\ e.arg = "REVIEW_READY" => Verdict(log) = "PASS"
        /\ StateOf(log) = "VERIFYING" => Verdict(log) # "none"
        /\ StateOf(log) \notin QuiescentStates \cup {"RECONCILING"}
    BY <1>9 DEF Written, Allowed
  <2>4. Ledger!Pending = {}
    BY <1>3, <2>2 DEF Ledger!Pending
  <2>5. Ledger!Move(e.arg)
    BY <1>t, <1>a, <1>9, <2>2, <2>4, LedgerStates DEF Ledger!Move, Unknown, Verdict, StateOf
  <2> QED BY <2>1, <2>5, LedgerStates DEF Ledger!Next
<1>10. CASE e.kind \notin {"ActionStarted", "EffectObserved", "EffectUnknown",
                           "VerificationCompleted", "TaskStateChanged"}
  <2>1. UNCHANGED Ledger!vars
    BY <1>t, <1>1, <1>10 DEF Ledger!vars, StateOf
  <2> QED BY <2>1
<1> QED
  BY <1>5, <1>6, <1>7, <1>8, <1>9, <1>10

\* A tool that runs is one the ledger lets run: its start is on record, its
\* receipt is not, and no verdict was reached.
LEMMA ExecuteRuns ==
  ASSUME KernelInv, NEW w \in Worker, Execute(w)
  PROVE  [Ledger!Next]_(Ledger!vars)
<1>1. /\ pc[w] = "submit" /\ log' = log /\ WorkInv(w) /\ WorkerInv(w)
      /\ work[w] \in Seq(Intent) /\ log \in Seq(LogEvent)
  BY DEF KernelInv, Inv, TypeInv, Execute
<1>2. pos[w] \in 1..Len(work[w])
  BY <1>1 DEF WorkInv, IntentPoints
<1> DEFINE a == work[w][pos[w]].action
<1>3. ran' = ran \/ ran' = ran \cup {a}
  <2>1. PICK granted \in BOOLEAN :
          ran' = IF granted
                 THEN ran \cup {[work[w] EXCEPT ![pos[w]].granted = granted][pos[w]].action}
                 ELSE ran
    BY DEF Execute
  <2>2. [work[w] EXCEPT ![pos[w]].granted = granted][pos[w]].action = a
    <3>1. [work[w] EXCEPT ![pos[w]].granted = granted][pos[w]] =
            [work[w][pos[w]] EXCEPT !.granted = granted]
      BY <1>1, <1>2
    <3> QED BY <1>1, <1>2, <3>1, IntentAt, IntentGranted
  <2> QED BY <2>1, <2>2
<1>4. a \in Action
  BY <1>1, <1>2, IntentAt
<1>5. a \in Started /\ a \notin Observed(log)
  BY <1>1, <1>2 DEF WorkerInv, IntentInv
<1>6. Verdict(log) = "none"
  <2>1. a \in Orphans(log) \/ Unknown(log) # {}
    BY <1>5 DEF Orphans, Started, Observed, Unknown
  <2> QED BY <2>1 DEF KernelInv, LogInv
<1> HIDE DEF a
<1>7. CASE ran' = ran
  BY <1>1, <1>7 DEF Ledger!vars
<1>8. CASE ran' = ran \cup {a}
  <2>1. Ledger!Run(a)
    BY <1>1, <1>5, <1>6, <1>8 DEF Ledger!Run, Started, Observed, Verdict
  <2> QED BY <1>4, <2>1 DEF Ledger!Next
<1> QED
  BY <1>3, <1>7, <1>8

\* Every step of the kernel is one of the ledger, or none of its business.
LEMMA LedgerSteps ==
  ASSUME KernelInv, KernelInv', [Next]_vars
  PROVE  [Ledger!Next]_(Ledger!vars)
<1>1. CASE log' = log /\ ran' = ran
  BY <1>1 DEF Ledger!vars
<1>2. CASE \E e \in LogEvent : Written(e)
  BY <1>2, WrittenStep
<1>3. CASE UNCHANGED vars
  BY <1>1, <1>3 DEF vars
<1>4. CASE Next
  <2>1. PICK w \in Worker : LoadEvents(w) \/ Proceed(w) \/ Crash(w)
    BY <1>4 DEF Next
  <2>2. CASE \/ LoadEvents(w) \/ Crash(w) \/ LoadCheckpoint(w) \/ SaveReplay(w)
             \/ ReturnAtOnce(w) \/ Resume(w) \/ SavePreflight(w) \/ ReadGate(w)
             \/ SaveTurn(w) \/ SaveFinal(w) \/ Conflict(w)
    BY <1>1, <2>2 DEF LoadEvents, Crash, LoadCheckpoint, SaveReplay, ReturnAtOnce,
                      Resume, SavePreflight, ReadGate, SaveTurn, SaveFinal, Conflict, Save
  <2>3. CASE Execute(w)
    BY <2>3, ExecuteRuns
  <2> QED BY <1>2, <2>1, <2>2, <2>3, WrittenEvents, WrittenStates, WrittenMarks
          DEF Proceed
<1> QED
  BY <1>3, <1>4

\* An empty log is the beginning of the ledger.
LEMMA LedgerBegins == Init => Ledger!Init
<1> SUFFICES ASSUME Init PROVE Ledger!Init
  OBVIOUS
<1>1. log = <<>> /\ ran = {}
  BY DEF Init
<1>2. Len(log) = 0
  BY <1>1
<1>3. (\A kind : ArgsOf(log, kind) = {}) /\ \A kind, d : LastArg(log, kind, d) = d
  BY <1>2 DEF ArgsOf, LastArg
<1> QED
  BY <1>1, <1>3 DEF Ledger!Init, StateOf

\* Every step of every worker, crashes and lost races included, is a step of
\* the ledger or invisible to it: what TaskLedger promises of a task (the
\* write-ahead rule, one verdict on a settled task, REVIEW_READY only from a
\* PASS, no receipt after an UNKNOWN mark, the action budget) the kernel keeps
\* (focus-kernel.ts:44-240), for any number of workers, restarts and actions,
\* when the model does not repeat an identity.
THEOREM LedgerImplemented ==
  ASSUME ReuseIds = FALSE
  PROVE  Spec => ImplementsLedger
<1>1. KernelInv /\ KernelInv' /\ [Next]_vars => [Ledger!Next]_(Ledger!vars)
  BY LedgerSteps
<1> QED
  BY <1>1, LedgerBegins, KernelInvHolds, PTL DEF Spec, ImplementsLedger, Ledger!Spec

-----------------------------------------------------------------------------
(* The turn budget, when one worker at a time drives the task. *)

\* The turn the next call of run() starts from.
BaseTurn == IF checkpoint = NoCheckpoint THEN 0 ELSE checkpoint.turn

\* The points between the start of run(), or a save, and the start of a turn.
BetweenTurns ==
  { "markOrphan", "saveReplay", "resume", "blockOrphans", "toReconciling", "create",
    "toPreflight", "baseline", "toReady", "savePreflight", "toRunning", "turn" }

\* What a call of run() may have added to the log: a turn at most that no
\* checkpoint counts.
BudgetInv(w) ==
  /\ checkpoint # NoCheckpoint => checkpoint.version <= Len(log) /\ checkpoint.turn <= MaxTurns
  /\ pc[w] = "idle" => Turns <= BaseTurn + runs /\ TurnOverrunBounded
  /\ pc[w] # "idle" => runs >= 1
  /\ pc[w] = "loadCheckpoint" =>
       /\ Turns <= BaseTurn + (runs - 1)
       /\ seen[w] = Len(log)
  /\ pc[w] \notin Away =>
       /\ Turns <= ck[w].turn + (runs - 1)
       /\ ck[w].version <= Len(log) /\ ck[w].turn <= MaxTurns
       /\ ck[w].turn \in {BaseTurn, BaseTurn + 1}
       /\ pc[w] \in BetweenTurns => ck[w].turn = BaseTurn

TurnsInv == Inv /\ \A w \in Worker : BudgetInv(w)

\* The turns of a log are finitely many.
LEMMA TurnsType ==
  ASSUME log \in Seq(LogEvent)
  PROVE  /\ IsFiniteSet({i \in 1..Len(log) : log[i].kind = "TurnStarted"})
         /\ Turns \in Nat
<1>1. IsFiniteSet(1..Len(log))
  <2>1. 1 \in Int /\ Len(log) \in Int
    OBVIOUS
  <2> QED BY <2>1, FS_Interval
<1>2. {i \in 1..Len(log) : log[i].kind = "TurnStarted"} \subseteq 1..Len(log)
  OBVIOUS
<1>3. IsFiniteSet({i \in 1..Len(log) : log[i].kind = "TurnStarted"})
  BY <1>1, <1>2, FS_Subset
<1> DEFINE at == {i \in 1..Len(log) : log[i].kind = "TurnStarted"}
<1>4. Turns = Cardinality(at) /\ IsFiniteSet(at)
  BY <1>3 DEF Turns
<1> HIDE DEF at
<1>5. Turns \in Nat
  BY <1>4, FS_CardinalityType
<1> QED
  BY <1>3, <1>5

\* The number of turns grows with the events that start one.
LEMMA TurnsGrow ==
  ASSUME log \in Seq(LogEvent), NEW e \in LogEvent, log' = Append(log, e)
  PROVE  Turns \in Nat /\ Turns' = Turns + (IF e.kind = "TurnStarted" THEN 1 ELSE 0)
<1> DEFINE at == {i \in 1..Len(log) : log[i].kind = "TurnStarted"}
           atNext == {i \in 1..Len(log') : log'[i].kind = "TurnStarted"}
<1>1. /\ Len(log) \in Nat /\ Len(log') = Len(log) + 1 /\ log'[Len(log) + 1] = e
      /\ \A i \in 1..Len(log) : log'[i] = log[i]
  OBVIOUS
<1>2. IsFiniteSet(at)
  BY TurnsType
<1>3. Turns = Cardinality(at) /\ Turns' = Cardinality(atNext) /\ Turns \in Nat
  BY <1>2, FS_CardinalityType DEF Turns
<1>4. CASE e.kind = "TurnStarted"
  <2>1. atNext = at \cup {Len(log) + 1} /\ Len(log) + 1 \notin at
    BY <1>1, <1>4
  <2> QED BY <1>2, <1>3, <1>4, <2>1, FS_AddElement
<1>5. CASE e.kind # "TurnStarted"
  <2>1. atNext = at
    BY <1>1, <1>5
  <2>2. Turns' = Turns
    BY <1>3, <2>1
  <2> HIDE DEF at, atNext
  <2> QED BY <1>3, <1>5, <2>2
<1> QED
  BY <1>4, <1>5

\* The types the arithmetic of this section needs.
LEMMA TurnTypes ==
  ASSUME Inv, NEW w \in Worker
  PROVE  /\ TypeInv /\ log \in Seq(LogEvent) /\ Len(log) \in Nat /\ Turns \in Nat
         /\ runs \in Nat /\ MaxTurns \in Nat /\ BaseTurn \in Nat
         /\ ck[w] \in Checkpoint /\ ck[w].turn \in Nat /\ ck[w].version \in Nat
         /\ checkpoint # NoCheckpoint => checkpoint \in Checkpoint /\ checkpoint.version \in Nat
<1>1. TypeInv /\ log \in Seq(LogEvent) /\ ck[w] \in Checkpoint
      /\ (checkpoint # NoCheckpoint => checkpoint \in Checkpoint)
  BY DEF Inv, TypeInv
<1>2. runs \in Nat /\ MaxTurns \in Nat /\ Len(log) \in Nat
  BY <1>1, KernelAssumption DEF TypeInv
<1>3. BaseTurn \in Nat
  BY <1>1 DEF BaseTurn, Checkpoint
<1> QED
  BY <1>1, <1>2, <1>3, TurnsType DEF Checkpoint

\* An append that starts no turn.
LEMMA BudgetAppend ==
  ASSUME Inv, NEW w \in Worker, BudgetInv(w), pc[w] \notin Away,
         NEW e \in LogEvent, NEW c \in Checkpoint, Commit(w, e, c),
         e.kind # "TurnStarted", c.turn = ck[w].turn,
         pc'[w] \notin Away, pc'[w] \in BetweenTurns => pc[w] \in BetweenTurns
  PROVE  BudgetInv(w)'
<1>t. /\ TypeInv /\ log \in Seq(LogEvent) /\ Len(log) \in Nat /\ Turns \in Nat
      /\ runs \in Nat /\ BaseTurn \in Nat /\ ck[w].turn \in Nat
      /\ checkpoint # NoCheckpoint => checkpoint.version \in Nat
  BY TurnTypes
<1>1. /\ log' = Append(log, e) /\ Len(log') = Len(log) + 1 /\ Turns' = Turns
      /\ checkpoint' = checkpoint /\ runs' = runs /\ BaseTurn' = BaseTurn
  BY <1>t, TurnsGrow DEF Commit, BaseTurn
<1>2. ck'[w].turn = ck[w].turn /\ ck'[w].version = Len(log')
  <2>1. ck'[w] = [c EXCEPT !.version = Len(log) + 1]
    BY <1>t DEF Commit, TypeInv
  <2> QED BY <1>1, <2>1 DEF Checkpoint
<1> QED
  BY <1>t, <1>1, <1>2 DEF BudgetInv, Away

\* A step that appends and saves nothing.
LEMMA BudgetLocal ==
  ASSUME Inv, NEW w \in Worker, BudgetInv(w), pc[w] \notin Away,
         UNCHANGED <<log, checkpoint, runs>>,
         ck'[w].turn = ck[w].turn, ck'[w].version = ck[w].version,
         pc'[w] \notin Away, pc'[w] \in BetweenTurns => pc[w] \in BetweenTurns
  PROVE  BudgetInv(w)'
<1>1. Turns' = Turns /\ BaseTurn' = BaseTurn
  BY DEF Turns, BaseTurn
<1> QED
  BY <1>1 DEF BudgetInv, Away

\* A save: the turns of the checkpoint are the worker's.
LEMMA BudgetSave ==
  ASSUME Inv, NEW w \in Worker, BudgetInv(w), pc[w] \notin Away,
         Save(w), UNCHANGED ck, pc'[w] \notin Away
  PROVE  BudgetInv(w)'
<1>t. ck[w] # NoCheckpoint
  BY KernelAssumption DEF Inv, TypeInv
<1>1. Turns' = Turns /\ BaseTurn' = ck[w].turn /\ checkpoint' = ck[w]
      /\ log' = log /\ runs' = runs /\ ck' = ck
  BY <1>t DEF Turns, BaseTurn, Save
<1> QED
  BY <1>1 DEF BudgetInv, Away

\* run() is left, with its last turn saved or not.
LEMMA BudgetLeave ==
  ASSUME Inv, NEW w \in Worker, BudgetInv(w), pc[w] # "idle",
         \/ checkpoint' = checkpoint
         \/ checkpoint' = ck[w] /\ pc[w] \notin Away,
         Leave(w), UNCHANGED <<log, runs>>
  PROVE  BudgetInv(w)'
<1>t. /\ TypeInv /\ Turns \in Nat /\ MaxTurns \in Nat
      /\ runs \in Nat /\ BaseTurn \in Nat /\ ck[w].turn \in Nat
      /\ ck[w] # NoCheckpoint
  BY TurnTypes, KernelAssumption
<1>1. pc'[w] = "idle" /\ Turns' = Turns /\ runs' = runs /\ log' = log
  BY <1>t DEF Leave, Goto, TypeInv, Turns
<1>2. runs >= 1
  BY DEF BudgetInv
<1>3. checkpoint' # NoCheckpoint => checkpoint'.version <= Len(log) /\ checkpoint'.turn <= MaxTurns
  BY DEF BudgetInv
<1>4. BaseTurn \in 0..MaxTurns
  BY <1>t, KernelAssumption DEF BudgetInv, BaseTurn
<1>5. Turns <= BaseTurn' + runs /\ Turns <= MaxTurns + (runs - 1)
  <2>1. CASE pc[w] = "loadCheckpoint"
    <3>1. Turns <= BaseTurn + (runs - 1) /\ BaseTurn' = BaseTurn
      BY <2>1 DEF BudgetInv, BaseTurn, Away
    <3> QED BY <1>t, <1>4, <3>1
  <2>2. CASE pc[w] # "loadCheckpoint"
    <3>1. /\ Turns <= ck[w].turn + (runs - 1) /\ ck[w].turn <= MaxTurns
          /\ ck[w].turn \in {BaseTurn, BaseTurn + 1}
      BY <2>2 DEF BudgetInv, Away
    <3>2. BaseTurn' = BaseTurn \/ BaseTurn' = ck[w].turn
      BY <1>t DEF BaseTurn
    <3> QED BY <1>t, <3>1, <3>2
  <2> QED BY <2>1, <2>2
<1>6. TurnOverrunBounded'
  BY <1>t, <1>1, <1>2, <1>5 DEF TurnOverrunBounded
<1> QED
  BY <1>1, <1>3, <1>5, <1>6 DEF BudgetInv, Away

\* The moves of run() that lead between turns only from there.
Onward(from, next) ==
  from \notin Away /\ next \notin Away /\ (next \in BetweenTurns => from \in BetweenTurns)

\* The appends of run(), and where control goes from them.
LEMMA BudgetAppends ==
  ASSUME TurnsInv, NEW w \in Worker,
         \/ MarkOrphan(w) \/ BlockOrphans(w) \/ Create(w) \/ Block(w) \/ Respond(w)
         \/ Delegate(w) \/ Request(w) \/ RecordGrant(w) \/ Propose(w) \/ ExhaustBudget(w)
         \/ RejectDecision(w) \/ AcceptDecision(w) \/ AcceptIntents(w) \/ Baseline(w)
         \/ RevisePlan(w) \/ StartAction(w) \/ RecordEffect(w) \/ Verify(w)
  PROVE  BudgetInv(w)'
<1>t. /\ Inv /\ TypeInv /\ WorkInv(w) /\ BudgetInv(w) /\ ck[w] \in Checkpoint
      /\ work[w] \in Seq(Intent) /\ ck[w].turn \in Nat
  BY DEF TurnsInv, Inv, TypeInv, Checkpoint
<1>1. ASSUME NEW kind \in EventKind \ {"TurnStarted"}, NEW arg, Event(kind, arg) \in LogEvent,
             NEW c \in Checkpoint, c.turn = ck[w].turn, Commit(w, Event(kind, arg), c),
             pc[w] \notin Away, NEW next, Goto(w, next), next \notin Away,
             next \in BetweenTurns => pc[w] \in BetweenTurns
      PROVE  BudgetInv(w)'
  <2>1. pc'[w] = next
    BY <1>t, <1>1 DEF TypeInv, Goto
  <2> QED BY <1>t, <1>1, <2>1, BudgetAppend DEF Event
<1>2. \A kind \in PlainKind : Event(kind, "") \in LogEvent /\ kind \in EventKind
  BY Events DEF PlainKind
<1>3. {"TaskBlocked", "TaskCreated", "ResponseProduced", "DelegationRejected",
       "ActionRequested", "GrantIssued", "CompletionCandidateProposed",
       "ModelDecisionRejected", "ModelDecisionAccepted", "PreflightCompleted"}
        \subseteq PlainKind \ {"TurnStarted"}
  BY DEF PlainKind, EventKind
<1>4. ASSUME NEW from, NEW kind \in PlainKind \ {"TurnStarted"}, NEW next,
             Step(w, from, Event(kind, ""), next), Onward(from, next)
      PROVE  BudgetInv(w)'
  BY <1>t, <1>1, <1>2, <1>4 DEF Step, Onward
<1>o. /\ Onward("blockOrphans", "toReconciling") /\ Onward("create", "toPreflight")
      /\ Onward("block", "toBlocked") /\ Onward("respond", "toWaiting")
      /\ Onward("delegate", "block") /\ Onward("request", "start")
      /\ Onward("grant", "observe") /\ Onward("candidate", "toVerifying")
  BY DEF Onward, Away, BetweenTurns
<1>5. CASE MarkOrphan(w)
  <2>1. PICK a \in orphans[w] :
          /\ Commit(w, Event("EffectUnknown", a), ck[w])
          /\ Goto(w, IF orphans[w] = {a} THEN "saveReplay" ELSE "markOrphan")
    BY <1>5 DEF MarkOrphan
  <2>2. a \in Action /\ pc[w] = "markOrphan" /\ "EffectUnknown" \in EventKind
    BY <1>t, <1>5 DEF TypeInv, MarkOrphan, EventKind
  <2>3. Event("EffectUnknown", a) \in LogEvent
    BY <2>2, Events
  <2> QED BY <1>t, <1>1, <2>1, <2>2, <2>3 DEF Away, BetweenTurns
<1>6. CASE BlockOrphans(w)
  BY <1>o, <1>3, <1>4, <1>6 DEF BlockOrphans
<1>7. CASE Create(w)
  BY <1>o, <1>3, <1>4, <1>7 DEF Create
<1>8. CASE Block(w)
  BY <1>o, <1>3, <1>4, <1>8 DEF Block
<1>9. CASE Respond(w)
  BY <1>o, <1>3, <1>4, <1>9 DEF Respond
<1>10. CASE Delegate(w)
  BY <1>o, <1>3, <1>4, <1>10 DEF Delegate
<1>11. CASE Request(w)
  BY <1>o, <1>3, <1>4, <1>11 DEF Request
<1>12. CASE RecordGrant(w)
  BY <1>o, <1>3, <1>4, <1>12 DEF RecordGrant
<1>13. CASE Propose(w)
  BY <1>o, <1>3, <1>4, <1>13 DEF Propose
<1>14. CASE ExhaustBudget(w)
  BY <1>t, <1>1, <1>2, <1>3, <1>14 DEF ExhaustBudget, Away, BetweenTurns
<1>15. CASE RejectDecision(w)
  BY <1>t, <1>1, <1>2, <1>3, <1>15 DEF RejectDecision, Away, BetweenTurns
<1>16. CASE AcceptDecision(w)
  BY <1>t, <1>1, <1>2, <1>3, <1>16 DEF AcceptDecision, DecisionPoint, Away, BetweenTurns
<1>17. CASE AcceptIntents(w)
  <2>1. PICK next \in {"block", "request"} : Goto(w, next)
    BY <1>17 DEF AcceptIntents
  <2> QED BY <1>t, <1>1, <1>2, <1>3, <1>17, <2>1 DEF AcceptIntents, Away, BetweenTurns
<1>18. CASE Baseline(w)
  <2>1. [ck[w] EXCEPT !.baseline = TRUE] \in Checkpoint
        /\ [ck[w] EXCEPT !.baseline = TRUE].turn = ck[w].turn
    BY <1>t DEF Checkpoint
  <2> QED BY <1>t, <1>1, <1>2, <1>3, <1>18, <2>1 DEF Baseline, Away, BetweenTurns
<1>19. CASE RevisePlan(w)
  <2>1. [ck[w] EXCEPT !.plan = ck[w].turn] \in Checkpoint
        /\ [ck[w] EXCEPT !.plan = ck[w].turn].turn = ck[w].turn
    BY <1>t DEF Checkpoint
  <2>2. Event("PublicPlanRevised", ck[w].turn) \in LogEvent
        /\ "PublicPlanRevised" \in EventKind \ {"TurnStarted"}
    BY <1>t, Events DEF EventKind
  <2> QED BY <1>1, <1>19, <2>1, <2>2 DEF RevisePlan, Away, BetweenTurns
<1>20. CASE StartAction(w) \/ RecordEffect(w)
  <2> DEFINE a == work[w][pos[w]].action
  <2>1. pos[w] \in 1..Len(work[w])
    BY <1>t, <1>20 DEF WorkInv, StartAction, RecordEffect, IntentPoints
  <2>2. a \in Action
    BY <1>t, <2>1, IntentAt
  <2>3. PICK kind \in {"ActionStarted", "EffectObserved"} : Commit(w, Event(kind, a), ck[w])
    BY <1>20 DEF StartAction, RecordEffect
  <2>4. /\ Event(kind, a) \in LogEvent /\ Event(kind, a).kind = kind
        /\ kind # "TurnStarted"
    BY <2>2, Events DEF Event
  <2>5. pc[w] \in {"start", "observe"}
    BY <1>20 DEF StartAction, RecordEffect
  <2>6. pc'[w] \in {"start", "submit", "grant", "observe", "saveTurn"}
    BY <1>t, <1>20 DEF StartAction, RecordEffect, Goto, TypeInv, ReceiptPoint
  <2> QED BY <1>t, <2>3, <2>4, <2>5, <2>6, BudgetAppend DEF Away, BetweenTurns
<1>21. CASE Verify(w)
  <2>1. PICK v \in {"PASS", "NOT_PASS"} :
          Commit(w, Event("VerificationCompleted", v), ck[w]) /\ Goto(w, VerdictPoint(v))
    BY <1>21 DEF Verify
  <2>2. Event("VerificationCompleted", v) \in LogEvent
        /\ "VerificationCompleted" \in EventKind \ {"TurnStarted"}
    BY Events DEF EventKind
  <2>3. VerdictPoint(v) \notin Away \cup BetweenTurns /\ pc[w] = "verify"
    BY <1>21 DEF VerdictPoint, Away, BetweenTurns, Verify
  <2> QED BY <1>t, <1>1, <2>1, <2>2, <2>3 DEF Away
<1> QED
  BY <1>5, <1>6, <1>7, <1>8, <1>9, <1>10, <1>11, <1>12, <1>13, <1>14, <1>15, <1>16,
     <1>17, <1>18, <1>19, <1>20, <1>21

\* The state changes.
LEMMA BudgetShifts ==
  ASSUME TurnsInv, NEW w \in Worker,
         \/ ToReconciling(w) \/ ToPreflight(w) \/ ToReady(w) \/ ToRunning(w)
         \/ ToBlocked(w) \/ ToWaiting(w) \/ ToVerifying(w) \/ Passed(w) \/ Failed(w)
  PROVE  BudgetInv(w)'
<1>t. Inv /\ TypeInv /\ BudgetInv(w) /\ ck[w] \in Checkpoint
  BY DEF TurnsInv, Inv, TypeInv
<1>1. PICK to \in TaskState, next \in Point :
        StateMove(pc[w], to, next) /\ Shift(w, pc[w], to, next)
  BY <1>t, ShiftPoints
<1>2. [ck[w] EXCEPT !.state = to] \in Checkpoint
      /\ [ck[w] EXCEPT !.state = to].turn = ck[w].turn
  BY <1>t DEF Checkpoint
<1>3. /\ Event("TaskStateChanged", to) \in LogEvent
      /\ Event("TaskStateChanged", to).kind # "TurnStarted"
  BY Events DEF Event
<1>4. pc'[w] = next
  BY <1>t, <1>1 DEF TypeInv, Shift, Goto
<1>5. /\ pc[w] \notin Away /\ next \notin Away
      /\ next \in BetweenTurns => pc[w] \in BetweenTurns
  BY <1>1 DEF StateMove, Away, BetweenTurns
<1> QED
  BY <1>t, <1>1, <1>2, <1>3, <1>4, <1>5, BudgetAppend DEF Shift, Transition

\* A turn is counted by the worker that starts it, and not yet saved.
LEMMA BudgetTurn ==
  ASSUME TurnsInv, NEW w \in Worker, StartTurn(w)
  PROVE  BudgetInv(w)'
<1>t. /\ Inv /\ TypeInv /\ BudgetInv(w) /\ log \in Seq(LogEvent) /\ Len(log) \in Nat
      /\ Turns \in Nat /\ runs \in Nat /\ MaxTurns \in Nat /\ BaseTurn \in Nat
      /\ ck[w] \in Checkpoint /\ ck[w].turn \in Nat
      /\ checkpoint # NoCheckpoint => checkpoint.version \in Nat
  BY TurnTypes DEF TurnsInv
<1> DEFINE e == Event("TurnStarted", "")
           c == [ck[w] EXCEPT !.turn = @ + 1]
<1>1. /\ pc[w] = "turn" /\ ck[w].turn < MaxTurns /\ Commit(w, e, c) /\ pc'[w] = "decide"
  BY <1>t DEF StartTurn, Goto, TypeInv
<1>2. e \in LogEvent /\ e.kind = "TurnStarted" /\ c \in Checkpoint /\ c.turn = ck[w].turn + 1
  <2>1. "TurnStarted" \in PlainKind
    BY DEF PlainKind, EventKind
  <2>2. e \in LogEvent /\ e.kind = "TurnStarted"
    BY <2>1, Events DEF Event
  <2>3. c \in Checkpoint /\ c.turn = ck[w].turn + 1
    <3>1. /\ DOMAIN ck[w] = {"state", "version", "turn", "actions", "plan", "baseline"}
          /\ ck[w].turn + 1 \in Nat
      BY <1>t DEF Checkpoint
    <3>2. [ck[w] EXCEPT !.turn = ck[w].turn + 1] \in Checkpoint
      BY <1>t, <3>1 DEF Checkpoint
    <3> QED BY <3>1, <3>2
  <2> QED BY <2>2, <2>3
<1> HIDE DEF e, c
<1>3. /\ log' = Append(log, e) /\ Len(log') = Len(log) + 1 /\ Turns' = Turns + 1
      /\ checkpoint' = checkpoint /\ runs' = runs /\ BaseTurn' = BaseTurn
  BY <1>t, <1>1, <1>2, TurnsGrow DEF Commit, BaseTurn
<1>4. ck'[w].turn = ck[w].turn + 1 /\ ck'[w].version = Len(log')
  <2>1. ck'[w] = [c EXCEPT !.version = Len(log) + 1]
    BY <1>t, <1>1 DEF Commit, TypeInv
  <2> QED BY <1>2, <1>3, <2>1 DEF Checkpoint
<1>5. ck[w].turn = BaseTurn /\ Turns <= ck[w].turn + (runs - 1) /\ runs >= 1
      /\ (checkpoint # NoCheckpoint =>
             checkpoint.version <= Len(log) /\ checkpoint.turn <= MaxTurns)
  BY <1>t, <1>1 DEF BudgetInv, Away, BetweenTurns
<1> QED
  BY <1>t, <1>1, <1>3, <1>4, <1>5 DEF BudgetInv, Away, BetweenTurns

\* The steps between appends.
LEMMA BudgetQuiet ==
  ASSUME TurnsInv, NEW w \in Worker,
         \/ Resume(w) \/ ReadGate(w) \/ Execute(w)
         \/ SaveReplay(w) \/ SavePreflight(w) \/ SaveTurn(w)
         \/ ReturnAtOnce(w) \/ SaveFinal(w) \/ Conflict(w) \/ Crash(w)
  PROVE  BudgetInv(w)'
<1>t. Inv /\ TypeInv /\ BudgetInv(w) /\ ck[w] \in Checkpoint
  BY DEF TurnsInv, Inv, TypeInv
<1>1. CASE Resume(w) \/ ReadGate(w)
  <2>1. /\ UNCHANGED <<log, checkpoint, runs, ck>>
        /\ pc[w] \in {"resume", "gate"}
    BY <1>1 DEF Resume, ReadGate
  <2>2. \/ pc[w] = "resume" /\ pc'[w] \notin Away
        \/ pc'[w] \in {"verify", "passed", "failed"}
    BY <1>t, <1>1 DEF TypeInv, Resume, ReadGate, Goto, VerdictPoint, Away
  <2> QED BY <1>t, <2>1, <2>2, BudgetLocal DEF Away, BetweenTurns
<1>2. CASE Execute(w)
  <2>1. /\ UNCHANGED <<log, checkpoint, runs>> /\ pc[w] = "submit"
        /\ pc'[w] \in {"submit", "grant", "observe"}
    BY <1>t, <1>2 DEF Execute, Goto, ReceiptPoint, TypeInv
  <2>2. ck'[w].turn = ck[w].turn /\ ck'[w].version = ck[w].version
    <3>1. ck' = ck \/ \E n : ck' = [ck EXCEPT ![w].actions = n]
      BY <1>2 DEF Execute
    <3>2. ck'[w] = ck[w] \/ \E n : ck'[w] = [ck[w] EXCEPT !.actions = n]
      BY <1>t, <3>1 DEF TypeInv
    <3> QED BY <1>t, <3>2 DEF Checkpoint
  <2> QED BY <1>t, <2>1, <2>2, BudgetLocal DEF Away, BetweenTurns
<1>3. CASE SaveReplay(w) \/ SavePreflight(w) \/ SaveTurn(w)
  <2>1. Save(w) /\ UNCHANGED ck /\ pc[w] \notin Away /\ pc'[w] \notin Away
    BY <1>t, <1>3 DEF TypeInv, SaveReplay, SavePreflight, SaveTurn, Goto, Away
  <2> QED BY <1>t, <2>1, BudgetSave
<1>4. CASE ReturnAtOnce(w) \/ Conflict(w) \/ Crash(w)
  <2>1. /\ pc[w] # "idle" /\ Leave(w) /\ UNCHANGED <<log, runs>> /\ checkpoint' = checkpoint
    BY <1>4 DEF ReturnAtOnce, Conflict, Crash, AppendPoints
  <2>2. pc[w] \notin Away \/ pc[w] = "loadCheckpoint"
    BY <2>1 DEF Away
  <2> QED BY <1>t, <2>1, <2>2, BudgetLeave
<1>5. CASE SaveFinal(w)
  <2>1. /\ pc[w] # "idle" /\ pc[w] \notin Away /\ Leave(w) /\ UNCHANGED <<log, runs>>
        /\ checkpoint' = ck[w]
    BY <1>5 DEF SaveFinal, Save, Away
  <2> QED BY <1>t, <2>1, BudgetLeave
<1> QED
  BY <1>1, <1>2, <1>3, <1>4, <1>5

\* The log and the turns of the only worker.
LEMMA BudgetNext ==
  ASSUME NEW w \in Worker, Worker = {w}, TurnsInv, [Next]_vars
  PROVE  TurnsInv'
<1>1. Inv' /\ Inv /\ BudgetInv(w)
  BY NextInv DEF TurnsInv
<1>t. /\ TypeInv /\ Turns \in Nat /\ runs \in Nat /\ BaseTurn \in Nat
      /\ Len(log) \in Nat /\ seen[w] \in Nat
      /\ checkpoint # NoCheckpoint => checkpoint \in Checkpoint /\ checkpoint.version \in Nat
  BY <1>1, TurnTypes DEF TypeInv
<1>2. CASE UNCHANGED vars
  <2>1. Turns' = Turns /\ BaseTurn' = BaseTurn
    BY <1>2 DEF vars, Turns, BaseTurn
  <2>2. BudgetInv(w)'
    BY <1>1, <1>2, <2>1 DEF vars, BudgetInv, TurnOverrunBounded
  <2> QED BY <1>1, <2>2 DEF TurnsInv
<1>3. CASE LoadEvents(w)
  <2>1. /\ pc[w] = "idle" /\ pc'[w] = "loadCheckpoint" /\ runs' = runs + 1
        /\ seen'[w] = Len(log) /\ log' = log /\ checkpoint' = checkpoint
    BY <1>t, <1>3 DEF LoadEvents, Goto, TypeInv
  <2>2. Turns' = Turns /\ BaseTurn' = BaseTurn
    BY <2>1 DEF Turns, BaseTurn
  <2> QED BY <1>1, <1>t, <2>1, <2>2 DEF BudgetInv, Away, TurnsInv
<1>4. CASE LoadCheckpoint(w)
  <2> DEFINE events == SubSeq(log, 1, seen[w])
             base == IF checkpoint = NoCheckpoint THEN NewCheckpoint
                     ELSE IF checkpoint.version > seen[w] THEN NewCheckpoint
                     ELSE checkpoint
  <2>1. /\ pc[w] = "loadCheckpoint" /\ ck'[w] = Replay(base, events)
        /\ pc'[w] \in {"markOrphan", "saveReplay", "resume"}
        /\ log' = log /\ checkpoint' = checkpoint /\ runs' = runs
    BY <1>t, <1>4 DEF LoadCheckpoint, Goto, TypeInv
  <2>2. Turns' = Turns /\ BaseTurn' = BaseTurn
    BY <2>1 DEF Turns, BaseTurn
  <2>3. /\ Turns <= BaseTurn + (runs - 1) /\ seen[w] = Len(log) /\ runs >= 1
        /\ checkpoint # NoCheckpoint =>
             checkpoint.version <= Len(log) /\ checkpoint.turn <= MaxTurns
    BY <1>1, <2>1 DEF BudgetInv
  <2>4. base.turn = BaseTurn
    BY <1>t, <2>3 DEF BaseTurn, NewCheckpoint
  <2>5. Len(events) = Len(log)
    BY <1>t, <2>3 DEF TypeInv
  <2> HIDE DEF base, events
  <2>6. ck'[w].turn = BaseTurn /\ ck'[w].version = Len(log)
    BY <2>1, <2>4, <2>5 DEF Replay
  <2>7. BaseTurn <= MaxTurns
    BY <2>3, KernelAssumption DEF BaseTurn
  <2>8. BudgetInv(w)'
    BY <1>t, <2>1, <2>2, <2>3, <2>6, <2>7 DEF BudgetInv, Away, BetweenTurns
  <2> QED BY <1>1, <2>8 DEF TurnsInv
<1>5. CASE Next
  <2>1. LoadEvents(w) \/ Proceed(w) \/ Crash(w)
    BY <1>5 DEF Next
  <2>2. CASE LoadEvents(w) \/ LoadCheckpoint(w)
    BY <1>3, <1>4, <2>2
  <2>3. CASE (Proceed(w) /\ ~ LoadCheckpoint(w)) \/ Crash(w)
    <3>1. BudgetInv(w)'
      BY <2>3, BudgetAppends, BudgetShifts, BudgetTurn, BudgetQuiet DEF Proceed
    <3> QED BY <1>1, <3>1 DEF TurnsInv
  <2> QED BY <2>1, <2>2, <2>3
<1> QED
  BY <1>2, <1>5

\* The invariant of the budget holds of a task that was not run yet.
LEMMA BudgetInit == Init => TurnsInv
<1> SUFFICES ASSUME Init PROVE TurnsInv
  OBVIOUS
<1>1. Inv
  BY InitInv
<1>2. 1..Len(log) = {} /\ runs = 0 /\ checkpoint = NoCheckpoint
  BY DEF Init
<1>3. {i \in 1..Len(log) : log[i].kind = "TurnStarted"} = {}
  BY <1>2
<1>4. Turns = 0 /\ BaseTurn = 0
  BY <1>2, <1>3, FS_EmptySet DEF Turns, BaseTurn
<1>5. \A w \in Worker : pc[w] = "idle"
  BY DEF Init
<1> QED
  BY <1>1, <1>2, <1>4, <1>5, KernelAssumption
     DEF TurnsInv, BudgetInv, Away, TurnOverrunBounded

\* When one worker at a time drives the task, each restart costs the turn budget
\* at most the turn whose checkpoint was not saved: no more than maxTurns turns,
\* and one for each call of run() after the first, are ever started
\* (focus-kernel.ts:141-165, TurnStarted is not replayed).  For any budget and
\* any number of restarts, whether or not the model repeats an identity.
THEOREM TurnBudgetHolds ==
  ASSUME NEW w, Worker = {w}
  PROVE  Spec => []TurnOverrunBounded
<1>1. w \in Worker
  OBVIOUS
<1>2. TurnsInv /\ [Next]_vars => TurnsInv'
  BY <1>1, BudgetNext
<1>3. TurnsInv => TurnOverrunBounded
  <2> SUFFICES ASSUME TurnsInv PROVE TurnOverrunBounded
    OBVIOUS
  <2>1. Inv /\ BudgetInv(w)
    BY <1>1 DEF TurnsInv
  <2>t. /\ Turns \in Nat /\ MaxTurns \in Nat /\ runs \in Nat
        /\ BaseTurn \in Nat /\ ck[w].turn \in Nat
    BY <1>1, <2>1, TurnTypes
  <2>2. BaseTurn <= MaxTurns
    BY <2>1, <2>t DEF BudgetInv, BaseTurn
  <2> QED BY <2>1, <2>t, <2>2 DEF BudgetInv, Away, TurnOverrunBounded
<1> QED
  BY <1>2, <1>3, BudgetInit, PTL DEF Spec
=============================================================================
