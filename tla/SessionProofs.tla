---------------------------- MODULE SessionProofs -----------------------------
(***************************************************************************)
(* Theorems about what a user must not lose, for any agents, sessions,     *)
(* messages and texts: a request carries the branch it continues, all of   *)
(* it and nothing else, a copy that ended untouched is the branch it was   *)
(* made of; and what a key changes in the editor can be taken back.        *)
(*                                                                         *)
(* TreesInv says for each agent how far it is: what it has loaded is the   *)
(* beginning of its session, a compaction it holds is of the branch it was *)
(* compiled from, and a copy in the making is the beginning of the branch. *)
(*                                                                         *)
(* Of the editor each method is shown to be Good: it leaves a buffer, and  *)
(* records the one before if it changed its text.  Each kill is shown to   *)
(* have Took: yanked where the cursor is left, the text is what it was.    *)
(***************************************************************************)
EXTENDS SessionTree, LineEditor,
        SequenceTheorems, FiniteSetTheorems, WellFoundedInduction, TLAPS

-----------------------------------------------------------------------------
(* Natural numbers                                                         *)

\* A set of natural numbers has a least one.
LEMMA LeastNatural ==
  ASSUME NEW T, T \subseteq Nat, T # {}
  PROVE  \E x \in T : \A y \in T : x <= y
<1> DEFINE R == OpToRel(<, Nat)
<1>1. IsWellFoundedOn(R, Nat)
  BY NatLessThanWellFounded
<1>2. \A x, y \in Nat : y < x => <<y, x>> \in R
  BY DEF OpToRel
<1> HIDE DEF R
<1>3. PICK x \in T : \A y \in T : ~(<<y, x>> \in R)
  BY <1>1, WFMin
<1>4. \A y \in T : ~(y < x)
  BY <1>2, <1>3
<1>5. \A y \in T : x <= y
  BY <1>4
<1> QED
  BY <1>5

\* A set of positions of a file has a last one.
LEMMA LastPosition ==
  ASSUME NEW n \in Nat, NEW T, T \subseteq 1..n, T # {}
  PROVE  \E x \in T : \A y \in T : y <= x
<1> DEFINE U == {n - x : x \in T}
<1>1. \A x \in T : x \in Nat /\ n - x \in Nat
  OBVIOUS
<1>2. U \subseteq Nat /\ U # {}
  BY <1>1
<1>3. PICK u \in U : \A v \in U : u <= v
  BY <1>2, LeastNatural
<1>4. PICK x \in T : u = n - x
  OBVIOUS
<1>5. \A y \in T : n - x <= n - y
  BY <1>3, <1>4
<1>6. \A y \in T : y <= x
  BY <1>1, <1>5
<1> QED
  BY <1>6

\* What holds at 0, and at each number up to n if it holds at the one before,
\* holds up to n.
LEMMA UpTo ==
  ASSUME NEW n \in Nat, NEW P, 0 \in P, \A i \in 1..n : i - 1 \in P => i \in P
  PROVE  \A i \in 0..n : i \in P
<1> DEFINE T == (0..n) \ P
<1> SUFFICES ASSUME T # {} PROVE FALSE
  OBVIOUS
<1>1. T \subseteq Nat
  OBVIOUS
<1> HIDE DEF T
<1>2. PICK x \in T : \A y \in T : x <= y
  BY <1>1, LeastNatural
<1>3. x \in 1..n /\ x \notin P
  BY <1>2 DEF T
<1>4. x - 1 \in 0..n /\ ~(x <= x - 1)
  BY <1>3
<1>5. x - 1 \in P
  BY <1>2, <1>4 DEF T
<1> QED
  BY <1>3, <1>5

-----------------------------------------------------------------------------
(* What is in the sessions: requests carry branches, copies are whole *)

\* What a session or an agent is.
TreeSummary == [upTo : Nat, covers : SUBSET TreeMessage]
TreeJob ==
  [kind : {"none", "fork", "import"}, source : Nat, target : Nat, all : Seq(TreeMessage), copied : Nat, compaction : TreeSummary]
TreePc == {"idle", "compile", "ask", "tool", "save", "saveManually", "copy", "copied"}
TreeState ==
  [sid : Nat, pc : TreePc, snapshot : TreeSession, pending : TreeSummary, job : TreeJob]

TreeTypes ==
  /\ trSessions \in Seq(TreeSession)
  /\ trAgents \in [TreeAgent -> TreeState]
  /\ trBudget \in [TreeAgent -> [say : Nat, command : Nat]]
  /\ \A s \in DOMAIN trSessions : IsTree(trSessions[s])
  /\ \A a \in TreeAgent : SidOf(a) \in DOMAIN trSessions

\* The messages on the branch up to an entry; whether a summary is of them, in a session
\* where it may say less, "mis", or more, "more".
TreeSaid(session, e) == ToSet(MessagesAt(session, BranchTo(session, e)))
SummaryFits(session, s, mis, more) ==
  /\ s \notin mis => TreeSaid(session, session.compaction.upTo) \subseteq session.compaction.covers
  /\ s \notin mis \cup more
     => session.compaction.covers \subseteq TreeSaid(session, session.compaction.upTo)
SummariesFit == \A s \in DOMAIN trSessions : SummaryFits(trSessions[s], s, trMisplaced, trInherited)

\* A session only grows: what an agent has loaded of it is its beginning.
Begins(first, second) ==
  /\ Len(first.entries) <= Len(second.entries)
  /\ \A e \in DOMAIN first.entries : second.entries[e] = first.entries[e]
TreeSnapshot(a) ==
  trAgents[a].pc \in {"ask", "save", "saveManually"} =>
    LET session == trAgents[a].snapshot IN
    /\ IsTree(session) /\ Begins(session, SessionOf(a))
    /\ SummaryFits(session, SidOf(a), trMisplaced, trInherited)

\* A compaction that waits to be saved is of the branch up to where it is, and
\* of what the summary there was is about.
TreePending(a) ==
  trAgents[a].pc \in {"save", "saveManually"} =>
    LET session == trAgents[a].snapshot
        pending == trAgents[a].pending
    IN  /\ pending.upTo \in DOMAIN session.entries
        /\ TreeSaid(session, pending.upTo) \subseteq pending.covers
        /\ SidOf(a) \notin trMisplaced \cup trInherited /\ ~TookOver(session, pending)
           => pending.covers \subseteq TreeSaid(session, pending.upTo)

\* A copy is made of a branch and the summary of a beginning of it; as long as
\* nobody else wrote to it, it is the beginning of that branch.
JobSays(a) == ToSet(SubSeq(CopyJob(a).all, 1, CopyJob(a).compaction.upTo))
TreeCopy(a) ==
  trAgents[a].pc \in {"copy", "copied"} =>
    LET job == CopyJob(a)
        copy == trSessions[job.target]
    IN  /\ job.target \in DOMAIN trSessions /\ job.copied <= Len(job.all)
        /\ job.compaction.upTo <= Len(job.all)
        /\ job.compaction.upTo # 0 /\ job.source \notin trMisplaced
           => JobSays(a) \subseteq job.compaction.covers
        /\ job.compaction.upTo # 0 /\ job.source \notin trMisplaced \cup trInherited
           => job.compaction.covers \subseteq JobSays(a)
        /\ job.target \notin trTouched =>
             /\ Len(copy.entries) = job.copied /\ copy.leaf = job.copied
             /\ \A e \in 1..job.copied : copy.entries[e] = [msg |-> job.all[e], parent |-> e - 1]
             /\ trAgents[a].pc = "copy" => copy.compaction = NoCompaction
             /\ trAgents[a].pc = "copied" => job.copied = Len(job.all)
             /\ trAgents[a].pc = "copied" /\ job.compaction.upTo # 0 => copy.compaction = job.compaction
             /\ trAgents[a].pc = "copied" /\ job.compaction.upTo = 0 => copy.compaction = NoCompaction

\* Only a copy has a target, and each one its own.
TargetsOwn ==
  /\ \A a \in TreeAgent : CopyJob(a).target # 0 <=> trAgents[a].pc \in {"copy", "copied"}
  /\ \A a, b \in TreeAgent : CopyJob(a).target = CopyJob(b).target /\ CopyJob(a).target # 0 => a = b

TreesInv ==
  /\ TreeTypes /\ SummariesFit /\ TargetsOwn
  /\ \A a \in TreeAgent : TreeSnapshot(a) /\ TreePending(a) /\ TreeCopy(a)

\* What holds of each number up to n if it holds of all before it, holds up to n.
LEMMA AllUpTo ==
  ASSUME NEW n \in Nat, NEW P, \A i \in 0..n : (\A j \in 0..(i - 1) : j \in P) => i \in P
  PROVE  \A i \in 0..n : i \in P
<1> DEFINE T == (0..n) \ P
<1> SUFFICES ASSUME T # {} PROVE FALSE
  OBVIOUS
<1>1. T \subseteq Nat
  OBVIOUS
<1> HIDE DEF T
<1>2. PICK x \in T : \A y \in T : x <= y
  BY <1>1, LeastNatural
<1>3. x \in 0..n /\ x \notin P
  BY <1>2 DEF T
<1>4. ASSUME NEW j \in 0..(x - 1) PROVE j \in P
  <2>1. j \in 0..n /\ ~(x <= j)
    BY <1>3
  <2> QED
    BY <1>2, <2>1 DEF T
<1> QED
  BY <1>3, <1>4

LEMMA SeqWiden ==
  ASSUME NEW S, NEW T, \A x \in S : x \in T, NEW s \in Seq(S)
  PROVE  s \in Seq(T)
<1>1. Len(s) \in Nat /\ s \in [1..Len(s) -> T]
  OBVIOUS
<1> QED
  BY <1>1, SeqDef

LEMMA TreeShape ==
  ASSUME NEW session, IsTree(session)
  PROVE  /\ session.entries \in Seq([msg : TreeMessage, parent : Nat]) /\ Len(session.entries) \in Nat
         /\ DOMAIN session.entries = 1..Len(session.entries)
         /\ session.leaf \in 0..Len(session.entries)
         /\ session.compaction \in [upTo : Nat, covers : SUBSET TreeMessage]
         /\ session.compaction.upTo \in 0..Len(session.entries)
         /\ \A e \in 1..Len(session.entries) :
              session.entries[e].parent \in 0..(e - 1) /\ session.entries[e].msg \in TreeMessage
<1> DEFINE Entry == [msg : TreeMessage, parent : Nat]
           n == Len(session.entries)
<1>1. /\ session.entries \in Seq(Entry) /\ session.leaf \in Nat
      /\ session.compaction \in [upTo : Nat, covers : SUBSET TreeMessage]
      /\ session.leaf <= n /\ session.compaction.upTo <= n
      /\ \A e \in DOMAIN session.entries : session.entries[e].parent < e
  BY DEF IsTree, TreeSession
<1> HIDE DEF Entry
<1>2. n \in Nat /\ DOMAIN session.entries = 1..n /\ \A e \in 1..n : session.entries[e] \in Entry
  BY <1>1
<1>3. \A e \in 1..n : session.entries[e].parent \in Nat /\ session.entries[e].msg \in TreeMessage
  BY <1>2 DEF Entry
<1> HIDE DEF n
<1>4. session.compaction.upTo \in Nat
  <2>1. session.compaction \in [upTo : Nat, covers : SUBSET TreeMessage]
    BY <1>1
  <2> QED
    BY ONLY <2>1
<1>4a. \A e \in DOMAIN session.entries : session.entries[e].parent < e
  BY <1>1
<1>5. ASSUME NEW e \in 1..n PROVE session.entries[e].parent \in 0..(e - 1)
  <2> DEFINE p == session.entries[e].parent
  <2>1. p \in Nat /\ p < e
    BY <1>2, <1>3, <1>4a
  <2> HIDE DEF p
  <2>2. p \in 0..(e - 1)
    BY <1>2, <2>1
  <2> QED
    BY <2>2 DEF p
<1>6. session.leaf \in 0..n /\ session.compaction.upTo \in 0..n
  BY <1>1, <1>2, <1>4
<1> QED
  BY <1>1, <1>2, <1>3, <1>5, <1>6 DEF n, Entry

\* The branch up to an entry goes on from the one up to its parent.
LEMMA BranchGrows ==
  ASSUME NEW session, IsTree(session)
  PROVE  /\ BranchTo(session, 0) = <<>>
         /\ \A e \in 1..Len(session.entries) :
              BranchTo(session, e) = Append(BranchTo(session, session.entries[e].parent), e)
<1> DEFINE n == Len(session.entries)
           parent(e) == session.entries[e].parent
           path[i \in 0..Len(session.entries)] ==
             IF i = 0 THEN <<>> ELSE Append(path[session.entries[i].parent], i)
           Goes(f, k) == \A i \in 0..k : f[i] = IF i = 0 THEN <<>> ELSE Append(f[parent(i)], i)
           P == {k \in 0..n : \E f \in [0..k -> Seq(Nat)] : Goes(f, k)}
           Is(g) == g = [i \in 0..Len(session.entries) |->
                           IF i = 0 THEN <<>> ELSE Append(g[session.entries[i].parent], i)]
<1>1. n \in Nat /\ \A e \in 1..n : parent(e) \in 0..(e - 1)
  BY TreeShape
<1>2. path = CHOOSE g : Is(g)
  OBVIOUS
<1>3. \A e \in 0..n : BranchTo(session, e) = path[e]
  BY DEF BranchTo
<1> HIDE DEF path
<1>4. 0 \in P
  <2>1. [i \in 0..0 |-> <<>>] \in [0..0 -> Seq(Nat)] /\ Goes([i \in 0..0 |-> <<>>], 0)
    OBVIOUS
  <2> HIDE DEF Goes
  <2>2. \E f \in [0..0 -> Seq(Nat)] : Goes(f, 0)
    BY <2>1
  <2>3. 0 \in 0..n
    BY <1>1
  <2> QED
    BY <2>2, <2>3
<1> HIDE DEF n, parent
<1>5. ASSUME NEW k \in 1..n, k - 1 \in P PROVE k \in P
  <2>1. PICK f \in [0..(k - 1) -> Seq(Nat)] : Goes(f, k - 1)
    BY <1>5
  <2> DEFINE g == [i \in 0..k |-> IF i = k THEN Append(f[parent(k)], k) ELSE f[i]]
  <2>2. k \in Nat /\ parent(k) \in 0..(k - 1) /\ f[parent(k)] \in Seq(Nat)
    BY <1>1
  <2>3. Append(f[parent(k)], k) \in Seq(Nat)
    BY <2>2
  <2>4. \A i \in 0..k : i # k => i \in 0..(k - 1)
    OBVIOUS
  <2>5. g \in [0..k -> Seq(Nat)]
    BY <2>3, <2>4
  <2>6. (\A i \in 0..(k - 1) : g[i] = f[i]) /\ g[k] = Append(f[parent(k)], k)
    OBVIOUS
  <2> HIDE DEF g
  <2>7. ASSUME NEW i \in 0..k PROVE g[i] = IF i = 0 THEN <<>> ELSE Append(g[parent(i)], i)
    <3>1. CASE i = k
      <4>1. k # 0 /\ g[parent(k)] = f[parent(k)]
        BY <2>2, <2>6
      <4> QED
        BY <2>6, <3>1, <4>1
    <3>2. CASE i # k
      <4>1. i \in 0..(k - 1) /\ g[i] = f[i]
        BY <2>4, <2>6, <3>2
      <4>2. f[i] = IF i = 0 THEN <<>> ELSE Append(f[parent(i)], i)
        BY <2>1, <4>1
      <4>3. i # 0 => i \in 1..n
        BY <1>1, <4>1
      <4>4. i # 0 => parent(i) \in 0..(k - 1) /\ g[parent(i)] = f[parent(i)]
        <5> SUFFICES ASSUME i # 0 PROVE parent(i) \in 0..(k - 1) /\ g[parent(i)] = f[parent(i)]
          OBVIOUS
        <5>1. parent(i) \in 0..(i - 1)
          BY <1>1, <4>3
        <5>2. parent(i) \in 0..(k - 1)
          BY <2>2, <4>1, <5>1
        <5> QED
          BY <2>6, <5>2
      <4> QED
        BY <4>1, <4>2, <4>4
    <3> QED
      BY <3>1, <3>2
  <2>8. Goes(g, k)
    BY <2>7
  <2>9. k \in 0..n
    BY <1>1
  <2> HIDE DEF Goes
  <2>10. \E h \in [0..k -> Seq(Nat)] : Goes(h, k)
    BY <2>5, <2>8
  <2> QED
    BY <2>9, <2>10
<1>6. PICK f \in [0..n -> Seq(Nat)] : Goes(f, n)
  <2> HIDE DEF P
  <2>1. \A k \in 0..n : k \in P
    BY <1>1, <1>4, <1>5, UpTo
  <2>2. n \in P
    BY <1>1, <2>1
  <2> QED
    BY <2>2 DEF P
<1>7. Is(f)
  <2>1. f = [i \in 0..n |-> IF i = 0 THEN <<>> ELSE Append(f[parent(i)], i)]
    BY <1>6
  <2> QED
    BY <2>1 DEF n, parent
<1>8. Is(path)
  <2> HIDE DEF Is
  <2> QED
    BY <1>2, <1>7
<1>9. \A i \in 0..n : path[i] = IF i = 0 THEN <<>> ELSE Append(path[parent(i)], i)
  BY <1>8 DEF n, parent
<1>10. \A e \in 1..n : e \in 0..n /\ e # 0 /\ parent(e) \in 0..n
  BY <1>1
<1>11. 0 \in 0..n
  BY <1>1
<1>12. BranchTo(session, 0) = <<>>
  BY <1>3, <1>9, <1>11
<1>13. \A e \in 1..n : BranchTo(session, e) = Append(BranchTo(session, parent(e)), e)
  BY <1>3, <1>9, <1>10
<1> QED
  BY <1>12, <1>13 DEF n, parent

\* A branch is of the entries up to its last one.
LEMMA BranchType ==
  ASSUME NEW session, IsTree(session)
  PROVE  \A e \in 0..Len(session.entries) : BranchTo(session, e) \in Seq(1..e)
<1> DEFINE n == Len(session.entries)
           P == {e \in 0..n : BranchTo(session, e) \in Seq(1..e)}
<1>1. n \in Nat /\ \A e \in 1..n : session.entries[e].parent \in 0..(e - 1)
  BY TreeShape
<1>2. ASSUME NEW e \in 0..n, \A j \in 0..(e - 1) : j \in P PROVE e \in P
  <2>1. CASE e = 0
    <3>1. BranchTo(session, e) = <<>>
      BY <2>1, BranchGrows
    <3>2. <<>> \in Seq(1..e)
      OBVIOUS
    <3> QED
      BY <3>1, <3>2
  <2>2. CASE e # 0
    <3> DEFINE p == session.entries[e].parent
    <3>1. e \in 1..n /\ p \in 0..(e - 1)
      BY <1>1, <2>2
    <3>2. BranchTo(session, e) = Append(BranchTo(session, p), e)
      BY <3>1, BranchGrows
    <3>3. BranchTo(session, p) \in Seq(1..p)
      BY <1>2, <3>1
    <3> HIDE DEF p
    <3>4. \A x \in 1..p : x \in 1..e
      BY <1>1, <3>1
    <3>5. BranchTo(session, p) \in Seq(1..e)
      BY <3>3, <3>4, SeqWiden
    <3>6. e \in 1..e
      BY <1>1, <3>1
    <3>7. Append(BranchTo(session, p), e) \in Seq(1..e)
      BY <3>5, <3>6
    <3> QED
      BY <3>2, <3>7
  <2> QED
    BY <2>1, <2>2
<1> HIDE DEF P, n
<1>3. \A e \in 0..n : e \in P
  BY <1>1, <1>2, AllUpTo
<1> QED
  BY <1>3 DEF P, n

\* The branch up to an entry of a branch is its beginning.
LEMMA BranchBegins ==
  ASSUME NEW session, IsTree(session)
  PROVE  \A e \in 0..Len(session.entries) : \A k \in DOMAIN BranchTo(session, e) :
           BranchTo(session, BranchTo(session, e)[k]) = SubSeq(BranchTo(session, e), 1, k)
<1> DEFINE n == Len(session.entries)
           P == {e \in 0..n : \A k \in DOMAIN BranchTo(session, e) :
                   BranchTo(session, BranchTo(session, e)[k]) = SubSeq(BranchTo(session, e), 1, k)}
<1>1. n \in Nat /\ \A e \in 1..n : session.entries[e].parent \in 0..(e - 1)
  BY TreeShape
<1>2. ASSUME NEW e \in 0..n, \A j \in 0..(e - 1) : j \in P PROVE e \in P
  <2>1. CASE e = 0
    BY <2>1, BranchGrows
  <2>2. CASE e # 0
    <3> DEFINE p == session.entries[e].parent
               b == BranchTo(session, p)
               c == BranchTo(session, e)
    <3>1. e \in 1..n /\ p \in 0..(e - 1) /\ p \in 0..n
      BY <1>1, <2>2
    <3>2. c = Append(b, e)
      BY <3>1, BranchGrows
    <3>3. b \in Seq(1..p)
      BY <3>1, BranchType
    <3>4. \A k \in DOMAIN b : BranchTo(session, b[k]) = SubSeq(b, 1, k)
      BY <1>2, <3>1
    <3> SUFFICES ASSUME NEW k \in DOMAIN c PROVE BranchTo(session, c[k]) = SubSeq(c, 1, k)
      OBVIOUS
    <3> HIDE DEF p, b
    <3>5. /\ b \in Seq(Nat) /\ Len(b) \in Nat /\ DOMAIN b = 1..Len(b) /\ e \in Nat
          /\ Len(c) = Len(b) + 1 /\ DOMAIN c = 1..(Len(b) + 1)
      BY <1>1, <3>1, <3>2, <3>3
    <3>6. CASE k = Len(c)
      <4>1. c[k] = e
        BY <3>2, <3>5, <3>6
      <4>2. c \in Seq(Nat)
        BY <3>2, <3>5
      <4> HIDE DEF c
      <4>3. SubSeq(c, 1, Len(c)) = c
        BY <4>2
      <4> QED
        BY <3>6, <4>1, <4>3 DEF c
    <3>7. CASE k # Len(c)
      <4>1. k \in DOMAIN b /\ c[k] = b[k]
        BY <3>2, <3>5, <3>7
      <4>2. SubSeq(Append(b, e), 1, k) = SubSeq(b, 1, k)
        BY <3>5, <4>1
      <4> HIDE DEF c
      <4> QED
        BY <3>2, <3>4, <4>1, <4>2
    <3> QED
      BY <3>6, <3>7
  <2> QED
    BY <2>1, <2>2
<1> HIDE DEF P, n
<1>3. \A e \in 0..n : e \in P
  BY <1>1, <1>2, AllUpTo
<1> QED
  BY <1>3 DEF P, n

\* A tree that grows keeps its branches.
LEMMA BranchStays ==
  ASSUME NEW first, NEW second, IsTree(first), IsTree(second), Begins(first, second)
  PROVE  \A e \in 0..Len(first.entries) : BranchTo(second, e) = BranchTo(first, e)
<1> DEFINE n == Len(first.entries)
           P == {e \in 0..n : BranchTo(second, e) = BranchTo(first, e)}
<1>1. n \in Nat /\ Len(second.entries) \in Nat /\ n <= Len(second.entries)
      /\ \A e \in 1..n : first.entries[e].parent \in 0..(e - 1) /\ second.entries[e] = first.entries[e]
  BY TreeShape DEF Begins
<1>2. ASSUME NEW e \in 0..n, \A j \in 0..(e - 1) : j \in P PROVE e \in P
  <2>1. CASE e = 0
    BY <2>1, BranchGrows
  <2>2. CASE e # 0
    <3>1. e \in 1..n /\ e \in 1..Len(second.entries)
      BY <1>1, <2>2
    <3>2. BranchTo(first, e) = Append(BranchTo(first, first.entries[e].parent), e)
      BY <3>1, BranchGrows
    <3>3. BranchTo(second, e) = Append(BranchTo(second, first.entries[e].parent), e)
      BY <1>1, <3>1, BranchGrows
    <3>4. BranchTo(second, first.entries[e].parent) = BranchTo(first, first.entries[e].parent)
      BY <1>1, <1>2, <3>1
    <3> QED
      BY <3>2, <3>3, <3>4
  <2> QED
    BY <2>1, <2>2
<1> HIDE DEF P, n
<1>3. \A e \in 0..n : e \in P
  BY <1>1, <1>2, AllUpTo
<1> QED
  BY <1>3 DEF P, n

\* The messages that are on a branch.
LEMMA SaidIs ==
  ASSUME NEW session, NEW positions
  PROVE  ToSet(MessagesAt(session, positions)) = {session.entries[positions[k]].msg : k \in DOMAIN positions}
<1>1. DOMAIN MessagesAt(session, positions) = DOMAIN positions
  BY DEF MessagesAt
<1>2. \A k \in DOMAIN positions : MessagesAt(session, positions)[k] = session.entries[positions[k]].msg
  BY DEF MessagesAt
<1> QED
  BY <1>1, <1>2 DEF ToSet

LEMMA SaidStays ==
  ASSUME NEW first, NEW second, IsTree(first), IsTree(second), Begins(first, second),
         NEW e \in 0..Len(first.entries)
  PROVE  TreeSaid(second, e) = TreeSaid(first, e)
<1>1. BranchTo(second, e) = BranchTo(first, e) /\ BranchTo(first, e) \in Seq(1..e)
  BY BranchStays, BranchType
<1> DEFINE b == BranchTo(first, e)
<1>2. Len(first.entries) \in Nat /\ DOMAIN first.entries = 1..Len(first.entries)
  BY TreeShape
<1> HIDE DEF b
<1>3. \A k \in DOMAIN b : b[k] \in 1..e
  BY <1>1 DEF b
<1>4. \A k \in DOMAIN b : b[k] \in DOMAIN first.entries
  BY <1>2, <1>3
<1>5. \A k \in DOMAIN b : second.entries[b[k]].msg = first.entries[b[k]].msg
  BY <1>4 DEF Begins
<1>6. {second.entries[b[k]].msg : k \in DOMAIN b} = {first.entries[b[k]].msg : k \in DOMAIN b}
  BY <1>5
<1> QED
  BY <1>1, <1>6, SaidIs DEF TreeSaid, b

\* What is said up to an entry of a branch is said on the branch.
LEMMA SaidBefore ==
  ASSUME NEW session, IsTree(session), NEW e \in 0..Len(session.entries),
         NEW k \in DOMAIN BranchTo(session, e)
  PROVE  /\ TreeSaid(session, BranchTo(session, e)[k]) = ToSet(MessagesAt(session, SubSeq(BranchTo(session, e), 1, k)))
         /\ TreeSaid(session, BranchTo(session, e)[k]) \subseteq TreeSaid(session, e)
<1> DEFINE b == BranchTo(session, e)
           c == SubSeq(b, 1, k)
<1>1. BranchTo(session, b[k]) = c /\ b \in Seq(1..e)
  BY BranchBegins, BranchType
<1> HIDE DEF b
<1>2. k \in DOMAIN b
  BY DEF b
<1>3. DOMAIN c = 1..k /\ \A j \in 1..k : c[j] = b[j] /\ j \in DOMAIN b
  BY <1>1, <1>2
<1> HIDE DEF c
<1>4. {session.entries[c[j]].msg : j \in DOMAIN c} \subseteq {session.entries[b[j]].msg : j \in DOMAIN b}
  BY <1>3
<1>5. TreeSaid(session, b[k]) = {session.entries[c[j]].msg : j \in DOMAIN c}
  BY <1>1, SaidIs DEF TreeSaid
<1>6. TreeSaid(session, e) = {session.entries[b[j]].msg : j \in DOMAIN b}
  BY SaidIs DEF TreeSaid, b
<1>7. ToSet(MessagesAt(session, c)) = {session.entries[c[j]].msg : j \in DOMAIN c}
  BY SaidIs
<1> QED
  BY <1>4, <1>5, <1>6, <1>7 DEF b, c

LEMMA SaidAtFirst ==
  ASSUME NEW session, IsTree(session) PROVE TreeSaid(session, 0) = {}
<1>1. BranchTo(session, 0) = <<>>
  BY BranchGrows
<1>2. DOMAIN <<>> = {}
  OBVIOUS
<1> QED
  BY <1>1, <1>2, SaidIs DEF TreeSaid

\* The place of the summary on the branch, 0 if the summary is not of it.
LEMMA PlaceIs ==
  ASSUME NEW session, IsTree(session)
  PROVE  \/ SummaryPlace(session) = 0 /\ session.compaction.upTo \notin ToSet(ActiveBranch(session))
         \/ /\ SummaryPlace(session) \in DOMAIN ActiveBranch(session)
            /\ ActiveBranch(session)[SummaryPlace(session)] = session.compaction.upTo
<1> DEFINE b == ActiveBranch(session)
           up == session.compaction.upTo
           I == {k \in 1..Len(b) : b[k] = up}
<1>1. b \in Seq(1..session.leaf)
  BY TreeShape, BranchType DEF ActiveBranch
<1>2. SelectInSeq(b, LAMBDA e : e = up) = IF I # {} THEN Min(I) ELSE 0
  BY DEF SelectInSeq
<1>3. SummaryPlace(session) = IF I # {} THEN Min(I) ELSE 0
  BY <1>2 DEF SummaryPlace
<1> HIDE DEF b, up
<1>4. DOMAIN b = 1..Len(b) /\ Len(b) \in Nat
  BY <1>1
<1>5. CASE I = {}
  <2>1. up \notin ToSet(b)
    BY <1>4, <1>5 DEF ToSet
  <2> QED
    BY <1>3, <1>5, <2>1 DEF b, up
<1>6. CASE I # {}
  <2>1. I \subseteq Nat
    OBVIOUS
  <2>2. Min(I) \in I
    <3> HIDE DEF I
    <3>1. \E x \in I : \A y \in I : x <= y
      BY <1>6, <2>1, LeastNatural
    <3> QED
      BY <3>1 DEF Min
  <2> QED
    BY <1>3, <1>4, <1>6, <2>2 DEF b, up
<1> QED
  BY <1>5, <1>6

\* What is behind a place in a sequence.
LEMMA RestIs ==
  ASSUME NEW S, NEW b \in Seq(S), NEW k \in DOMAIN b
  PROVE  /\ DOMAIN SubSeq(b, k + 1, Len(b)) = 1..(Len(b) - k)
         /\ \A j \in 1..(Len(b) - k) : SubSeq(b, k + 1, Len(b))[j] = b[k + j]
<1>1. Len(b) \in Nat /\ k \in 1..Len(b)
  OBVIOUS
<1>2. SubSeq(b, k + 1, Len(b)) = [j \in 1..(1 + Len(b) - (k + 1)) |-> b[(k + 1) + j - 1]]
  OBVIOUS
<1> QED
  BY <1>1, <1>2

\* A request from a session whose summary fits carries the branch, and no more.
LEMMA CompileSays ==
  ASSUME NEW session, IsTree(session), NEW s, NEW mis, NEW more, s \notin mis,
         SummaryFits(session, s, mis, more)
  PROVE  LET sent == Compile(session)
             branch == ToSet(MessagesAt(session, ActiveBranch(session)))
         IN  /\ branch \subseteq ToSet(sent.messages) \cup sent.covers
             /\ sent.covers \subseteq branch \/ s \in more
<1> DEFINE b == ActiveBranch(session)
           n == Behind(session)
           rest == SubSeq(b, n, Len(b))
           up == session.compaction.upTo
           covers == session.compaction.covers
           Msg(k) == session.entries[b[k]].msg
<1>1. Compile(session).messages = MessagesAt(session, rest)
  BY DEF Compile, NotSummarized
<1>2. Compile(session).covers = IF n = 1 THEN {} ELSE covers
  BY DEF Compile
<1>3. b \in Seq(1..session.leaf) /\ session.leaf \in 0..Len(session.entries) /\ b = BranchTo(session, session.leaf)
  BY TreeShape, BranchType DEF ActiveBranch
<1>4. ToSet(MessagesAt(session, b)) = {Msg(k) : k \in DOMAIN b}
  BY SaidIs
<1>5. ToSet(MessagesAt(session, rest)) = {session.entries[rest[k]].msg : k \in DOMAIN rest}
  BY SaidIs
<1>6. /\ TreeSaid(session, up) \subseteq covers
      /\ s \notin more => covers \subseteq TreeSaid(session, up)
  BY DEF SummaryFits
<1>7. n = 1 \/ \E k \in DOMAIN b : n = k + 1 /\ b[k] = up
  BY PlaceIs DEF Behind
<1> HIDE DEF n, b
<1>8. CASE n = 1
  <2>1. rest = b
    BY <1>3, <1>8
  <2> QED
    BY <1>1, <1>2, <1>8, <2>1 DEF b
<1>9. CASE n # 1
  <2>1. PICK k \in DOMAIN b : n = k + 1 /\ b[k] = up
    BY <1>7, <1>9
  <2>2. TreeSaid(session, up) = ToSet(MessagesAt(session, SubSeq(b, 1, k)))
        /\ TreeSaid(session, up) \subseteq TreeSaid(session, session.leaf)
    BY <1>3, <2>1, SaidBefore
  <2>3. TreeSaid(session, session.leaf) = {Msg(j) : j \in DOMAIN b}
    BY <1>3, <1>4 DEF TreeSaid
  <2> DEFINE c == SubSeq(b, 1, k)
  <2>4. TreeSaid(session, up) = {session.entries[c[j]].msg : j \in DOMAIN c}
    BY <2>2, SaidIs
  <2>5. Len(b) \in Nat /\ DOMAIN b = 1..Len(b) /\ k \in 1..Len(b)
    BY <1>3
  <2>6. DOMAIN c = 1..k /\ \A j \in 1..k : c[j] = b[j]
    BY <1>3, <2>5
  <2>7. DOMAIN rest = 1..(Len(b) - k) /\ \A j \in 1..(Len(b) - k) : rest[j] = b[k + j]
    BY <1>3, <2>1, RestIs
  <2> HIDE DEF rest, c
  <2>8. ASSUME NEW j \in DOMAIN b
        PROVE  Msg(j) \in ToSet(MessagesAt(session, rest)) \cup TreeSaid(session, up)
    <3>1. CASE j <= k
      <4>1. j \in DOMAIN c /\ c[j] = b[j]
        BY <2>5, <2>6, <3>1
      <4> QED
        BY <2>4, <4>1
    <3>2. CASE ~(j <= k)
      <4>1. j - k \in DOMAIN rest /\ rest[j - k] = b[j]
        <5>1. j - k \in 1..(Len(b) - k) /\ k + (j - k) = j
          BY <2>5, <3>2
        <5> QED
          BY <2>7, <5>1
      <4> QED
        BY <1>5, <4>1
    <3> QED
      BY <3>1, <3>2
  <2>9. {Msg(j) : j \in DOMAIN b} \subseteq ToSet(MessagesAt(session, rest)) \cup covers
    BY <1>6, <2>8
  <2>10. covers \subseteq {Msg(j) : j \in DOMAIN b} \/ s \in more
    BY <1>6, <2>2, <2>3
  <2> QED
    BY <1>1, <1>2, <1>4, <1>9, <2>9, <2>10 DEF b, rest
<1> QED
  BY <1>8, <1>9

\* A split that keeps calls with their results is not behind the one it is for.
LEMMA KeepPairsType ==
  ASSUME NEW messages, Len(messages) \in Nat, NEW split \in Nat
  PROVE  KeepPairs(messages, split) \in 0..split
<1>1. CASE split >= Len(messages)
  BY <1>1 DEF KeepPairs
<1>2. CASE ~(split >= Len(messages))
  <2> DEFINE Starts(s) == s = 0 \/ messages[s + 1].role # "tool"
             T == {s \in 1..split : Starts(s)}
             Fine(s) == Starts(s) /\ \A t \in s + 1..split : messages[t + 1].role = "tool"
  <2>1. KeepPairs(messages, split) = CHOOSE s \in 0..split : Fine(s)
    BY <1>2 DEF KeepPairs
  <2>2. \E s \in 0..split : Fine(s)
    <3>1. CASE T = {}
      <4>1. \A t \in 0 + 1..split : messages[t + 1].role = "tool"
        BY <3>1
      <4>2. 0 \in 0..split
        OBVIOUS
      <4> QED
        BY <4>1, <4>2
    <3>2. CASE T # {}
      <4>1. PICK s \in T : \A t \in T : t <= s
        <5>1. T \subseteq 1..split
          OBVIOUS
        <5> HIDE DEF T
        <5> QED
          BY <3>2, <5>1, LastPosition
      <4>2. s \in 1..split
        BY <4>1
      <4>3. ASSUME NEW t \in s + 1..split PROVE messages[t + 1].role = "tool"
        <5>1. t \in 1..split /\ ~(t <= s) /\ t # 0
          BY <4>2
        <5>2. t \notin T
          BY <4>1, <5>1
        <5> QED
          BY <5>1, <5>2
      <4> QED
        BY <4>1, <4>2, <4>3
    <3> QED
      BY <3>1, <3>2
  <2> HIDE DEF Fine
  <2> QED
    BY <2>1, <2>2
<1> QED
  BY <1>1, <1>2

\* A new summary is of the branch up to where it is, and of what the one before
\* it is about, which is no more if that is on the branch.
LEMMA SummarizedFits ==
  ASSUME NEW session, IsTree(session), NEW split \in 1..Len(ActiveBranch(session)), NEW s, NEW mis, NEW more,
         SummaryFits(session, s, mis, more)
  PROVE  /\ Summarized(session, split).upTo \in DOMAIN session.entries
         /\ Summarized(session, split) \in TreeSummary
         /\ TreeSaid(session, Summarized(session, split).upTo) \subseteq Summarized(session, split).covers
         /\ s \notin mis \cup more /\ ~TookOver(session, Summarized(session, split))
            => Summarized(session, split).covers \subseteq TreeSaid(session, Summarized(session, split).upTo)
<1> DEFINE b == ActiveBranch(session)
           c == SubSeq(b, 1, split)
           new == Summarized(session, split)
           up == session.compaction.upTo
<1>1. b \in Seq(1..session.leaf) /\ session.leaf \in 0..Len(session.entries) /\ b = BranchTo(session, session.leaf)
  BY TreeShape, BranchType DEF ActiveBranch
<1>2. new.upTo = c[split] /\ new.covers = ToSet(MessagesAt(session, c)) \cup session.compaction.covers
      /\ new = [upTo |-> c[split], covers |-> ToSet(MessagesAt(session, c)) \cup session.compaction.covers]
  BY DEF Summarized
<1>3. split \in DOMAIN b /\ c[split] = b[split] /\ split \in DOMAIN c
  BY <1>1
<1>4. b[split] \in 1..session.leaf
  BY <1>1, <1>3
<1>5. TreeSaid(session, b[split]) = ToSet(MessagesAt(session, c)) /\ BranchTo(session, b[split]) = c
  <2>1. session.leaf \in 0..Len(session.entries) /\ split \in DOMAIN BranchTo(session, session.leaf)
    BY <1>1, <1>3
  <2>2. TreeSaid(session, BranchTo(session, session.leaf)[split])
          = ToSet(MessagesAt(session, SubSeq(BranchTo(session, session.leaf), 1, split)))
    BY <2>1, SaidBefore
  <2>3. BranchTo(session, BranchTo(session, session.leaf)[split])
          = SubSeq(BranchTo(session, session.leaf), 1, split)
    BY <2>1, BranchBegins
  <2> QED
    BY <1>1, <2>2, <2>3
<1>6. /\ Len(session.entries) \in Nat /\ DOMAIN session.entries = 1..Len(session.entries)
      /\ \A e \in 1..Len(session.entries) : session.entries[e].msg \in TreeMessage
      /\ session.compaction.covers \subseteq TreeMessage /\ up \in 0..Len(session.entries)
  BY TreeShape
<1> HIDE DEF b
<1>7. new.upTo \in DOMAIN session.entries
  BY <1>1, <1>2, <1>3, <1>4, <1>6
<1>8. new \in TreeSummary
  <2>1. \A k \in DOMAIN c : c[k] \in DOMAIN session.entries
    <3>1. \A k \in DOMAIN c : c[k] = b[k] /\ k \in DOMAIN b
      BY <1>1, <1>3
    <3>2. \A k \in DOMAIN b : b[k] \in 1..session.leaf
      BY <1>1
    <3> HIDE DEF c
    <3> QED
      BY <1>1, <1>6, <3>1, <3>2
  <2> HIDE DEF c
  <2>2. ToSet(MessagesAt(session, c)) \subseteq TreeMessage
    BY <1>6, <2>1, SaidIs
  <2>3. c[split] \in Nat
    BY <1>2, <1>6, <1>7
  <2> HIDE DEF new
  <2> QED
    BY <1>2, <1>6, <2>2, <2>3 DEF TreeSummary
<1> HIDE DEF c, new
<1>9. TreeSaid(session, new.upTo) \subseteq new.covers
  BY <1>2, <1>3, <1>5
<1>10. ASSUME s \notin mis \cup more, ~TookOver(session, new)
       PROVE  new.covers \subseteq TreeSaid(session, new.upTo)
  <2>1. up \in ToSet(BranchTo(session, new.upTo)) \cup {0}
    BY <1>10 DEF TookOver
  <2>2. session.compaction.covers \subseteq TreeSaid(session, up)
    BY <1>10 DEF SummaryFits
  <2>3. TreeSaid(session, up) \subseteq TreeSaid(session, new.upTo)
    <3>1. CASE up = 0
      BY <3>1, SaidAtFirst
    <3>2. CASE up \in ToSet(BranchTo(session, new.upTo))
      <4>1. PICK k \in DOMAIN BranchTo(session, new.upTo) : BranchTo(session, new.upTo)[k] = up
        BY <3>2 DEF ToSet
      <4>2. new.upTo \in 0..Len(session.entries)
        BY <1>6, <1>7
      <4> QED
        BY <4>1, <4>2, SaidBefore
    <3> QED
      BY <2>1, <3>1, <3>2
  <2> QED
    BY <1>2, <1>3, <1>5, <2>2, <2>3
<1> QED
  BY <1>7, <1>8, <1>9, <1>10 DEF new

\* What a mutation makes of a tree, a tree that begins with it.
LEMMA BeginsSelf ==
  ASSUME NEW session PROVE Begins(session, session)
<1>1. Len(session.entries) <= Len(session.entries)
  OBVIOUS
<1> QED
  BY <1>1 DEF Begins

LEMMA BeginsOn ==
  ASSUME NEW first, NEW second, NEW third, IsTree(first), IsTree(second), IsTree(third),
         Begins(first, second), Begins(second, third)
  PROVE  Begins(first, third)
<1>1. /\ Len(first.entries) \in Nat /\ Len(second.entries) \in Nat /\ Len(third.entries) \in Nat
      /\ DOMAIN first.entries = 1..Len(first.entries) /\ DOMAIN second.entries = 1..Len(second.entries)
  BY TreeShape
<1> QED
  BY <1>1 DEF Begins

\* The message of an entry is appended behind the active leaf.
LEMMA AppendedGrows ==
  ASSUME NEW session, IsTree(session), NEW msg \in TreeMessage
  PROVE  LET grown == Appended(session, msg)
             n == Len(session.entries)
         IN  /\ IsTree(grown) /\ Begins(session, grown)
             /\ grown.compaction = session.compaction
             /\ Len(grown.entries) = n + 1 /\ grown.leaf = n + 1
             /\ grown.entries[n + 1] = [msg |-> msg, parent |-> session.leaf]
             /\ \A e \in 1..n : grown.entries[e] = session.entries[e]
<1> DEFINE Entry == [msg : TreeMessage, parent : Nat]
           Summary == [upTo : Nat, covers : SUBSET TreeMessage]
           n == Len(session.entries)
           new == [msg |-> msg, parent |-> session.leaf]
           grown == Appended(session, msg)
<1>1. /\ session.entries \in Seq(Entry) /\ n \in Nat /\ DOMAIN session.entries = 1..n
      /\ session.leaf \in 0..n /\ session.compaction \in Summary /\ session.compaction.upTo \in 0..n
      /\ \A e \in 1..n : session.entries[e].parent \in 0..(e - 1)
  BY TreeShape
<1>2. session \in [cwd : {"here", "there"}, entries : Seq(Entry), leaf : Nat, compaction : Summary]
  BY DEF IsTree, TreeSession
<1>3. new \in Entry /\ new.parent = session.leaf
  BY <1>1
<1> HIDE DEF Entry, Summary, new
<1>4. grown = [session EXCEPT !.entries = Append(session.entries, new), !.leaf = n + 1]
  BY DEF Appended, new
<1> HIDE DEF n, grown
<1>5. grown.entries = Append(session.entries, new) /\ grown.leaf = n + 1 /\ grown.compaction = session.compaction
      /\ grown.cwd = session.cwd
  BY <1>2, <1>4
<1>6. Append(session.entries, new) \in Seq(Entry)
  BY <1>1, <1>3
<1>7. grown \in [cwd : {"here", "there"}, entries : Seq(Entry), leaf : Nat, compaction : Summary]
  <2> DEFINE EntryList == Seq(Entry)
             new1 == Append(session.entries, new)
  <2>1. session \in [cwd : {"here", "there"}, entries : EntryList, leaf : Nat, compaction : Summary]
        /\ new1 \in EntryList /\ n + 1 \in Nat
    BY <1>1, <1>2, <1>6 DEF n
  <2>2. grown = [session EXCEPT !.entries = new1, !.leaf = n + 1]
    BY <1>4
  <2> HIDE DEF EntryList, new1
  <2>3. grown \in [cwd : {"here", "there"}, entries : EntryList, leaf : Nat, compaction : Summary]
    BY <2>1, <2>2
  <2> QED
    BY <2>3 DEF EntryList
<1>8. /\ Len(grown.entries) = n + 1 /\ DOMAIN grown.entries = 1..(n + 1) /\ grown.entries[n + 1] = new
      /\ \A e \in 1..n : grown.entries[e] = session.entries[e]
  BY <1>1, <1>3, <1>5 DEF n
<1>9. \A e \in DOMAIN grown.entries : grown.entries[e].parent < e
  <2> SUFFICES ASSUME NEW e \in 1..(n + 1) PROVE grown.entries[e].parent < e
    BY <1>8
  <2>1. CASE e = n + 1
    BY <1>1, <1>3, <1>8, <2>1 DEF n
  <2>2. CASE e # n + 1
    <3>1. e \in 1..n
      BY <1>1, <2>2 DEF n
    <3>2. session.entries[e].parent \in 0..(e - 1) /\ grown.entries[e] = session.entries[e]
      BY <1>1, <1>8, <3>1 DEF n
    <3> QED
      BY <3>1, <3>2
  <2> QED
    BY <2>1, <2>2
<1>10. grown \in TreeSession
  BY <1>7 DEF TreeSession, Entry, Summary
<1>11. grown.leaf <= Len(grown.entries) /\ grown.compaction.upTo <= Len(grown.entries)
  BY <1>1, <1>5, <1>8
<1>12. IsTree(grown)
  BY <1>9, <1>10, <1>11 DEF IsTree
<1>13. Begins(session, grown)
  BY <1>1, <1>8 DEF Begins, n
<1> QED
  BY <1>5, <1>8, <1>12, <1>13 DEF n, grown, new

LEMMA MovedGrows ==
  ASSUME NEW session, IsTree(session), NEW e \in DOMAIN session.entries
  PROVE  LET moved == [session EXCEPT !.leaf = e] IN
         IsTree(moved) /\ Begins(session, moved) /\ moved.compaction = session.compaction
<1> DEFINE EntryList == Seq([msg : TreeMessage, parent : Nat])
           Summary == [upTo : Nat, covers : SUBSET TreeMessage]
           moved == [session EXCEPT !.leaf = e]
<1>1. session \in [cwd : {"here", "there"}, entries : EntryList, leaf : Nat, compaction : Summary]
      /\ session.compaction.upTo <= Len(session.entries)
      /\ \A x \in DOMAIN session.entries : session.entries[x].parent < x
  BY DEF IsTree, TreeSession
<1>2. Len(session.entries) \in Nat /\ e \in 1..Len(session.entries)
  BY TreeShape
<1> HIDE DEF EntryList, Summary
<1>3. moved.entries = session.entries /\ moved.compaction = session.compaction /\ moved.leaf = e
      /\ moved \in [cwd : {"here", "there"}, entries : EntryList, leaf : Nat, compaction : Summary]
  BY <1>1, <1>2
<1> HIDE DEF moved
<1>4. moved \in TreeSession
  BY <1>3 DEF TreeSession, EntryList, Summary
<1>5. IsTree(moved)
  BY <1>1, <1>2, <1>3, <1>4 DEF IsTree
<1>6. Begins(session, moved)
  BY <1>2, <1>3 DEF Begins
<1> QED
  BY <1>3, <1>5, <1>6 DEF moved

LEMMA SummedGrows ==
  ASSUME NEW session, IsTree(session), NEW compaction \in TreeSummary,
         compaction.upTo \in 0..Len(session.entries)
  PROVE  LET summed == [session EXCEPT !.compaction = compaction] IN
         /\ IsTree(summed) /\ Begins(session, summed) /\ summed.compaction = compaction
         /\ summed.entries = session.entries /\ summed.leaf = session.leaf
<1> DEFINE EntryList == Seq([msg : TreeMessage, parent : Nat])
           Summary == [upTo : Nat, covers : SUBSET TreeMessage]
           summed == [session EXCEPT !.compaction = compaction]
<1>1. session \in [cwd : {"here", "there"}, entries : EntryList, leaf : Nat, compaction : Summary]
      /\ session.leaf <= Len(session.entries)
      /\ \A x \in DOMAIN session.entries : session.entries[x].parent < x
  BY DEF IsTree, TreeSession
<1>2. Len(session.entries) \in Nat /\ compaction \in Summary
  BY TreeShape DEF TreeSummary
<1> HIDE DEF EntryList, Summary
<1>3. summed.entries = session.entries /\ summed.compaction = compaction /\ summed.leaf = session.leaf
      /\ summed \in [cwd : {"here", "there"}, entries : EntryList, leaf : Nat, compaction : Summary]
  BY <1>1, <1>2
<1> HIDE DEF summed
<1>4. summed \in TreeSession
  BY <1>3 DEF TreeSession, EntryList, Summary
<1>5. compaction.upTo <= Len(session.entries)
  BY <1>2
<1>6. IsTree(summed)
  BY <1>1, <1>3, <1>4, <1>5 DEF IsTree
<1>7. Begins(session, summed)
  BY <1>2, <1>3 DEF Begins
<1> QED
  BY <1>3, <1>6, <1>7 DEF summed

LEMMA EmptyIsTree == IsTree(EmptySession("here")) /\ NoCompaction \in TreeSummary
<1> DEFINE EntryList == Seq([msg : TreeMessage, parent : Nat])
           Summary == [upTo : Nat, covers : SUBSET TreeMessage]
           empty == EmptySession("here")
<1>1. NoCompaction \in Summary /\ NoCompaction.upTo = 0 /\ <<>> \in EntryList /\ Len(<<>>) = 0
  BY DEF NoCompaction
<1> HIDE DEF EntryList, Summary
<1>2. empty \in [cwd : {"here", "there"}, entries : EntryList, leaf : Nat, compaction : Summary]
      /\ empty.entries = <<>> /\ empty.leaf = 0 /\ empty.compaction = NoCompaction
  BY <1>1 DEF EmptySession
<1> HIDE DEF empty
<1>3. empty \in TreeSession
  BY <1>2 DEF TreeSession, EntryList, Summary
<1>4. DOMAIN <<>> = {}
  OBVIOUS
<1>5. IsTree(empty)
  BY <1>1, <1>2, <1>3, <1>4 DEF IsTree
<1> QED
  BY <1>1, <1>5 DEF TreeSummary, Summary, empty

\* A tree without a fork is its own branch.
LEMMA ChainBranch ==
  ASSUME NEW session, IsTree(session), NEW n \in 0..Len(session.entries),
         \A e \in 1..n : session.entries[e].parent = e - 1
  PROVE  BranchTo(session, n) = [k \in 1..n |-> k]
<1> DEFINE P == {e \in 0..n : BranchTo(session, e) = [k \in 1..e |-> k]}
<1>1. Len(session.entries) \in Nat /\ n \in Nat
  BY TreeShape
<1>2. 0 \in P
  <2>1. BranchTo(session, 0) = <<>> /\ <<>> = [k \in 1..0 |-> k] /\ 0 \in 0..n
    BY <1>1, BranchGrows
  <2> QED
    BY <2>1
<1>3. ASSUME NEW e \in 1..n, e - 1 \in P PROVE e \in P
  <2>1. e \in 1..Len(session.entries) /\ e \in Nat /\ e - 1 \in Nat
    BY <1>1
  <2>2. BranchTo(session, e) = Append(BranchTo(session, e - 1), e)
    BY <2>1, BranchGrows
  <2>3. BranchTo(session, e - 1) = [k \in 1..(e - 1) |-> k]
    BY <1>3
  <2>4. Append([k \in 1..(e - 1) |-> k], e) = [k \in 1..e |-> k]
    <3> DEFINE b == [k \in 1..(e - 1) |-> k]
    <3>1. b \in Seq(Nat) /\ Len(b) = e - 1
      BY <2>1
    <3>2. Append(b, e) = [k \in 1..(e - 1) + 1 |-> IF k = (e - 1) + 1 THEN e ELSE b[k]]
      BY <2>1, <3>1
    <3>3. (e - 1) + 1 = e
      BY <2>1
    <3>4. \A k \in 1..e : (IF k = e THEN e ELSE b[k]) = k
      BY <2>1
    <3> HIDE DEF b
    <3> QED
      BY <3>2, <3>3, <3>4 DEF b
  <2>5. BranchTo(session, e) = [k \in 1..e |-> k]
    BY <2>2, <2>3, <2>4
  <2>6. e \in 0..n
    BY <1>1
  <2> QED
    BY <2>5, <2>6
<1> HIDE DEF P
<1>4. \A e \in 0..n : e \in P
  BY <1>1, <1>2, <1>3, UpTo
<1>5. n \in P
  BY <1>1, <1>4
<1> QED
  BY <1>5 DEF P

\* The messages of a branch.
LEMMA MessagesType ==
  ASSUME NEW session, IsTree(session), NEW e \in 0..Len(session.entries)
  PROVE  LET b == BranchTo(session, e)
             m == MessagesAt(session, b)
         IN  /\ m \in Seq(TreeMessage) /\ Len(m) = Len(b) /\ Len(b) \in Nat
             /\ \A k \in 0..Len(b) : MessagesAt(session, SubSeq(b, 1, k)) = SubSeq(m, 1, k)
<1> DEFINE b == BranchTo(session, e)
           m == MessagesAt(session, b)
<1>1. b \in Seq(1..e) /\ Len(session.entries) \in Nat
      /\ \A x \in 1..Len(session.entries) : session.entries[x].msg \in TreeMessage
  BY BranchType, TreeShape
<1> HIDE DEF b
<1>2. Len(b) \in Nat /\ DOMAIN b = 1..Len(b) /\ \A k \in 1..Len(b) : b[k] \in 1..e
  BY <1>1
<1>3. \A k \in 1..Len(b) : session.entries[b[k]].msg \in TreeMessage
  BY <1>1, <1>2
<1>4. m = [k \in 1..Len(b) |-> session.entries[b[k]].msg]
  BY <1>2 DEF MessagesAt
<1> HIDE DEF m
<1>5. m \in Seq(TreeMessage) /\ Len(m) = Len(b)
  BY <1>2, <1>3, <1>4
<1>6. ASSUME NEW k \in 0..Len(b) PROVE MessagesAt(session, SubSeq(b, 1, k)) = SubSeq(m, 1, k)
  <2> DEFINE c == SubSeq(b, 1, k)
  <2>1. DOMAIN c = 1..k /\ \A j \in 1..k : c[j] = b[j] /\ j \in 1..Len(b)
    BY <1>1, <1>2
  <2>2. SubSeq(m, 1, k) = [j \in 1..k |-> m[j]]
    BY <1>2, <1>5
  <2> HIDE DEF c
  <2>3. MessagesAt(session, c) = [j \in 1..k |-> session.entries[c[j]].msg]
    BY <2>1 DEF MessagesAt
  <2>4. \A j \in 1..k : session.entries[c[j]].msg = m[j]
    BY <1>4, <2>1
  <2> QED
    BY <2>2, <2>3, <2>4 DEF c
<1> QED
  BY <1>2, <1>5, <1>6 DEF b, m

\* A summary that fits still does when the tree has grown.
LEMMA SummaryStays ==
  ASSUME NEW first, NEW second, IsTree(first), IsTree(second), Begins(first, second),
         second.compaction = first.compaction,
         NEW s, NEW mis, NEW more, NEW mis2, NEW more2, mis \subseteq mis2, more \subseteq more2,
         SummaryFits(first, s, mis, more)
  PROVE  SummaryFits(second, s, mis2, more2)
<1>1. first.compaction.upTo \in 0..Len(first.entries)
  BY TreeShape
<1>2. TreeSaid(second, first.compaction.upTo) = TreeSaid(first, first.compaction.upTo)
  BY <1>1, SaidStays
<1> QED
  BY <1>2 DEF SummaryFits

LEMMA NoSummaryFits ==
  ASSUME NEW session, IsTree(session), session.compaction = NoCompaction, NEW s, NEW mis, NEW more
  PROVE  SummaryFits(session, s, mis, more)
<1>1. session.compaction.upTo = 0 /\ session.compaction.covers = {}
  BY DEF NoCompaction
<1>2. TreeSaid(session, 0) = {}
  BY SaidAtFirst
<1> QED
  BY <1>1, <1>2 DEF SummaryFits

\* What every step does to the sessions and the histories.
TreesGrow ==
  /\ trMisplaced \subseteq trMisplaced' /\ trInherited \subseteq trInherited' /\ trTouched \subseteq trTouched'
  /\ trSessions' \in Seq(TreeSession) /\ DOMAIN trSessions \subseteq DOMAIN trSessions'
  /\ \A s \in DOMAIN trSessions' : IsTree(trSessions'[s])
  /\ \A s \in DOMAIN trSessions : Begins(trSessions[s], trSessions'[s])

\* The copies that others make are as they left them, or known to be touched.
OthersLeft(a) ==
  \A b \in TreeAgent \ {a} : CopyJob(b).target # 0 =>
    CopyJob(b).target \in trTouched' \/ trSessions'[CopyJob(b).target] = trSessions[CopyJob(b).target]

\* One agent goes on.
TreeTurn(a) ==
  /\ trAgents' \in [TreeAgent -> TreeState]
  /\ \A b \in TreeAgent \ {a} : trAgents'[b] = trAgents[b]
  /\ trAgents'[a].sid \in DOMAIN trSessions'
  /\ trAgents'[a].job.target # 0 <=> trAgents'[a].pc \in {"copy", "copied"}
  /\ \/ trAgents'[a].job.target \in {0, CopyJob(a).target}
     \/ trAgents'[a].job.target \notin DOMAIN trSessions

TreeBudgetType == trBudget \in [TreeAgent -> [say : Nat, command : Nat]]
TreeOwn(a) == TreeSnapshot(a) /\ TreePending(a) /\ TreeCopy(a)

\* What is known of an agent.
LEMMA TreeAgentIs ==
  ASSUME TreesInv, NEW a \in TreeAgent
  PROVE  /\ trAgents[a] \in TreeState /\ SidOf(a) \in DOMAIN trSessions /\ SidOf(a) \in Nat
         /\ SidOf(a) = trAgents[a].sid /\ SessionOf(a) = trSessions[SidOf(a)]
         /\ IsTree(SessionOf(a)) /\ SummaryFits(SessionOf(a), SidOf(a), trMisplaced, trInherited)
         /\ trAgents[a].pc \in TreePc /\ trAgents[a].snapshot \in TreeSession
         /\ trAgents[a].pending \in TreeSummary /\ trAgents[a].job \in TreeJob
         /\ trSessions \in Seq(TreeSession) /\ Len(trSessions) \in Nat
         /\ DOMAIN trSessions = 1..Len(trSessions)
<1>1. /\ trSessions \in Seq(TreeSession) /\ trAgents \in [TreeAgent -> TreeState]
      /\ SidOf(a) \in DOMAIN trSessions /\ \A s \in DOMAIN trSessions : IsTree(trSessions[s])
      /\ SidOf(a) = trAgents[a].sid /\ SessionOf(a) = trSessions[SidOf(a)]
  BY DEF TreesInv, TreeTypes, SidOf, SessionOf
<1>2. IsTree(SessionOf(a)) /\ SummaryFits(SessionOf(a), SidOf(a), trMisplaced, trInherited)
  BY <1>1 DEF TreesInv, SummariesFit
<1>3. trAgents[a] \in TreeState
  BY <1>1
<1>4. /\ trAgents[a].sid \in Nat /\ trAgents[a].pc \in TreePc /\ trAgents[a].snapshot \in TreeSession
      /\ trAgents[a].pending \in TreeSummary /\ trAgents[a].job \in TreeJob
  <2> HIDE DEF TreePc, TreeSession, TreeSummary, TreeJob
  <2> QED
    BY <1>3 DEF TreeState
<1>5. Len(trSessions) \in Nat /\ DOMAIN trSessions = 1..Len(trSessions)
  BY <1>1
<1> QED
  BY <1>1, <1>2, <1>3, <1>4, <1>5

LEMMA TreeJobIs ==
  ASSUME NEW job \in TreeJob
  PROVE  /\ job.source \in Nat /\ job.target \in Nat /\ job.all \in Seq(TreeMessage) /\ Len(job.all) \in Nat
         /\ job.copied \in Nat /\ job.compaction \in TreeSummary
         /\ job.compaction.upTo \in Nat /\ job.compaction.covers \subseteq TreeMessage
<1> DEFINE All == Seq(TreeMessage)
<1>1. /\ job.source \in Nat /\ job.target \in Nat /\ job.all \in All
      /\ job.copied \in Nat /\ job.compaction \in TreeSummary
  <2>1. job \in [kind : {"none", "fork", "import"}, source : Nat, target : Nat, all : All, copied : Nat,
                 compaction : TreeSummary]
    BY DEF TreeJob
  <2> HIDE DEF All
  <2> QED
    BY <2>1
<1>2. job.compaction.upTo \in Nat /\ job.compaction.covers \subseteq TreeMessage
  BY <1>1 DEF TreeSummary
<1> QED
  BY <1>1, <1>2

\* An agent passes on to another place.
TreeMoves(a, pc, snapshot) == trAgents' = [trAgents EXCEPT ![a].pc = pc, ![a].snapshot = snapshot]
TreeMovesWith(a, pc, snapshot, pending) ==
  trAgents' = [trAgents EXCEPT ![a].pc = pc, ![a].snapshot = snapshot, ![a].pending = pending]

\* An agent's new state: another one, or the one it had with another place,
\* snapshot or compaction.
LEMMA TreeTurns ==
  ASSUME TreesInv, NEW a \in TreeAgent, NEW new \in TreeState, trAgents' = [trAgents EXCEPT ![a] = new]
  PROVE  /\ trAgents' \in [TreeAgent -> TreeState] /\ trAgents'[a] = new
         /\ \A b \in TreeAgent \ {a} : trAgents'[b] = trAgents[b]
<1>1. trAgents \in [TreeAgent -> TreeState]
  BY DEF TreesInv, TreeTypes
<1> QED
  BY <1>1

LEMMA TreePasses ==
  ASSUME TreesInv, NEW a \in TreeAgent, NEW pc \in TreePc, NEW snapshot \in TreeSession,
         TreeMoves(a, pc, snapshot)
  PROVE  /\ trAgents' \in [TreeAgent -> TreeState]
         /\ \A b \in TreeAgent \ {a} : trAgents'[b] = trAgents[b]
         /\ trAgents'[a].sid = trAgents[a].sid /\ trAgents'[a].pc = pc
         /\ trAgents'[a].snapshot = snapshot /\ trAgents'[a].job = trAgents[a].job
<1>1. trAgents \in [TreeAgent -> [sid : Nat, pc : TreePc, snapshot : TreeSession, pending : TreeSummary, job : TreeJob]]
  BY DEF TreesInv, TreeTypes, TreeState
<1> HIDE DEF TreePc, TreeSession, TreeSummary, TreeJob
<1>2. trAgents' \in [TreeAgent -> [sid : Nat, pc : TreePc, snapshot : TreeSession, pending : TreeSummary, job : TreeJob]]
  BY <1>1 DEF TreeMoves
<1>3. /\ \A b \in TreeAgent \ {a} : trAgents'[b] = trAgents[b]
      /\ trAgents'[a].sid = trAgents[a].sid /\ trAgents'[a].pc = pc
      /\ trAgents'[a].snapshot = snapshot /\ trAgents'[a].job = trAgents[a].job
  BY <1>1 DEF TreeMoves
<1> QED
  BY <1>2, <1>3 DEF TreeState

LEMMA TreePassesWith ==
  ASSUME TreesInv, NEW a \in TreeAgent, NEW pc \in TreePc, NEW snapshot \in TreeSession, NEW pending \in TreeSummary,
         TreeMovesWith(a, pc, snapshot, pending)
  PROVE  /\ trAgents' \in [TreeAgent -> TreeState]
         /\ \A b \in TreeAgent \ {a} : trAgents'[b] = trAgents[b]
         /\ trAgents'[a].sid = trAgents[a].sid /\ trAgents'[a].pc = pc /\ trAgents'[a].snapshot = snapshot
         /\ trAgents'[a].pending = pending /\ trAgents'[a].job = trAgents[a].job
<1>1. trAgents \in [TreeAgent -> [sid : Nat, pc : TreePc, snapshot : TreeSession, pending : TreeSummary, job : TreeJob]]
  BY DEF TreesInv, TreeTypes, TreeState
<1> HIDE DEF TreePc, TreeSession, TreeSummary, TreeJob
<1>2. trAgents' \in [TreeAgent -> [sid : Nat, pc : TreePc, snapshot : TreeSession, pending : TreeSummary, job : TreeJob]]
  BY <1>1 DEF TreeMovesWith
<1>3. /\ \A b \in TreeAgent \ {a} : trAgents'[b] = trAgents[b]
      /\ trAgents'[a].sid = trAgents[a].sid /\ trAgents'[a].pc = pc /\ trAgents'[a].snapshot = snapshot
      /\ trAgents'[a].pending = pending /\ trAgents'[a].job = trAgents[a].job
  BY <1>1 DEF TreeMovesWith
<1> QED
  BY <1>2, <1>3 DEF TreeState

\* Nothing is written.
LEMMA Unwritten ==
  ASSUME TreesInv, NEW a, UNCHANGED <<trSessions, trTouched, trMisplaced, trInherited>>
  PROVE  TreesGrow /\ OthersLeft(a) /\ SummariesFit'
<1>1. trSessions \in Seq(TreeSession) /\ \A s \in DOMAIN trSessions : IsTree(trSessions[s])
  BY DEF TreesInv, TreeTypes
<1>2. \A s \in DOMAIN trSessions : Begins(trSessions[s], trSessions[s])
  BY BeginsSelf
<1>3. TreesGrow
  BY <1>1, <1>2 DEF TreesGrow
<1>4. SummariesFit'
  BY DEF TreesInv, SummariesFit
<1> QED
  BY <1>3, <1>4 DEF OthersLeft

\* A session is written to.
LEMMA Written ==
  ASSUME TreesInv, NEW a \in TreeAgent, NEW s \in DOMAIN trSessions, NEW session, IsTree(session),
         Begins(trSessions[s], session), MutateTree(a, s, session),
         trMisplaced \subseteq trMisplaced', trInherited \subseteq trInherited',
         session.compaction = trSessions[s].compaction \/ SummaryFits(session, s, trMisplaced', trInherited')
  PROVE  /\ TreesGrow /\ OthersLeft(a) /\ SummariesFit'
         /\ trSessions'[s] = session /\ DOMAIN trSessions' = DOMAIN trSessions
         /\ ~FilledByOther(s, a) => trTouched' = trTouched
<1>1. trSessions \in Seq(TreeSession) /\ \A r \in DOMAIN trSessions : IsTree(trSessions[r])
  BY DEF TreesInv, TreeTypes
<1>2. trSessions' = [trSessions EXCEPT ![s] = session] /\ Touches(a, s)
  BY DEF MutateTree
<1>3. session \in TreeSession
  BY DEF IsTree
<1>4. /\ trSessions' \in Seq(TreeSession) /\ DOMAIN trSessions' = DOMAIN trSessions
      /\ trSessions'[s] = session /\ \A r \in DOMAIN trSessions \ {s} : trSessions'[r] = trSessions[r]
  BY <1>1, <1>2, <1>3
<1>5. trTouched \subseteq trTouched' /\ (FilledByOther(s, a) => s \in trTouched')
      /\ (~FilledByOther(s, a) => trTouched' = trTouched)
  BY <1>2 DEF Touches
<1>6. \A r \in DOMAIN trSessions : IsTree(trSessions'[r]) /\ Begins(trSessions[r], trSessions'[r])
  <2> TAKE r \in DOMAIN trSessions
  <2>1. CASE r = s
    BY <1>4, <2>1
  <2>2. CASE r # s
    BY <1>1, <1>4, <2>2, BeginsSelf
  <2> QED
    BY <2>1, <2>2
<1>7. TreesGrow
  BY <1>4, <1>5, <1>6 DEF TreesGrow
<1>8. OthersLeft(a)
  <2> SUFFICES ASSUME NEW b \in TreeAgent \ {a}, CopyJob(b).target # 0,
                      CopyJob(b).target \notin trTouched'
               PROVE  trSessions'[CopyJob(b).target] = trSessions[CopyJob(b).target]
    BY DEF OthersLeft
  <2>1. CopyJob(b).target # s
    <3>1. CopyJob(b).target = s => FilledByOther(s, a)
      BY DEF FilledByOther, CopyJob
    <3> QED
      BY <1>5, <3>1
  <2>2. CopyJob(b).target \in DOMAIN trSessions
    BY DEF TreesInv, TargetsOwn, TreeCopy
  <2> QED
    BY <1>4, <2>1, <2>2
<1>9. SummariesFit'
  <2> SUFFICES ASSUME NEW r \in DOMAIN trSessions
               PROVE  SummaryFits(trSessions'[r], r, trMisplaced', trInherited')
    BY <1>4 DEF SummariesFit
  <2>1. SummaryFits(trSessions[r], r, trMisplaced, trInherited)
    BY DEF TreesInv, SummariesFit
  <2>2. trSessions'[r].compaction = trSessions[r].compaction
        => SummaryFits(trSessions'[r], r, trMisplaced', trInherited')
    BY <1>1, <1>6, <2>1, SummaryStays
  <2>3. CASE r = s
    BY <1>4, <2>2, <2>3
  <2>4. CASE r # s
    BY <1>4, <2>2, <2>4
  <2> QED
    BY <2>3, <2>4
<1> QED
  BY <1>4, <1>5, <1>7, <1>8, <1>9

\* An empty session is added.
LEMMA Started ==
  ASSUME TreesInv, NEW a \in TreeAgent, trSessions' = Append(trSessions, EmptySession("here")),
         UNCHANGED <<trTouched, trMisplaced, trInherited>>
  PROVE  /\ TreesGrow /\ OthersLeft(a) /\ SummariesFit'
         /\ Len(trSessions) \in Nat /\ Len(trSessions) + 1 \notin DOMAIN trSessions
         /\ Len(trSessions) + 1 \in DOMAIN trSessions'
         /\ trSessions'[Len(trSessions) + 1] = EmptySession("here")
<1> DEFINE n == Len(trSessions)
           empty == EmptySession("here")
<1>1. trSessions \in Seq(TreeSession) /\ \A r \in DOMAIN trSessions : IsTree(trSessions[r])
  BY DEF TreesInv, TreeTypes
<1>2. empty \in TreeSession /\ IsTree(empty) /\ empty.compaction = NoCompaction
  BY EmptyIsTree DEF IsTree, EmptySession
<1> HIDE DEF empty
<1>3. trSessions' = Append(trSessions, empty)
  BY DEF empty
<1>4. /\ n \in Nat /\ DOMAIN trSessions = 1..n /\ trSessions' \in Seq(TreeSession)
      /\ DOMAIN trSessions' = 1..(n + 1) /\ trSessions'[n + 1] = empty
      /\ \A r \in 1..n : trSessions'[r] = trSessions[r]
  BY <1>1, <1>2, <1>3
<1> HIDE DEF n
<1>5. \A r \in 1..(n + 1) : r \in 1..n \/ r = n + 1
  BY <1>4
<1>6. \A r \in DOMAIN trSessions' : IsTree(trSessions'[r])
  BY <1>1, <1>2, <1>4, <1>5
<1>7. \A r \in DOMAIN trSessions : Begins(trSessions[r], trSessions'[r])
  BY <1>4, BeginsSelf
<1>8. DOMAIN trSessions \subseteq DOMAIN trSessions' /\ n + 1 \in DOMAIN trSessions' /\ n + 1 \notin DOMAIN trSessions
  BY <1>4
<1>9. TreesGrow
  BY <1>4, <1>6, <1>7, <1>8 DEF TreesGrow
<1>10. OthersLeft(a)
  <2> SUFFICES ASSUME NEW b \in TreeAgent \ {a}, CopyJob(b).target # 0
               PROVE  trSessions'[CopyJob(b).target] = trSessions[CopyJob(b).target]
    BY DEF OthersLeft
  <2>1. CopyJob(b).target \in DOMAIN trSessions
    BY DEF TreesInv, TargetsOwn, TreeCopy
  <2> QED
    BY <1>4, <2>1
<1>11. SummariesFit'
  <2> SUFFICES ASSUME NEW r \in DOMAIN trSessions'
               PROVE  SummaryFits(trSessions'[r], r, trMisplaced, trInherited)
    BY DEF SummariesFit
  <2>1. CASE r = n + 1
    BY <1>2, <1>4, <2>1, NoSummaryFits
  <2>2. CASE r \in 1..n
    <3>1. SummaryFits(trSessions[r], r, trMisplaced, trInherited)
      BY <1>4, <2>2 DEF TreesInv, SummariesFit
    <3> QED
      BY <1>4, <2>2, <3>1
  <2> QED
    BY <1>4, <1>5, <2>1, <2>2
<1> QED
  BY <1>4, <1>8, <1>9, <1>10, <1>11 DEF n, empty

\* What an agent has loaded, waits to save or copies stays as it is while others go on.
LEMMA OthersKeep ==
  ASSUME TreesInv, TreesGrow, NEW a \in TreeAgent, NEW b \in TreeAgent \ {a}, OthersLeft(a),
         trAgents'[b] = trAgents[b]
  PROVE  TreeOwn(b)'
<1> DEFINE session == trAgents[b].snapshot
<1>1. /\ TreeSnapshot(b) /\ TreePending(b) /\ TreeCopy(b)
      /\ SidOf(b) \in DOMAIN trSessions /\ IsTree(SessionOf(b)) /\ SessionOf(b) = trSessions[SidOf(b)]
  BY TreeAgentIs DEF TreesInv
<1>2. SidOf(b)' = SidOf(b) /\ SessionOf(b)' = trSessions'[SidOf(b)] /\ CopyJob(b)' = CopyJob(b)
  BY DEF SidOf, SessionOf, CopyJob
<1>3. TreeSnapshot(b)'
  <2> SUFFICES ASSUME trAgents[b].pc \in {"ask", "save", "saveManually"}
               PROVE  /\ IsTree(session) /\ Begins(session, SessionOf(b)')
                      /\ SummaryFits(session, SidOf(b), trMisplaced', trInherited')
    BY <1>2 DEF TreeSnapshot
  <2>1. IsTree(session) /\ Begins(session, SessionOf(b)) /\ SummaryFits(session, SidOf(b), trMisplaced, trInherited)
    BY <1>1 DEF TreeSnapshot
  <2>2. IsTree(trSessions'[SidOf(b)]) /\ Begins(trSessions[SidOf(b)], trSessions'[SidOf(b)])
        /\ trMisplaced \subseteq trMisplaced' /\ trInherited \subseteq trInherited'
    BY <1>1 DEF TreesGrow
  <2>3. Begins(session, SessionOf(b)')
    BY <1>1, <1>2, <2>1, <2>2, BeginsOn
  <2>4. SummaryFits(session, SidOf(b), trMisplaced', trInherited')
    BY <2>1, <2>2 DEF SummaryFits
  <2> QED
    BY <2>1, <2>3, <2>4
<1>4. TreePending(b)'
  <2>1. trMisplaced \subseteq trMisplaced' /\ trInherited \subseteq trInherited'
    BY DEF TreesGrow
  <2> QED
    BY <1>1, <1>2, <2>1 DEF TreePending
<1>5. TreeCopy(b)'
  <2> SUFFICES ASSUME trAgents[b].pc \in {"copy", "copied"} PROVE TreeCopy(b)'
    BY DEF TreeCopy
  <2> DEFINE job == CopyJob(b)
  <2>1. job.target # 0 /\ job.target \in DOMAIN trSessions
    BY <1>1 DEF TreesInv, TargetsOwn, TreeCopy
  <2>2. job.target \in DOMAIN trSessions'
        /\ (job.target \notin trTouched' => job.target \notin trTouched /\ trSessions'[job.target] = trSessions[job.target])
        /\ trMisplaced \subseteq trMisplaced' /\ trInherited \subseteq trInherited'
    BY <2>1 DEF TreesGrow, OthersLeft
  <2>3. JobSays(b)' = JobSays(b)
    BY <1>2 DEF JobSays
  <2> HIDE DEF JobSays
  <2> QED
    BY <1>1, <1>2, <2>2, <2>3 DEF TreeCopy
<1> QED
  BY <1>3, <1>4, <1>5 DEF TreeOwn

\* The step of an agent keeps the invariant if it does for this agent.
LEMMA TreesStep ==
  ASSUME TreesInv, NEW a \in TreeAgent, TreesGrow, OthersLeft(a), SummariesFit', TreeTurn(a),
         TreeBudgetType', TreeOwn(a)'
  PROVE  TreesInv'
<1>1. \A b \in TreeAgent : TreeOwn(b)'
  <2> TAKE b \in TreeAgent
  <2>1. CASE b = a
    BY <2>1
  <2>2. CASE b # a
    <3>1. b \in TreeAgent \ {a} /\ trAgents'[b] = trAgents[b]
      BY <2>2 DEF TreeTurn
    <3> QED
      BY <3>1, OthersKeep
  <2> QED
    BY <2>1, <2>2
<1>2. TreeTypes'
  <2>1. \A b \in TreeAgent : trAgents'[b].sid \in DOMAIN trSessions'
    <3> TAKE b \in TreeAgent
    <3>1. b # a => trAgents'[b] = trAgents[b] /\ trAgents[b].sid \in DOMAIN trSessions
      BY DEF TreeTurn, TreesInv, TreeTypes, SidOf
    <3> QED
      BY <3>1 DEF TreeTurn, TreesGrow
  <2> QED
    BY <2>1 DEF TreesGrow, TreeTurn, TreeTypes, TreeBudgetType, SidOf
<1>3. TargetsOwn'
  <2> DEFINE target(b) == trAgents[b].job.target
             target2(b) == trAgents'[b].job.target
  <2>1. /\ \A b \in TreeAgent : target(b) # 0 <=> trAgents[b].pc \in {"copy", "copied"}
        /\ \A b, c \in TreeAgent : target(b) = target(c) /\ target(b) # 0 => b = c
    BY DEF TreesInv, TargetsOwn, CopyJob
  <2>2. \A b \in TreeAgent : target(b) # 0 => target(b) \in DOMAIN trSessions
    BY <2>1 DEF TreesInv, TreeCopy, CopyJob
  <2>3. /\ \A b \in TreeAgent \ {a} : target2(b) = target(b) /\ trAgents'[b].pc = trAgents[b].pc
        /\ target2(a) # 0 <=> trAgents'[a].pc \in {"copy", "copied"}
        /\ target2(a) \in {0, target(a)} \/ target2(a) \notin DOMAIN trSessions
    BY DEF TreeTurn, CopyJob
  <2> HIDE DEF target, target2
  <2>4. \A b \in TreeAgent : target2(b) # 0 <=> trAgents'[b].pc \in {"copy", "copied"}
    BY <2>1, <2>3
  <2>5. \A b \in TreeAgent \ {a} : target2(b) = target2(a) => target2(b) = 0
    BY <2>1, <2>2, <2>3
  <2>6. \A b, c \in TreeAgent : target2(b) = target2(c) /\ target2(b) # 0 => b = c
    BY <2>1, <2>3, <2>5
  <2> QED
    BY <2>4, <2>6 DEF TargetsOwn, CopyJob, target2
<1> QED
  BY <1>1, <1>2, <1>3 DEF TreesInv, TreeOwn

\* An agent that is neither asking, compacting nor copying.
LEMMA TreeRests ==
  ASSUME NEW a, trAgents'[a].pc \in {"idle", "compile", "tool"}
  PROVE  TreeOwn(a)'
<1>1. TreeSnapshot(a)' /\ TreePending(a)' /\ TreeCopy(a)'
  BY DEF TreeSnapshot, TreePending, TreeCopy
<1> QED
  BY <1>1 DEF TreeOwn

LEMMA TreeGoes ==
  ASSUME TreesInv, NEW a \in TreeAgent, TreesGrow, OthersLeft(a), SummariesFit', TreeBudgetType',
         trAgents[a].pc \notin {"copy", "copied"}, NEW pc \in {"idle", "compile", "tool"}, TreeGoto(a, pc)
  PROVE  TreesInv'
<1>1. SidOf(a) \in DOMAIN trSessions /\ SidOf(a) = trAgents[a].sid
  BY TreeAgentIs
<1>2. EmptySession("here") \in TreeSession /\ TreeIdle(0).snapshot = EmptySession("here") /\ pc \in TreePc
  BY EmptyIsTree DEF IsTree, TreeIdle, TreePc
<1>3. TreeMoves(a, pc, EmptySession("here"))
  BY <1>2 DEF TreeGoto, TreeMoves
<1>4. /\ trAgents' \in [TreeAgent -> TreeState]
      /\ \A b \in TreeAgent \ {a} : trAgents'[b] = trAgents[b]
      /\ trAgents'[a].sid = trAgents[a].sid /\ trAgents'[a].pc = pc /\ trAgents'[a].job = trAgents[a].job
  BY <1>2, <1>3, TreePasses
<1>5. CopyJob(a).target = 0 /\ CopyJob(a) = trAgents[a].job
  BY DEF TreesInv, TargetsOwn, CopyJob
<1>6. trAgents'[a].sid \in DOMAIN trSessions'
  BY <1>1, <1>4 DEF TreesGrow
<1>7. TreeTurn(a)
  BY <1>4, <1>5, <1>6 DEF TreeTurn
<1>8. TreeOwn(a)'
  BY <1>4, TreeRests
<1> QED
  BY <1>7, <1>8, TreesStep

\* An agent that says something.
LEMMA TreeSaysMore ==
  ASSUME TreesInv, NEW a \in TreeAgent, NEW role \in {"user", "text", "calls", "tool"}, TreeSays(a, role)
  PROVE  TreesGrow /\ OthersLeft(a) /\ SummariesFit' /\ TreeBudgetType'
<1> DEFINE msg == [role |-> role, id |-> <<a, trBudget[a].say>>]
           session == SessionOf(a)
           grown == Appended(session, msg)
<1>1. trBudget \in [TreeAgent -> [say : Nat, command : Nat]] /\ trBudget[a].say > 0
      /\ trBudget' = [trBudget EXCEPT ![a].say = @ - 1]
  BY DEF TreesInv, TreeTypes, TreeSays
<1>2. trBudget[a].say \in Nat /\ trBudget[a].say - 1 \in Nat
  BY <1>1
<1>3. TreeBudgetType'
  BY <1>1, <1>2 DEF TreeBudgetType
<1>4. msg \in TreeMessage
  BY <1>2 DEF TreeMessage
<1>5. MutateTree(a, SidOf(a), grown) /\ trMisplaced' = trMisplaced /\ trInherited' = trInherited
  BY DEF TreeSays
<1>6. SidOf(a) \in DOMAIN trSessions /\ IsTree(session) /\ session = trSessions[SidOf(a)]
  BY TreeAgentIs
<1> HIDE DEF msg, session
<1>7. IsTree(grown) /\ Begins(session, grown) /\ grown.compaction = session.compaction
  BY <1>4, <1>6, AppendedGrows
<1> HIDE DEF grown
<1> QED
  BY <1>3, <1>5, <1>6, <1>7, Written

LEMMA SubmitPromptKeeps ==
  ASSUME TreesInv, NEW a \in TreeAgent, SubmitPrompt(a) PROVE TreesInv'
<1>1. trAgents[a].pc = "idle" /\ TreeSays(a, "user") /\ TreeGoto(a, "compile")
  BY DEF SubmitPrompt, TreeAt
<1>2. TreesGrow /\ OthersLeft(a) /\ SummariesFit' /\ TreeBudgetType'
  BY <1>1, TreeSaysMore
<1> QED
  BY <1>1, <1>2, TreeGoes

LEMMA AnswerTextKeeps ==
  ASSUME TreesInv, NEW a \in TreeAgent, AnswerText(a) PROVE TreesInv'
<1>1. trAgents[a].pc = "ask" /\ TreeSays(a, "text") /\ TreeGoto(a, "idle")
  BY DEF AnswerText, TreeAt
<1>2. TreesGrow /\ OthersLeft(a) /\ SummariesFit' /\ TreeBudgetType'
  BY <1>1, TreeSaysMore
<1> QED
  BY <1>1, <1>2, TreeGoes

LEMMA AnswerCallsKeeps ==
  ASSUME TreesInv, NEW a \in TreeAgent, AnswerCalls(a) PROVE TreesInv'
<1>1. trAgents[a].pc = "ask" /\ TreeSays(a, "calls") /\ TreeGoto(a, "tool")
  BY DEF AnswerCalls, TreeAt
<1>2. TreesGrow /\ OthersLeft(a) /\ SummariesFit' /\ TreeBudgetType'
  BY <1>1, TreeSaysMore
<1> QED
  BY <1>1, <1>2, TreeGoes

LEMMA ToolResultKeeps ==
  ASSUME TreesInv, NEW a \in TreeAgent, ToolResult(a) PROVE TreesInv'
<1>1. trAgents[a].pc = "tool" /\ TreeSays(a, "tool") /\ TreeGoto(a, "compile")
  BY DEF ToolResult, TreeAt
<1>2. TreesGrow /\ OthersLeft(a) /\ SummariesFit' /\ TreeBudgetType'
  BY <1>1, TreeSaysMore
<1> QED
  BY <1>1, <1>2, TreeGoes

\* An agent that has loaded its session, to ask or to compact it.
LEMMA TreeLoads ==
  ASSUME TreesInv, NEW a \in TreeAgent, trAgents[a].pc \notin {"copy", "copied"},
         UNCHANGED <<trSessions, trTouched, trMisplaced, trInherited>>, TreeBudgetType',
         trAgents' \in [TreeAgent -> TreeState], \A b \in TreeAgent \ {a} : trAgents'[b] = trAgents[b],
         trAgents'[a].sid = trAgents[a].sid, trAgents'[a].pc \in {"ask", "save", "saveManually"},
         trAgents'[a].snapshot = SessionOf(a), trAgents'[a].job = trAgents[a].job, TreePending(a)'
  PROVE  TreesInv'
<1> DEFINE session == SessionOf(a)
<1>1. /\ SidOf(a) = trAgents[a].sid /\ SidOf(a) \in DOMAIN trSessions /\ session = trSessions[SidOf(a)]
      /\ IsTree(session) /\ SummaryFits(session, SidOf(a), trMisplaced, trInherited)
  BY TreeAgentIs
<1>2. CopyJob(a).target = 0 /\ CopyJob(a) = trAgents[a].job
  BY DEF TreesInv, TargetsOwn, CopyJob
<1>3. TreesGrow /\ OthersLeft(a) /\ SummariesFit'
  BY Unwritten
<1>4. TreeTurn(a)
  BY <1>1, <1>2 DEF TreeTurn
<1>5. SidOf(a)' = SidOf(a) /\ SessionOf(a)' = session
  BY <1>1 DEF SidOf, SessionOf
<1>6. TreeSnapshot(a)'
  BY <1>1, <1>5, BeginsSelf DEF TreeSnapshot
<1>7. TreeCopy(a)'
  BY DEF TreeCopy
<1> QED
  BY <1>3, <1>4, <1>6, <1>7, TreesStep DEF TreeOwn

LEMMA TreeCompacts ==
  ASSUME TreesInv, NEW a \in TreeAgent, trAgents[a].pc \notin {"copy", "copied"},
         UNCHANGED <<trSessions, trTouched, trMisplaced, trInherited>>, TreeBudgetType',
         NEW pc \in {"save", "saveManually"}, NEW split \in 1..Len(ActiveBranch(SessionOf(a))),
         TreeMovesWith(a, pc, SessionOf(a), Summarized(SessionOf(a), split))
  PROVE  TreesInv'
<1> DEFINE session == SessionOf(a)
           pending == Summarized(session, split)
<1>1. /\ IsTree(session) /\ SummaryFits(session, SidOf(a), trMisplaced, trInherited)
      /\ SidOf(a) = trAgents[a].sid
  BY TreeAgentIs
<1>2. /\ pending.upTo \in DOMAIN session.entries /\ pending \in TreeSummary
      /\ TreeSaid(session, pending.upTo) \subseteq pending.covers
      /\ SidOf(a) \notin trMisplaced \cup trInherited /\ ~TookOver(session, pending)
         => pending.covers \subseteq TreeSaid(session, pending.upTo)
  <2> HIDE DEF session
  <2> QED
    BY <1>1, SummarizedFits DEF session
<1>3. session \in TreeSession /\ pc \in TreePc
  BY <1>1 DEF IsTree, TreePc
<1> HIDE DEF pending, session
<1>4. TreeMovesWith(a, pc, session, pending)
  BY DEF session, pending
<1>5. /\ trAgents' \in [TreeAgent -> TreeState]
      /\ \A b \in TreeAgent \ {a} : trAgents'[b] = trAgents[b]
      /\ trAgents'[a].sid = trAgents[a].sid /\ trAgents'[a].pc = pc /\ trAgents'[a].snapshot = session
      /\ trAgents'[a].pending = pending /\ trAgents'[a].job = trAgents[a].job
  BY <1>2, <1>3, <1>4, TreePassesWith
<1>6. TreePending(a)'
  <2>1. SidOf(a)' = SidOf(a)
    BY <1>1, <1>5 DEF SidOf
  <2> QED
    BY <1>2, <1>5, <2>1 DEF TreePending
<1>7. session = SessionOf(a)
  BY DEF session
<1> QED
  BY <1>5, <1>6, <1>7, TreeLoads

\* The messages of the branch of an agent's session.
LEMMA BranchLen ==
  ASSUME NEW session, IsTree(session)
  PROVE  /\ Len(MessagesAt(session, ActiveBranch(session))) = Len(ActiveBranch(session))
         /\ Len(ActiveBranch(session)) \in Nat
         /\ DOMAIN MessagesAt(session, ActiveBranch(session)) = 1..Len(ActiveBranch(session))
<1>1. session.leaf \in 0..Len(session.entries)
  BY TreeShape
<1>2. /\ MessagesAt(session, ActiveBranch(session)) \in Seq(TreeMessage)
      /\ Len(MessagesAt(session, ActiveBranch(session))) = Len(ActiveBranch(session))
      /\ Len(ActiveBranch(session)) \in Nat
  BY <1>1, MessagesType DEF ActiveBranch
<1> DEFINE m == MessagesAt(session, ActiveBranch(session))
<1>3. m \in Seq(TreeMessage)
  BY <1>2
<1> HIDE DEF m
<1>4. DOMAIN m = 1..Len(m)
  BY <1>3
<1> QED
  BY <1>2, <1>4 DEF m

LEMMA AutoCompactKeeps ==
  ASSUME TreesInv, NEW a \in TreeAgent, AutoCompact(a) PROVE TreesInv'
<1> DEFINE session == SessionOf(a)
           messages == MessagesAt(session, ActiveBranch(session))
           First == TreeMoves(a, "ask", session)
           Second(split) == /\ KeepPairs(messages, split) > 0
                            /\ TreeMovesWith(a, "save", session, Summarized(session, KeepPairs(messages, split)))
<1>1. /\ trAgents[a].pc = "compile" /\ UNCHANGED <<trSessions, trTouched, trMisplaced, trInherited>>
      /\ trBudget' = trBudget
      /\ First \/ \E split \in 1..Len(messages) - 1 : Second(split)
  BY DEF AutoCompact, TreeAt, TreeMoves, TreeMovesWith
<1>2. TreeBudgetType'
  BY <1>1 DEF TreesInv, TreeTypes, TreeBudgetType
<1>3. IsTree(session) /\ trAgents[a].pending \in TreeSummary
  BY TreeAgentIs
<1>4. Len(messages) = Len(ActiveBranch(session)) /\ Len(messages) \in Nat
  BY <1>3, BranchLen
<1> HIDE DEF session, messages
<1>5. CASE First
  <2>1. session \in TreeSession /\ "ask" \in TreePc
    BY <1>3 DEF IsTree, TreePc
  <2>2. /\ trAgents' \in [TreeAgent -> TreeState]
        /\ \A b \in TreeAgent \ {a} : trAgents'[b] = trAgents[b]
        /\ trAgents'[a].sid = trAgents[a].sid /\ trAgents'[a].pc = "ask" /\ trAgents'[a].snapshot = session
        /\ trAgents'[a].job = trAgents[a].job
    BY <1>5, <2>1, TreePasses
  <2>3. TreePending(a)'
    BY <2>2 DEF TreePending
  <2> QED
    BY <1>1, <1>2, <2>2, <2>3, TreeLoads DEF session
<1>6. ASSUME NEW split \in 1..Len(messages) - 1, Second(split) PROVE TreesInv'
  <2>0. split \in Nat /\ split <= Len(messages)
    BY <1>4
  <2>1. KeepPairs(messages, split) \in 0..split
    BY <1>4, <2>0, KeepPairsType
  <2>2. KeepPairs(messages, split) \in 1..Len(ActiveBranch(session))
    BY <1>4, <1>6, <2>0, <2>1
  <2> QED
    BY <1>1, <1>2, <1>6, <2>2, TreeCompacts DEF session
<1> QED
  BY <1>1, <1>5, <1>6

\* The compaction was made of an earlier state of the session: it is of the same branch still.
LEMMA SaveCompactionKeeps ==
  ASSUME TreesInv, NEW a \in TreeAgent, SaveCompaction(a) PROVE TreesInv'
<1> DEFINE old == SessionOf(a)
           loaded == trAgents[a].snapshot
           pending == trAgents[a].pending
           session == [SessionOf(a) EXCEPT !.compaction = trAgents[a].pending]
           pc == IF TreeAt(a, "save") THEN "ask" ELSE "idle"
           next == IF TreeAt(a, "save") THEN session ELSE TreeIdle(0).snapshot
<1>1. /\ trAgents[a].pc \in {"save", "saveManually"}
      /\ MutateTree(a, SidOf(a), session)
      /\ TreeMovesWith(a, pc, next, NoCompaction)
      /\ trInherited' = (IF TookOver(loaded, pending) THEN trInherited \cup {SidOf(a)} ELSE trInherited)
      /\ trBudget' = trBudget /\ trMisplaced' = trMisplaced
  BY DEF SaveCompaction, TreeMovesWith, TreeAt
<1>2. /\ SidOf(a) \in DOMAIN trSessions /\ old = trSessions[SidOf(a)] /\ IsTree(old) /\ pending \in TreeSummary
      /\ SidOf(a) = trAgents[a].sid
  BY TreeAgentIs
<1>3. IsTree(loaded) /\ Begins(loaded, old)
  BY <1>1 DEF TreesInv, TreeSnapshot
<1>4. /\ pending.upTo \in DOMAIN loaded.entries /\ TreeSaid(loaded, pending.upTo) \subseteq pending.covers
      /\ SidOf(a) \notin trMisplaced \cup trInherited /\ ~TookOver(loaded, pending)
         => pending.covers \subseteq TreeSaid(loaded, pending.upTo)
  BY <1>1 DEF TreesInv, TreePending
<1>5. pending.upTo \in 0..Len(loaded.entries) /\ pending.upTo \in 0..Len(old.entries)
  <2>1. Len(old.entries) \in Nat /\ Len(loaded.entries) \in Nat /\ DOMAIN loaded.entries = 1..Len(loaded.entries)
    BY <1>2, <1>3, TreeShape
  <2>2. Len(loaded.entries) <= Len(old.entries)
    BY <1>3 DEF Begins
  <2> QED
    BY <1>4, <2>1, <2>2
<1>6. session = [old EXCEPT !.compaction = pending]
  OBVIOUS
<1> HIDE DEF session, old, loaded, pending
<1>7. IsTree(session) /\ Begins(old, session) /\ session.compaction = pending
  BY <1>2, <1>5, <1>6, SummedGrows
<1>8. TreeSaid(session, pending.upTo) = TreeSaid(loaded, pending.upTo)
  <2>1. Begins(loaded, session)
    BY <1>2, <1>3, <1>7, BeginsOn
  <2> QED
    BY <1>3, <1>5, <1>7, <2>1, SaidStays
<1>9. SummaryFits(session, SidOf(a), trMisplaced', trInherited')
  <2>1. SidOf(a) \notin trMisplaced' \cup trInherited'
        => SidOf(a) \notin trMisplaced \cup trInherited /\ ~TookOver(loaded, pending)
    BY <1>1
  <2> QED
    BY <1>4, <1>7, <1>8, <2>1 DEF SummaryFits
<1>10. /\ TreesGrow /\ OthersLeft(a) /\ SummariesFit'
       /\ trSessions'[SidOf(a)] = session /\ DOMAIN trSessions' = DOMAIN trSessions
  BY <1>1, <1>2, <1>7, <1>9, Written
<1>11. pc \in TreePc /\ next \in TreeSession /\ NoCompaction \in TreeSummary
  <2>1. TreeIdle(0).snapshot = EmptySession("here") /\ EmptySession("here") \in TreeSession
    BY EmptyIsTree DEF IsTree, TreeIdle
  <2> QED
    BY <1>7, <2>1, EmptyIsTree DEF IsTree, TreePc
<1>12. (pc = "ask" /\ next = session) \/ pc = "idle"
  OBVIOUS
<1> HIDE DEF pc, next
<1>13. /\ trAgents' \in [TreeAgent -> TreeState]
       /\ \A b \in TreeAgent \ {a} : trAgents'[b] = trAgents[b]
       /\ trAgents'[a].sid = trAgents[a].sid /\ trAgents'[a].pc = pc /\ trAgents'[a].snapshot = next
       /\ trAgents'[a].job = trAgents[a].job
  BY <1>1, <1>11, TreePassesWith
<1>14. CopyJob(a).target = 0 /\ CopyJob(a) = trAgents[a].job
  BY <1>1 DEF TreesInv, TargetsOwn, CopyJob
<1>15. pc \notin {"copy", "copied"}
  BY <1>12
<1>16. TreeTurn(a)
  BY <1>2, <1>10, <1>13, <1>14, <1>15 DEF TreeTurn
<1>17. TreeOwn(a)'
  <2>1. CASE pc = "idle"
    BY <1>13, <2>1, TreeRests
  <2>2. CASE pc = "ask" /\ next = session
    <3>1. SidOf(a)' = SidOf(a) /\ SessionOf(a)' = session
      BY <1>2, <1>10, <1>13 DEF SidOf, SessionOf
    <3>2. TreeSnapshot(a)'
      BY <1>7, <1>9, <1>13, <2>2, <3>1, BeginsSelf DEF TreeSnapshot
    <3>3. TreePending(a)' /\ TreeCopy(a)'
      BY <1>13, <2>2 DEF TreePending, TreeCopy
    <3> QED
      BY <3>2, <3>3 DEF TreeOwn
  <2> QED
    BY <1>12, <2>1, <2>2
<1>18. TreeBudgetType'
  BY <1>1 DEF TreesInv, TreeTypes, TreeBudgetType
<1> QED
  BY <1>10, <1>16, <1>17, <1>18, TreesStep

LEMMA IdleState ==
  ASSUME NEW sid \in Nat
  PROVE  TreeIdle(sid) \in TreeState /\ TreeIdle(sid).sid = sid /\ TreeIdle(sid).pc = "idle"
         /\ TreeIdle(sid).job.target = 0
<1> DEFINE All == Seq(TreeMessage)
<1>1. NoCompaction \in TreeSummary /\ EmptySession("here") \in TreeSession /\ "idle" \in TreePc
  BY EmptyIsTree DEF IsTree, TreePc
<1>2. NoCopyJob \in TreeJob
  <2>1. <<>> \in All
    OBVIOUS
  <2> HIDE DEF All
  <2>2. NoCopyJob \in [kind : {"none", "fork", "import"}, source : Nat, target : Nat, all : All,
                       copied : Nat, compaction : TreeSummary]
    BY <1>1, <2>1 DEF NoCopyJob
  <2> QED
    BY <2>2 DEF TreeJob, All
<1>3. /\ TreeIdle(sid).sid = sid /\ TreeIdle(sid).pc = "idle" /\ TreeIdle(sid).job.target = 0
  BY DEF TreeIdle, NoCopyJob
<1>4. TreeIdle(sid) \in TreeState
  BY <1>1, <1>2 DEF TreeIdle, TreeState
<1> QED
  BY <1>3, <1>4

\* An agent is idle again, on one of the sessions.
LEMMA TreeIdles ==
  ASSUME TreesInv, NEW a \in TreeAgent, NEW sid \in DOMAIN trSessions,
         trAgents' = [trAgents EXCEPT ![a] = TreeIdle(sid)],
         UNCHANGED <<trSessions, trBudget, trTouched, trMisplaced, trInherited>>
  PROVE  TreesInv'
<1>1. sid \in Nat
  BY TreeAgentIs
<1>2. TreesGrow /\ OthersLeft(a) /\ SummariesFit'
  BY Unwritten
<1>3. TreeIdle(sid) \in TreeState /\ TreeIdle(sid).sid = sid /\ TreeIdle(sid).pc = "idle"
      /\ TreeIdle(sid).job.target = 0
  BY <1>1, IdleState
<1> DEFINE new == TreeIdle(sid)
<1> HIDE DEF new
<1>4. trAgents' = [trAgents EXCEPT ![a] = new] /\ new \in TreeState
  BY <1>3 DEF new
<1>5. /\ trAgents' \in [TreeAgent -> TreeState] /\ trAgents'[a] = new
      /\ \A b \in TreeAgent \ {a} : trAgents'[b] = trAgents[b]
  BY <1>4, TreeTurns
<1>6. TreeTurn(a)
  BY <1>3, <1>5 DEF TreeTurn, new
<1>7. TreeOwn(a)'
  BY <1>3, <1>5, TreeRests DEF new
<1>8. TreeBudgetType'
  BY DEF TreesInv, TreeTypes, TreeBudgetType
<1> QED
  BY <1>2, <1>6, <1>7, <1>8, TreesStep

LEMMA TreeFailsKeeps ==
  ASSUME TreesInv, NEW a \in TreeAgent, TreeFails(a) PROVE TreesInv'
<1>1. SidOf(a) \in DOMAIN trSessions
  BY TreeAgentIs
<1> QED
  BY <1>1, TreeIdles DEF TreeFails

LEMMA EndCopyKeeps ==
  ASSUME TreesInv, NEW a \in TreeAgent, EndCopy(a) PROVE TreesInv'
<1>1. SidOf(a) \in DOMAIN trSessions
  BY TreeAgentIs
<1>2. CopyJob(a).target \in DOMAIN trSessions
  BY DEF EndCopy, TreeAt, TreesInv, TreeCopy
<1>3. PICK sid \in DOMAIN trSessions : trAgents' = [trAgents EXCEPT ![a] = TreeIdle(sid)]
  <2>1. CASE CopyJob(a).kind = "fork"
    BY <1>2, <2>1 DEF EndCopy
  <2>2. CASE CopyJob(a).kind # "fork"
    BY <1>1, <2>2 DEF EndCopy
  <2> QED
    BY <2>1, <2>2
<1>4. UNCHANGED <<trSessions, trBudget, trTouched, trMisplaced, trInherited>>
  BY DEF EndCopy
<1> QED
  BY <1>3, <1>4, TreeIdles

\* A command takes one of those an agent may give.
LEMMA TreeCommands ==
  ASSUME TreesInv, NEW a \in TreeAgent, TreeCommand(a)
  PROVE  TreeBudgetType' /\ trAgents[a].pc = "idle" /\ CopyJob(a).target = 0 /\ CopyJob(a) = trAgents[a].job
<1>1. trBudget \in [TreeAgent -> [say : Nat, command : Nat]] /\ trBudget[a].command > 0
      /\ trBudget' = [trBudget EXCEPT ![a].command = @ - 1] /\ trAgents[a].pc = "idle"
  BY DEF TreesInv, TreeTypes, TreeCommand, TreeAt
<1>2. trBudget[a].command - 1 \in Nat
  BY <1>1
<1>3. TreeBudgetType'
  BY <1>1, <1>2 DEF TreeBudgetType
<1>4. CopyJob(a).target = 0 /\ CopyJob(a) = trAgents[a].job
  BY <1>1 DEF TreesInv, TargetsOwn, CopyJob
<1> QED
  BY <1>1, <1>3, <1>4

LEMMA MoveLeafKeeps ==
  ASSUME TreesInv, NEW a \in TreeAgent, MoveLeaf(a) PROVE TreesInv'
<1> DEFINE session == SessionOf(a)
           moved(e) == [session EXCEPT !.leaf = e]
<1>1. /\ TreeCommand(a) /\ trAgents' = trAgents /\ trMisplaced' = trMisplaced /\ trInherited' = trInherited
  BY DEF MoveLeaf
<1>2. PICK e \in DOMAIN session.entries : MutateTree(a, SidOf(a), moved(e))
  BY DEF MoveLeaf
<1>3. SidOf(a) \in DOMAIN trSessions /\ IsTree(session) /\ session = trSessions[SidOf(a)]
      /\ SidOf(a) = trAgents[a].sid
  BY TreeAgentIs
<1> HIDE DEF session
<1>4. IsTree(moved(e)) /\ Begins(session, moved(e)) /\ moved(e).compaction = session.compaction
  BY <1>3, MovedGrows
<1> HIDE DEF moved
<1>5. TreesGrow /\ OthersLeft(a) /\ SummariesFit' /\ DOMAIN trSessions' = DOMAIN trSessions
  BY <1>1, <1>2, <1>3, <1>4, Written
<1>6. TreeBudgetType' /\ trAgents[a].pc = "idle" /\ CopyJob(a).target = 0 /\ CopyJob(a) = trAgents[a].job
  BY <1>1, TreeCommands
<1>7. TreeTurn(a)
  BY <1>1, <1>3, <1>5, <1>6 DEF TreeTurn, TreesInv, TreeTypes
<1>8. TreeOwn(a)'
  BY <1>1, <1>6, TreeRests
<1> QED
  BY <1>5, <1>6, <1>7, <1>8, TreesStep

LEMMA CompactByHandKeeps ==
  ASSUME TreesInv, NEW a \in TreeAgent, CompactByHand(a) PROVE TreesInv'
<1> DEFINE session == SessionOf(a)
           messages == MessagesAt(session, ActiveBranch(session))
           splits == {KeepPairs(messages, s) : s \in 1..Len(messages) - 1}
                     \cup {s \in DOMAIN messages : s + 2 = Len(messages)}
<1>1. /\ TreeCommand(a) /\ UNCHANGED <<trSessions, trTouched, trMisplaced, trInherited>>
      /\ \E split \in splits \ {0} : TreeMovesWith(a, "saveManually", session, Summarized(session, split))
  BY DEF CompactByHand, TreeMovesWith
<1>2. IsTree(session)
  BY TreeAgentIs
<1>3. /\ Len(messages) = Len(ActiveBranch(session)) /\ Len(messages) \in Nat
      /\ DOMAIN messages = 1..Len(ActiveBranch(session))
  BY <1>2, BranchLen
<1>4. TreeBudgetType' /\ trAgents[a].pc = "idle"
  BY <1>1, TreeCommands
<1>5. PICK split \in splits \ {0} : TreeMovesWith(a, "saveManually", session, Summarized(session, split))
  BY <1>1
<1> HIDE DEF session, messages
<1>6. split \in 1..Len(ActiveBranch(session))
  <2>1. CASE split \in DOMAIN messages
    BY <1>3, <2>1
  <2>2. CASE split \notin DOMAIN messages
    <3>1. PICK s \in 1..Len(messages) - 1 : split = KeepPairs(messages, s)
      BY <1>5, <2>2
    <3>2. s \in Nat /\ s <= Len(messages)
      BY <1>3
    <3>3. split \in 0..s /\ split # 0
      BY <1>3, <1>5, <3>1, <3>2, KeepPairsType
    <3> DEFINE n == Len(ActiveBranch(session))
    <3>4. n \in Nat /\ s \in Nat /\ s <= n /\ split \in 0..s /\ split # 0
      BY <1>3, <3>2, <3>3
    <3> HIDE DEF n
    <3> QED
      BY ONLY <3>4 DEF n
  <2> QED
    BY <2>1, <2>2
<1> QED
  BY <1>1, <1>4, <1>5, <1>6, TreeCompacts DEF session

\* An agent resumes a session, begins a copy or copies a message.
TreeResumes(a, sid) == trAgents' = [trAgents EXCEPT ![a].sid = sid]
TreeBegins(a, job) == trAgents' = [trAgents EXCEPT ![a].pc = "copy", ![a].job = job]
TreeCopies(a) == trAgents' = [trAgents EXCEPT ![a].job.copied = @ + 1]

LEMMA TreeResumed ==
  ASSUME TreesInv, NEW a \in TreeAgent, NEW sid \in Nat, TreeResumes(a, sid)
  PROVE  /\ trAgents' \in [TreeAgent -> TreeState]
         /\ \A b \in TreeAgent \ {a} : trAgents'[b] = trAgents[b]
         /\ trAgents'[a].sid = sid /\ trAgents'[a].pc = trAgents[a].pc /\ trAgents'[a].job = trAgents[a].job
<1>1. trAgents \in [TreeAgent -> [sid : Nat, pc : TreePc, snapshot : TreeSession, pending : TreeSummary, job : TreeJob]]
  BY DEF TreesInv, TreeTypes, TreeState
<1> HIDE DEF TreePc, TreeSession, TreeSummary, TreeJob
<1>2. trAgents' \in [TreeAgent -> [sid : Nat, pc : TreePc, snapshot : TreeSession, pending : TreeSummary, job : TreeJob]]
  BY <1>1 DEF TreeResumes
<1>3. /\ \A b \in TreeAgent \ {a} : trAgents'[b] = trAgents[b]
      /\ trAgents'[a].sid = sid /\ trAgents'[a].pc = trAgents[a].pc /\ trAgents'[a].job = trAgents[a].job
  BY <1>1 DEF TreeResumes
<1> QED
  BY <1>2, <1>3 DEF TreeState

LEMMA TreeBegun ==
  ASSUME TreesInv, NEW a \in TreeAgent, NEW job \in TreeJob, TreeBegins(a, job)
  PROVE  /\ trAgents' \in [TreeAgent -> TreeState]
         /\ \A b \in TreeAgent \ {a} : trAgents'[b] = trAgents[b]
         /\ trAgents'[a].sid = trAgents[a].sid /\ trAgents'[a].pc = "copy" /\ trAgents'[a].job = job
<1>1. trAgents \in [TreeAgent -> [sid : Nat, pc : TreePc, snapshot : TreeSession, pending : TreeSummary, job : TreeJob]]
      /\ "copy" \in TreePc
  BY DEF TreesInv, TreeTypes, TreeState, TreePc
<1> HIDE DEF TreePc, TreeSession, TreeSummary, TreeJob
<1>2. trAgents' \in [TreeAgent -> [sid : Nat, pc : TreePc, snapshot : TreeSession, pending : TreeSummary, job : TreeJob]]
  BY <1>1 DEF TreeBegins
<1>3. /\ \A b \in TreeAgent \ {a} : trAgents'[b] = trAgents[b]
      /\ trAgents'[a].sid = trAgents[a].sid /\ trAgents'[a].pc = "copy" /\ trAgents'[a].job = job
  BY <1>1 DEF TreeBegins
<1> QED
  BY <1>2, <1>3 DEF TreeState

LEMMA TreeCopied ==
  ASSUME TreesInv, NEW a \in TreeAgent, TreeCopies(a)
  PROVE  LET job == trAgents[a].job
             new == trAgents'[a].job
         IN  /\ trAgents' \in [TreeAgent -> TreeState]
             /\ \A b \in TreeAgent \ {a} : trAgents'[b] = trAgents[b]
             /\ trAgents'[a].sid = trAgents[a].sid /\ trAgents'[a].pc = trAgents[a].pc
             /\ new.copied = job.copied + 1 /\ new.source = job.source /\ new.target = job.target
             /\ new.all = job.all /\ new.compaction = job.compaction
<1> DEFINE All == Seq(TreeMessage)
           Job == [kind : {"none", "fork", "import"}, source : Nat, target : Nat, all : All, copied : Nat,
                   compaction : TreeSummary]
           job == trAgents[a].job
           next == [job EXCEPT !.copied = @ + 1]
           State == [sid : Nat, pc : TreePc, snapshot : TreeSession, pending : TreeSummary, job : TreeJob]
<1>1. trAgents \in [TreeAgent -> State] /\ trAgents[a] \in State
  BY DEF TreesInv, TreeTypes, TreeState
<1>2. job \in Job
  BY TreeAgentIs DEF TreeJob
<1> HIDE DEF All
<1>3. /\ next \in Job /\ next.copied = job.copied + 1 /\ next.source = job.source /\ next.target = job.target
      /\ next.all = job.all /\ next.compaction = job.compaction
  <2> HIDE DEF job
  <2> QED
    BY <1>2
<1>4. next \in TreeJob
  BY <1>3 DEF TreeJob, All
<1>5. trAgents' = [trAgents EXCEPT ![a].job = next]
  BY <1>1 DEF TreeCopies
<1> HIDE DEF next, Job
<1>6. trAgents' \in [TreeAgent -> State]
  <2> HIDE DEF TreePc, TreeSession, TreeSummary, TreeJob
  <2> QED
    BY <1>1, <1>4, <1>5
<1>7. /\ \A b \in TreeAgent \ {a} : trAgents'[b] = trAgents[b]
      /\ trAgents'[a].sid = trAgents[a].sid /\ trAgents'[a].pc = trAgents[a].pc /\ trAgents'[a].job = next
  BY <1>1, <1>5
<1> QED
  BY <1>3, <1>6, <1>7 DEF TreeState

LEMMA StartSessionKeeps ==
  ASSUME TreesInv, NEW a \in TreeAgent, StartSession(a) PROVE TreesInv'
<1> DEFINE n == Len(trSessions) + 1
<1>1. /\ TreeCommand(a) /\ trSessions' = Append(trSessions, EmptySession("here")) /\ TreeResumes(a, n)
      /\ UNCHANGED <<trTouched, trMisplaced, trInherited>>
  BY DEF StartSession, TreeResumes
<1>2. TreesGrow /\ OthersLeft(a) /\ SummariesFit' /\ Len(trSessions) \in Nat /\ n \in DOMAIN trSessions'
  BY <1>1, Started
<1>3. n \in Nat
  BY <1>2
<1> HIDE DEF n
<1>4. TreeBudgetType' /\ trAgents[a].pc = "idle" /\ CopyJob(a).target = 0 /\ CopyJob(a) = trAgents[a].job
  BY <1>1, TreeCommands
<1>5. /\ trAgents' \in [TreeAgent -> TreeState]
      /\ \A b \in TreeAgent \ {a} : trAgents'[b] = trAgents[b]
      /\ trAgents'[a].sid = n /\ trAgents'[a].pc = trAgents[a].pc /\ trAgents'[a].job = trAgents[a].job
  BY <1>1, <1>3, TreeResumed
<1>6. TreeTurn(a)
  BY <1>2, <1>4, <1>5 DEF TreeTurn
<1>7. TreeOwn(a)'
  BY <1>4, <1>5, TreeRests
<1> QED
  BY <1>2, <1>4, <1>6, <1>7, TreesStep

LEMMA SwitchSessionKeeps ==
  ASSUME TreesInv, NEW a \in TreeAgent, SwitchSession(a) PROVE TreesInv'
<1>1. /\ TreeCommand(a) /\ UNCHANGED <<trSessions, trTouched, trMisplaced, trInherited>>
  BY DEF SwitchSession
<1>2. PICK s \in DOMAIN trSessions : TreeResumes(a, s)
  BY DEF SwitchSession, TreeResumes
<1>3. TreesGrow /\ OthersLeft(a) /\ SummariesFit'
  BY <1>1, Unwritten
<1>4. s \in Nat
  BY TreeAgentIs
<1>5. TreeBudgetType' /\ trAgents[a].pc = "idle" /\ CopyJob(a).target = 0 /\ CopyJob(a) = trAgents[a].job
  BY <1>1, TreeCommands
<1>6. /\ trAgents' \in [TreeAgent -> TreeState]
      /\ \A b \in TreeAgent \ {a} : trAgents'[b] = trAgents[b]
      /\ trAgents'[a].sid = s /\ trAgents'[a].pc = trAgents[a].pc /\ trAgents'[a].job = trAgents[a].job
  BY <1>2, <1>4, TreeResumed
<1>7. TreeTurn(a)
  BY <1>1, <1>5, <1>6 DEF TreeTurn
<1>8. TreeOwn(a)'
  BY <1>5, <1>6, TreeRests
<1> QED
  BY <1>3, <1>5, <1>7, <1>8, TreesStep

\* A copy that begins is of an empty session.
LEMMA BeginCopyKeeps ==
  ASSUME TreesInv, NEW a \in TreeAgent, NEW kind \in {"fork", "import"}, NEW source \in DOMAIN trSessions,
         NEW leaf \in 0..Len(trSessions[source].entries), NEW compaction \in TreeSummary,
         BeginCopy(a, kind, source, leaf, compaction),
         LET branch == BranchTo(trSessions[source], leaf)
             said == ToSet(SubSeq(MessagesAt(trSessions[source], branch), 1, compaction.upTo))
         IN  /\ compaction.upTo \in 0..Len(branch)
             /\ compaction.upTo # 0 /\ source \notin trMisplaced => said \subseteq compaction.covers
             /\ compaction.upTo # 0 /\ source \notin trMisplaced \cup trInherited
                => compaction.covers \subseteq said
  PROVE  TreesInv'
<1> DEFINE n == Len(trSessions) + 1
           branch == BranchTo(trSessions[source], leaf)
           all == MessagesAt(trSessions[source], branch)
           job == [kind |-> kind, source |-> source, target |-> n, all |-> all, copied |-> 0,
                   compaction |-> compaction]
<1>1. /\ TreeCommand(a) /\ trSessions' = Append(trSessions, EmptySession("here")) /\ TreeBegins(a, job)
      /\ UNCHANGED <<trTouched, trMisplaced, trInherited>>
  BY DEF BeginCopy, TreeBegins
<1>2. /\ TreesGrow /\ OthersLeft(a) /\ SummariesFit' /\ Len(trSessions) \in Nat /\ n \in DOMAIN trSessions'
      /\ n \notin DOMAIN trSessions /\ trSessions'[n] = EmptySession("here")
  BY <1>1, Started
<1>3. n \in Nat /\ n # 0
  BY <1>2
<1>4. IsTree(trSessions[source]) /\ source \in Nat
  <2>1. source \in Nat
    BY TreeAgentIs
  <2> QED
    BY <2>1 DEF TreesInv, TreeTypes
<1>5. all \in Seq(TreeMessage) /\ Len(all) = Len(branch) /\ Len(branch) \in Nat
  BY <1>4, MessagesType
<1>6. /\ compaction.upTo \in 0..Len(branch)
      /\ compaction.upTo # 0 /\ source \notin trMisplaced
         => ToSet(SubSeq(all, 1, compaction.upTo)) \subseteq compaction.covers
      /\ compaction.upTo # 0 /\ source \notin trMisplaced \cup trInherited
         => compaction.covers \subseteq ToSet(SubSeq(all, 1, compaction.upTo))
  OBVIOUS
<1> HIDE DEF n, all, branch
<1>7. job \in TreeJob
  <2> DEFINE All == Seq(TreeMessage)
  <2>1. all \in All
    BY <1>5
  <2> HIDE DEF All
  <2>2. job \in [kind : {"none", "fork", "import"}, source : Nat, target : Nat, all : All, copied : Nat,
                 compaction : TreeSummary]
    BY <1>3, <1>4, <2>1
  <2> QED
    BY <2>2 DEF TreeJob, All
<1>8. /\ job.source = source /\ job.target = n /\ job.all = all /\ job.copied = 0
      /\ job.compaction = compaction
  OBVIOUS
<1> HIDE DEF job
<1>9. /\ trAgents' \in [TreeAgent -> TreeState]
      /\ \A b \in TreeAgent \ {a} : trAgents'[b] = trAgents[b]
      /\ trAgents'[a].sid = trAgents[a].sid /\ trAgents'[a].pc = "copy" /\ trAgents'[a].job = job
  BY <1>1, <1>7, TreeBegun
<1>10. TreeBudgetType'
  BY <1>1, TreeCommands
<1>11. trAgents'[a].sid \in DOMAIN trSessions'
  <2>1. trAgents[a].sid \in DOMAIN trSessions
    BY TreeAgentIs
  <2> QED
    BY <1>2, <1>9, <2>1 DEF TreesGrow
<1>12. TreeTurn(a)
  BY <1>2, <1>3, <1>8, <1>9, <1>11 DEF TreeTurn
<1>13. TreeCopy(a)'
  <2>1. CopyJob(a)' = job /\ JobSays(a)' = ToSet(SubSeq(all, 1, compaction.upTo))
    BY <1>8, <1>9 DEF CopyJob, JobSays
  <2>2. /\ EmptySession("here").entries = <<>> /\ EmptySession("here").leaf = 0
        /\ EmptySession("here").compaction = NoCompaction
    BY DEF EmptySession
  <2>3. Len(<<>>) = 0 /\ \A e \in 1..0 : FALSE
    OBVIOUS
  <2>4. compaction.upTo <= Len(all) /\ 0 <= Len(all)
    BY <1>5, <1>6
  <2>5. trMisplaced' = trMisplaced /\ trInherited' = trInherited
    BY <1>1
  <2> DEFINE copy == trSessions'[n]
  <2>6. Len(copy.entries) = 0 /\ copy.leaf = 0 /\ copy.compaction = NoCompaction
    BY <1>2, <2>2, <2>3
  <2> HIDE DEF copy, JobSays
  <2>7. trSessions'[CopyJob(a)'.target] = copy /\ CopyJob(a)'.target \in DOMAIN trSessions'
    BY <1>2, <1>8, <2>1 DEF copy
  <2> QED
    BY <1>6, <1>8, <1>9, <2>1, <2>3, <2>4, <2>5, <2>6, <2>7 DEF TreeCopy
<1>14. TreeSnapshot(a)' /\ TreePending(a)'
  BY <1>9 DEF TreeSnapshot, TreePending
<1> QED
  BY <1>2, <1>10, <1>12, <1>13, <1>14, TreesStep DEF TreeOwn

LEMMA ForkSessionKeeps ==
  ASSUME TreesInv, NEW a \in TreeAgent, ForkSession(a) PROVE TreesInv'
<1> DEFINE session == SessionOf(a)
<1>1. SidOf(a) \in DOMAIN trSessions /\ IsTree(session) /\ session = trSessions[SidOf(a)]
  BY TreeAgentIs
<1>2. PICK leaf \in {session.leaf} \cup DOMAIN session.entries :
        BeginCopy(a, "fork", SidOf(a), leaf, NoCompaction)
  BY DEF ForkSession
<1>3. leaf \in 0..Len(session.entries)
  <2>1. session.leaf \in 0..Len(session.entries) /\ DOMAIN session.entries = 1..Len(session.entries)
        /\ Len(session.entries) \in Nat
    BY <1>1, TreeShape
  <2> HIDE DEF session
  <2>2. leaf \in 0..Len(session.entries) \/ leaf \in 1..Len(session.entries)
    BY <1>2, <2>1
  <2> QED
    BY <2>1, <2>2
<1>4. NoCompaction \in TreeSummary /\ NoCompaction.upTo = 0
  BY EmptyIsTree DEF NoCompaction
<1>5. Len(BranchTo(session, leaf)) \in Nat
  BY <1>1, <1>3, MessagesType
<1>6. NoCompaction.upTo \in 0..Len(BranchTo(session, leaf))
  BY <1>4, <1>5
<1> QED
  BY <1>1, <1>2, <1>3, <1>4, <1>6, BeginCopyKeeps

LEMMA ImportSnapshotKeeps ==
  ASSUME TreesInv, NEW a \in TreeAgent, ImportSnapshot(a) PROVE TreesInv'
<1>1. PICK s \in DOMAIN trSessions :
        BeginCopy(a, "import", s, trSessions[s].leaf,
                  [trSessions[s].compaction EXCEPT !.upTo = SummaryPlace(trSessions[s])])
  BY DEF ImportSnapshot
<1> DEFINE session == trSessions[s]
           branch == BranchTo(session, session.leaf)
           all == MessagesAt(session, branch)
           place == SummaryPlace(session)
           compaction == [session.compaction EXCEPT !.upTo = place]
           said == ToSet(SubSeq(all, 1, compaction.upTo))
<1>2. IsTree(session) /\ SummaryFits(session, s, trMisplaced, trInherited)
  BY DEF TreesInv, TreeTypes, SummariesFit
<1>3. ActiveBranch(session) = branch
  BY DEF ActiveBranch
<1>4. /\ session.leaf \in 0..Len(session.entries)
      /\ session.compaction \in [upTo : Nat, covers : SUBSET TreeMessage]
  BY <1>2, TreeShape
<1>5. /\ Len(branch) \in Nat /\ Len(all) = Len(branch) /\ branch \in Seq(1..session.leaf)
      /\ \A k \in 0..Len(branch) : MessagesAt(session, SubSeq(branch, 1, k)) = SubSeq(all, 1, k)
  BY <1>2, <1>4, MessagesType, BranchType
<1> HIDE DEF session
<1>6. DOMAIN branch = 1..Len(branch)
  BY <1>5
<1>7. place = 0 \/ (place \in DOMAIN branch /\ branch[place] = session.compaction.upTo)
  BY <1>2, <1>3, PlaceIs
<1> HIDE DEF place
<1>8. place \in 0..Len(branch) /\ place \in Nat
  BY <1>5, <1>6, <1>7
<1>9. compaction \in TreeSummary /\ compaction.upTo = place /\ compaction.covers = session.compaction.covers
  BY <1>4, <1>8 DEF TreeSummary
<1>10. ASSUME place # 0 PROVE said = TreeSaid(session, session.compaction.upTo)
  <2>1. place \in DOMAIN branch /\ branch[place] = session.compaction.upTo
    BY <1>7, <1>10
  <2>2. TreeSaid(session, branch[place]) = ToSet(MessagesAt(session, SubSeq(branch, 1, place)))
    BY <1>2, <1>4, <2>1, SaidBefore
  <2> QED
    BY <1>5, <1>8, <1>9, <2>1, <2>2
<1>11. /\ compaction.upTo # 0 /\ s \notin trMisplaced => said \subseteq compaction.covers
       /\ compaction.upTo # 0 /\ s \notin trMisplaced \cup trInherited => compaction.covers \subseteq said
  BY <1>2, <1>9, <1>10 DEF SummaryFits
<1>12. BeginCopy(a, "import", s, session.leaf, compaction)
  BY <1>1 DEF session, place
<1> HIDE DEF compaction
<1>13. compaction.upTo \in 0..Len(branch)
  BY <1>8, <1>9
<1> QED
  BY <1>4, <1>9, <1>11, <1>12, <1>13, BeginCopyKeeps DEF session

\* What is known of a copy.
LEMMA CopyIs ==
  ASSUME TreesInv, NEW a \in TreeAgent, trAgents[a].pc \in {"copy", "copied"}
  PROVE  LET job == CopyJob(a)
             copy == trSessions[job.target]
         IN  /\ job = trAgents[a].job /\ job.target \in DOMAIN trSessions /\ job.target # 0 /\ IsTree(copy)
             /\ job.source \in Nat /\ job.all \in Seq(TreeMessage) /\ Len(job.all) \in Nat
             /\ job.copied \in 0..Len(job.all) /\ job.compaction \in TreeSummary
             /\ job.compaction.upTo \in 0..Len(job.all)
<1>1. CopyJob(a) = trAgents[a].job /\ CopyJob(a) \in TreeJob
  BY TreeAgentIs DEF CopyJob
<1> DEFINE job == CopyJob(a)
<1>2. /\ job.source \in Nat /\ job.all \in Seq(TreeMessage) /\ Len(job.all) \in Nat
      /\ job.copied \in Nat /\ job.compaction \in TreeSummary /\ job.compaction.upTo \in Nat
  BY <1>1, TreeJobIs
<1>3. /\ job.target \in DOMAIN trSessions /\ job.copied <= Len(job.all)
      /\ job.compaction.upTo <= Len(job.all) /\ job.target # 0
  BY DEF TreesInv, TreeCopy, TargetsOwn
<1>4. IsTree(trSessions[job.target])
  BY <1>3 DEF TreesInv, TreeTypes
<1> HIDE DEF job
<1>5. job.copied \in 0..Len(job.all) /\ job.compaction.upTo \in 0..Len(job.all)
  BY <1>2, <1>3
<1> QED
  BY <1>1, <1>2, <1>3, <1>4, <1>5 DEF job

LEMMA CopyMessageKeeps ==
  ASSUME TreesInv, NEW a \in TreeAgent, CopyMessage(a) PROVE TreesInv'
<1> DEFINE job == CopyJob(a)
           t == job.target
           n == job.copied
           old == trSessions[t]
           msg == job.all[n + 1]
           session == Appended(old, msg)
<1>1. /\ trAgents[a].pc = "copy" /\ n < Len(job.all) /\ MutateTree(a, t, session) /\ TreeCopies(a)
      /\ trBudget' = trBudget /\ trMisplaced' = trMisplaced /\ trInherited' = trInherited
  BY DEF CopyMessage, TreeCopies, TreeAt
<1>2. /\ job = trAgents[a].job /\ t \in DOMAIN trSessions /\ t # 0 /\ IsTree(old)
      /\ job.all \in Seq(TreeMessage) /\ Len(job.all) \in Nat /\ n \in 0..Len(job.all)
  BY <1>1, CopyIs
<1>3. msg \in TreeMessage
  BY <1>1, <1>2
<1>4. TreeCopy(a)
  BY DEF TreesInv
<1> HIDE DEF job, msg
<1>5. /\ IsTree(session) /\ Begins(old, session) /\ session.compaction = old.compaction
      /\ Len(session.entries) = Len(old.entries) + 1 /\ session.leaf = Len(old.entries) + 1
      /\ session.entries[Len(old.entries) + 1] = [msg |-> msg, parent |-> old.leaf]
      /\ \A e \in 1..Len(old.entries) : session.entries[e] = old.entries[e]
  BY <1>2, <1>3, AppendedGrows
<1> HIDE DEF t, n, old, session
<1>6. /\ TreesGrow /\ OthersLeft(a) /\ SummariesFit'
      /\ trSessions'[t] = session /\ DOMAIN trSessions' = DOMAIN trSessions
  BY <1>1, <1>2, <1>5, Written DEF old
<1>7. /\ trAgents' \in [TreeAgent -> TreeState]
      /\ \A b \in TreeAgent \ {a} : trAgents'[b] = trAgents[b]
      /\ trAgents'[a].sid = trAgents[a].sid /\ trAgents'[a].pc = "copy"
      /\ trAgents'[a].job.copied = n + 1 /\ trAgents'[a].job.source = job.source /\ trAgents'[a].job.target = t
      /\ trAgents'[a].job.all = job.all /\ trAgents'[a].job.compaction = job.compaction
  BY <1>1, <1>2, TreeCopied DEF t, n
<1>8. trAgents[a].sid \in DOMAIN trSessions
  BY TreeAgentIs
<1>9. TreeTurn(a)
  BY <1>2, <1>6, <1>7, <1>8 DEF TreeTurn, t, job
<1>10. TreeBudgetType'
  BY <1>1 DEF TreesInv, TreeTypes, TreeBudgetType
<1>11. TreeSnapshot(a)' /\ TreePending(a)'
  BY <1>7 DEF TreeSnapshot, TreePending
<1>12. TreeCopy(a)'
  <2> DEFINE new == trAgents'[a].job
  <2>1. CopyJob(a)' = new /\ JobSays(a)' = JobSays(a)
    BY <1>7 DEF CopyJob, JobSays, job
  <2>2. n + 1 <= Len(job.all) /\ n \in Nat
    BY <1>1, <1>2
  <2>3. /\ job.compaction.upTo <= Len(job.all)
        /\ job.compaction.upTo # 0 /\ job.source \notin trMisplaced => JobSays(a) \subseteq job.compaction.covers
        /\ job.compaction.upTo # 0 /\ job.source \notin trMisplaced \cup trInherited
           => job.compaction.covers \subseteq JobSays(a)
    BY <1>1, <1>4 DEF TreeCopy, job
  <2>4. ASSUME t \notin trTouched'
        PROVE  /\ Len(session.entries) = n + 1 /\ session.leaf = n + 1
               /\ \A e \in 1..(n + 1) : session.entries[e] = [msg |-> job.all[e], parent |-> e - 1]
               /\ session.compaction = NoCompaction
    <3>1. t \notin trTouched
      BY <1>6, <2>4 DEF TreesGrow
    <3>2. /\ Len(old.entries) = n /\ old.leaf = n
          /\ \A e \in 1..n : old.entries[e] = [msg |-> job.all[e], parent |-> e - 1]
          /\ old.compaction = NoCompaction
      BY <1>1, <1>4, <3>1 DEF TreeCopy, job, t, n, old
    <3>3. \A e \in 1..(n + 1) : e \in 1..n \/ (e = n + 1 /\ e - 1 = n)
      BY <2>2
    <3>4. session.entries[n + 1] = [msg |-> job.all[n + 1], parent |-> n]
      BY <1>5, <3>2 DEF msg
    <3> QED
      BY <1>5, <3>2, <3>3, <3>4
  <2> HIDE DEF JobSays, new
  <2>5. /\ new.copied = n + 1 /\ new.source = job.source /\ new.target = t
        /\ new.all = job.all /\ new.compaction = job.compaction
    BY <1>7 DEF new
  <2>6. t \in DOMAIN trSessions'
    BY <1>2, <1>6
  <2> QED
    BY <1>1, <1>6, <1>7, <2>1, <2>2, <2>3, <2>4, <2>5, <2>6 DEF TreeCopy
<1> QED
  BY <1>6, <1>9, <1>10, <1>11, <1>12, TreesStep DEF TreeOwn

\* A session that is the beginning of a list of messages, one after the other,
\* is its own branch and says them.
LEMMA ChainSays ==
  ASSUME NEW session, IsTree(session), NEW all \in Seq(TreeMessage), NEW n \in 0..Len(all),
         Len(session.entries) = n,
         \A e \in 1..n : session.entries[e] = [msg |-> all[e], parent |-> e - 1]
  PROVE  \A k \in 0..n : /\ BranchTo(session, k) = [i \in 1..k |-> i]
                         /\ MessagesAt(session, BranchTo(session, k)) = SubSeq(all, 1, k)
                         /\ TreeSaid(session, k) = ToSet(SubSeq(all, 1, k))
<1>1. Len(all) \in Nat /\ n \in Nat
  OBVIOUS
<1>2. \A e \in 1..n : session.entries[e].parent = e - 1 /\ session.entries[e].msg = all[e]
  <2> TAKE e \in 1..n
  <2>1. session.entries[e] = [msg |-> all[e], parent |-> e - 1]
    OBVIOUS
  <2> QED
    BY <2>1
<1> SUFFICES ASSUME NEW k \in 0..n
             PROVE  /\ BranchTo(session, k) = [i \in 1..k |-> i]
                    /\ MessagesAt(session, BranchTo(session, k)) = SubSeq(all, 1, k)
                    /\ TreeSaid(session, k) = ToSet(SubSeq(all, 1, k))
  OBVIOUS
<1>3. k \in 0..Len(session.entries) /\ \A i \in 1..k : i \in 1..n
  BY <1>1
<1> DEFINE b == [i \in 1..k |-> i]
<1>4. BranchTo(session, k) = b
  BY <1>2, <1>3, ChainBranch
<1>5. DOMAIN b = 1..k /\ \A i \in 1..k : session.entries[b[i]].msg = all[i]
  BY <1>2, <1>3
<1> HIDE DEF b
<1>6. MessagesAt(session, b) = [i \in 1..k |-> all[i]]
  BY <1>5 DEF MessagesAt
<1>7. SubSeq(all, 1, k) = [i \in 1..k |-> all[i]]
  BY <1>1
<1> QED
  BY <1>4, <1>6, <1>7 DEF TreeSaid, b

\* A copy that nobody else wrote to gets the summary at its place; if somebody
\* did, where it got it is known.
LEMMA CopyCompactionKeeps ==
  ASSUME TreesInv, NEW a \in TreeAgent, CopyCompaction(a) PROVE TreesInv'
<1> DEFINE job == CopyJob(a)
           t == job.target
           n == Len(job.all)
           source == job.source
           old == trSessions[t]
           branch == ActiveBranch(old)
           place == job.compaction.upTo
           new == [upTo |-> branch[place], covers |-> job.compaction.covers]
           session == [old EXCEPT !.compaction = new]
           Saves == /\ MutateTree(a, t, session)
                    /\ trInherited' = trInherited \cup (IF source \in trInherited THEN {t} ELSE {})
                    /\ trMisplaced' = trMisplaced \cup (IF t \in trTouched \/ source \in trMisplaced THEN {t} ELSE {})
<1>1. /\ trAgents[a].pc = "copy" /\ job.copied = n /\ TreeGoto(a, "copied") /\ trBudget' = trBudget
      /\ place \in DOMAIN branch => Saves
      /\ place \notin DOMAIN branch => UNCHANGED <<trSessions, trTouched, trMisplaced, trInherited>>
  BY DEF CopyCompaction, TreeAt
<1>2. /\ job = trAgents[a].job /\ t \in DOMAIN trSessions /\ t # 0 /\ IsTree(old) /\ source \in Nat
      /\ job.all \in Seq(TreeMessage) /\ n \in Nat /\ place \in 0..n /\ job.compaction \in TreeSummary
  BY <1>1, CopyIs
<1>3. /\ place # 0 /\ source \notin trMisplaced => JobSays(a) \subseteq job.compaction.covers
      /\ place # 0 /\ source \notin trMisplaced \cup trInherited => job.compaction.covers \subseteq JobSays(a)
      /\ JobSays(a) = ToSet(SubSeq(job.all, 1, place))
  BY <1>1 DEF TreesInv, TreeCopy, JobSays
<1>4. t \notin trTouched =>
        /\ Len(old.entries) = n /\ old.leaf = n /\ old.compaction = NoCompaction
        /\ \A e \in 1..n : old.entries[e] = [msg |-> job.all[e], parent |-> e - 1]
  BY <1>1 DEF TreesInv, TreeCopy
<1>5. /\ old.leaf \in 0..Len(old.entries) /\ Len(old.entries) \in Nat
      /\ branch \in Seq(1..old.leaf) /\ branch = BranchTo(old, old.leaf)
  BY <1>2, TreeShape, BranchType DEF ActiveBranch
<1>6. place \in DOMAIN branch => branch[place] \in 1..Len(old.entries)
  <2> SUFFICES ASSUME place \in DOMAIN branch PROVE branch[place] \in 1..Len(old.entries)
    OBVIOUS
  <2> HIDE DEF branch, place
  <2>1. branch[place] \in 1..old.leaf
    BY <1>5
  <2> QED
    BY <1>5, <2>1
<1>7. place \in DOMAIN branch => new \in TreeSummary /\ new.upTo = branch[place] /\ new.covers = job.compaction.covers
  BY <1>2, <1>6 DEF TreeSummary
\* An untouched copy is the branch.
<1>8. t \notin trTouched => branch = [k \in 1..n |-> k] /\ n \in 0..Len(old.entries)
  <2> SUFFICES ASSUME t \notin trTouched PROVE branch = [k \in 1..n |-> k] /\ n \in 0..Len(old.entries)
    OBVIOUS
  <2> DEFINE all == job.all
  <2>1. /\ all \in Seq(TreeMessage) /\ n = Len(all) /\ n \in Nat /\ Len(old.entries) = n /\ old.leaf = n
        /\ \A e \in 1..n : old.entries[e] = [msg |-> all[e], parent |-> e - 1]
    BY <1>2, <1>4
  <2> HIDE DEF old, n, all
  <2>2. n \in 0..Len(all) /\ n \in 0..n
    BY <2>1
  <2>3. BranchTo(old, n) = [k \in 1..n |-> k]
    BY <1>2, <2>1, <2>2, ChainSays
  <2> QED
    BY <1>5, <2>1, <2>2, <2>3
<1> HIDE DEF job, t, n, source, old, branch, place, new
<1>9. place \in DOMAIN branch => IsTree(session) /\ Begins(old, session) /\ session.compaction = new
                                /\ session.entries = old.entries /\ session.leaf = old.leaf
  <2> SUFFICES ASSUME place \in DOMAIN branch
               PROVE  IsTree(session) /\ Begins(old, session) /\ session.compaction = new
                      /\ session.entries = old.entries /\ session.leaf = old.leaf
    OBVIOUS
  <2>1. new \in TreeSummary /\ new.upTo \in 0..Len(old.entries)
    BY <1>5, <1>6, <1>7
  <2> QED
    BY <1>2, <2>1, SummedGrows
<1>10. ASSUME place \in DOMAIN branch PROVE SummaryFits(session, t, trMisplaced', trInherited')
  <2> HIDE DEF session
  <2>1. /\ session.compaction.upTo = branch[place] /\ session.compaction.covers = job.compaction.covers
    BY <1>7, <1>9, <1>10
  <2>2. SUFFICES ASSUME t \notin trMisplaced'
                 PROVE  /\ TreeSaid(session, branch[place]) \subseteq job.compaction.covers
                        /\ t \notin trMisplaced' \cup trInherited'
                           => job.compaction.covers \subseteq TreeSaid(session, branch[place])
    BY <2>1 DEF SummaryFits
  <2>3. t \notin trTouched /\ source \notin trMisplaced /\ (t \notin trInherited' => source \notin trInherited)
    BY <1>1, <1>10, <2>2
  <2>4. branch = [k \in 1..n |-> k] /\ place \in 1..n /\ branch[place] = place /\ n \in 0..Len(old.entries)
    BY <1>8, <1>10, <2>3
  <2>5. TreeSaid(session, place) = JobSays(a)
    <3>1. /\ IsTree(session) /\ Len(session.entries) = n
          /\ \A e \in 1..n : session.entries[e] = [msg |-> job.all[e], parent |-> e - 1]
      BY <1>4, <1>9, <1>10, <2>3
    <3>2. n \in 0..Len(job.all) /\ place \in 0..n
      BY <1>2 DEF n
    <3> DEFINE all == job.all
    <3>3. all \in Seq(TreeMessage) /\ n \in 0..Len(all) /\ \A e \in 1..n : session.entries[e] = [msg |-> all[e], parent |-> e - 1]
      BY <1>2, <3>1, <3>2
    <3> HIDE DEF all
    <3>4. TreeSaid(session, place) = ToSet(SubSeq(all, 1, place))
      BY <3>1, <3>2, <3>3, ChainSays
    <3> QED
      BY <1>3, <3>4 DEF all
  <2>6. place # 0
    BY <1>2, <2>4
  <2> QED
    BY <1>3, <2>3, <2>4, <2>5, <2>6
<1>11. ASSUME place \in DOMAIN branch
       PROVE  /\ TreesGrow /\ OthersLeft(a) /\ SummariesFit'
              /\ trSessions'[t] = session /\ DOMAIN trSessions' = DOMAIN trSessions
  <2>1. MutateTree(a, t, session) /\ trMisplaced \subseteq trMisplaced' /\ trInherited \subseteq trInherited'
    BY <1>1, <1>11
  <2> HIDE DEF session
  <2> QED
    BY <1>2, <1>9, <1>10, <1>11, <2>1, Written DEF old
<1>12. ASSUME place \notin DOMAIN branch
       PROVE  /\ TreesGrow /\ OthersLeft(a) /\ SummariesFit'
              /\ trSessions'[t] = old /\ DOMAIN trSessions' = DOMAIN trSessions
  <2>1. UNCHANGED <<trSessions, trTouched, trMisplaced, trInherited>>
    BY <1>1, <1>12
  <2> QED
    BY <2>1, Unwritten DEF old
<1>13. TreesGrow /\ OthersLeft(a) /\ SummariesFit' /\ DOMAIN trSessions' = DOMAIN trSessions
  BY <1>11, <1>12
<1>14. /\ trAgents' \in [TreeAgent -> TreeState]
       /\ \A b \in TreeAgent \ {a} : trAgents'[b] = trAgents[b]
       /\ trAgents'[a].sid = trAgents[a].sid /\ trAgents'[a].pc = "copied" /\ trAgents'[a].job = job
  <2>1. TreeIdle(0).snapshot = EmptySession("here") /\ EmptySession("here") \in TreeSession /\ "copied" \in TreePc
    BY EmptyIsTree DEF IsTree, TreeIdle, TreePc
  <2>2. TreeMoves(a, "copied", EmptySession("here"))
    BY <1>1, <2>1 DEF TreeGoto, TreeMoves
  <2> QED
    BY <1>2, <2>1, <2>2, TreePasses
<1>15. trAgents[a].sid \in DOMAIN trSessions
  BY TreeAgentIs
<1>16. TreeTurn(a)
  BY <1>2, <1>13, <1>14, <1>15 DEF TreeTurn, t, job
<1>17. TreeBudgetType'
  BY <1>1 DEF TreesInv, TreeTypes, TreeBudgetType
<1>18. TreeSnapshot(a)' /\ TreePending(a)'
  BY <1>14 DEF TreeSnapshot, TreePending
<1>19. TreeCopy(a)'
  <2> DEFINE copy == trSessions'[t]
  <2>1. CopyJob(a)' = job /\ JobSays(a)' = JobSays(a)
    BY <1>14 DEF CopyJob, JobSays, job
  <2>2. trMisplaced \subseteq trMisplaced' /\ trInherited \subseteq trInherited' /\ trTouched \subseteq trTouched'
    BY <1>13 DEF TreesGrow
  <2>3. copy.entries = old.entries /\ copy.leaf = old.leaf
    BY <1>9, <1>11, <1>12
  <2>4. ASSUME t \notin trTouched, place # 0 PROVE copy.compaction = job.compaction
    <3>1. place \in DOMAIN branch /\ branch[place] = place
      BY <1>2, <1>8, <2>4
    <3>2. copy.compaction = [upTo |-> place, covers |-> job.compaction.covers]
      BY <1>9, <1>11, <3>1 DEF new
    <3>3. job.compaction = [upTo |-> place, covers |-> job.compaction.covers]
      BY <1>2 DEF TreeSummary, place
    <3> QED
      BY <3>2, <3>3
  <2>5. ASSUME t \notin trTouched, place = 0 PROVE copy.compaction = NoCompaction
    <3>1. place \notin DOMAIN branch
      BY <1>2, <1>8, <2>5
    <3> QED
      BY <1>4, <1>12, <2>5, <3>1
  <2> HIDE DEF copy, JobSays, session
  <2>6. trSessions'[CopyJob(a)'.target] = copy /\ CopyJob(a)'.target \in DOMAIN trSessions'
    BY <1>2, <1>13, <2>1 DEF copy, t
  <2>7. t \notin trTouched' =>
          /\ Len(copy.entries) = n /\ copy.leaf = n
          /\ \A e \in 1..n : copy.entries[e] = [msg |-> job.all[e], parent |-> e - 1]
    BY <1>4, <2>2, <2>3
  <2>8. job.copied = n /\ n <= Len(job.all) /\ place <= Len(job.all) /\ n = Len(job.all)
        /\ job.compaction.upTo = place /\ job.source = source /\ job.target = t
    BY <1>1, <1>2 DEF n, place, source, t
  <2>9. /\ place # 0 /\ source \notin trMisplaced' => JobSays(a) \subseteq job.compaction.covers
        /\ place # 0 /\ source \notin trMisplaced' \cup trInherited' => job.compaction.covers \subseteq JobSays(a)
    BY <1>3, <2>2
  <2>10. t \notin trTouched' => (place # 0 => copy.compaction = job.compaction)
                                /\ (place = 0 => copy.compaction = NoCompaction)
    BY <2>2, <2>4, <2>5
  <2> QED
    BY <1>14, <2>1, <2>6, <2>7, <2>8, <2>9, <2>10 DEF TreeCopy
<1> QED
  BY <1>13, <1>16, <1>17, <1>18, <1>19, TreesStep DEF TreeOwn

\* The sessions that earlier runs left are trees with summaries of their branches.
LEMMA TreesAtFirst ==
  ASSUME SessionTreeInit PROVE TreesInv
<1>1. /\ trSessions = InitialSessions /\ trAgents = [a \in TreeAgent |-> TreeIdle(Len(InitialSessions))]
      /\ trBudget \in TreeBudgets /\ trTouched = {} /\ trMisplaced = {} /\ trInherited = {}
  BY DEF SessionTreeInit
<1>2. /\ trSessions # <<>> /\ trSessions \in Seq(TreeSession)
      /\ trBudget \in [TreeAgent -> [say : Nat, command : Nat]]
      /\ \A s \in DOMAIN trSessions :
           /\ IsTree(trSessions[s])
           /\ trSessions[s].compaction.covers = TreeSaid(trSessions[s], trSessions[s].compaction.upTo)
  BY <1>1, TreeAssumption DEF TreeSaid
<1> DEFINE n == Len(trSessions)
           idle == TreeIdle(n)
<1>3. n \in Nat /\ n \in DOMAIN trSessions
  BY <1>2
<1>4. idle \in TreeState /\ idle.sid = n /\ idle.pc = "idle" /\ idle.job.target = 0
  BY <1>3, IdleState
<1>5. trAgents = [a \in TreeAgent |-> idle]
  BY <1>1
<1> HIDE DEF n, idle
<1>6. \A a \in TreeAgent : trAgents[a] = idle
  BY <1>5
<1>7. TreeTypes
  BY <1>2, <1>3, <1>4, <1>5 DEF TreeTypes, SidOf
<1>8. SummariesFit
  BY <1>2 DEF SummariesFit, SummaryFits
<1>9. TargetsOwn
  BY <1>4, <1>6 DEF TargetsOwn, CopyJob
<1>10. \A a \in TreeAgent : TreeSnapshot(a) /\ TreePending(a) /\ TreeCopy(a)
  BY <1>4, <1>6 DEF TreeSnapshot, TreePending, TreeCopy
<1> QED
  BY <1>7, <1>8, <1>9, <1>10 DEF TreesInv

LEMMA TreesKeep ==
  ASSUME TreesInv, [SessionTreeNext]_treeVars PROVE TreesInv'
<1>1. CASE UNCHANGED treeVars
  <2>1. trSessions' = trSessions /\ trAgents' = trAgents /\ trBudget' = trBudget /\ trTouched' = trTouched
        /\ trMisplaced' = trMisplaced /\ trInherited' = trInherited
    BY <1>1 DEF treeVars
  <2> QED
    BY <2>1 DEF TreesInv, TreeTypes, SummariesFit, TargetsOwn, TreeSnapshot, TreePending, TreeCopy, JobSays,
                SidOf, SessionOf, CopyJob
<1>2. ASSUME NEW a \in TreeAgent,
             \/ SubmitPrompt(a) \/ AutoCompact(a) \/ SaveCompaction(a)
             \/ AnswerText(a) \/ AnswerCalls(a) \/ ToolResult(a) \/ TreeFails(a)
             \/ MoveLeaf(a) \/ CompactByHand(a) \/ StartSession(a) \/ SwitchSession(a)
             \/ ForkSession(a) \/ ImportSnapshot(a)
             \/ CopyMessage(a) \/ CopyCompaction(a) \/ EndCopy(a)
      PROVE  TreesInv'
  BY <1>2, SubmitPromptKeeps, AutoCompactKeeps, SaveCompactionKeeps, AnswerTextKeeps, AnswerCallsKeeps,
     ToolResultKeeps, TreeFailsKeeps, MoveLeafKeeps, CompactByHandKeeps, StartSessionKeeps, SwitchSessionKeeps,
     ForkSessionKeeps, ImportSnapshotKeeps, CopyMessageKeeps, CopyCompactionKeeps, EndCopyKeeps
<1> QED
  BY <1>1, <1>2 DEF SessionTreeNext

LEMMA TreesRemember ==
  ASSUME TreesInv PROVE SessionsRemember
<1>1. BranchIsSent
  <2> SUFFICES ASSUME NEW a \in TreeAgent, trAgents[a].pc = "ask", SidOf(a) \notin trMisplaced
               PROVE  LET session == trAgents[a].snapshot
                          sent == Compile(session)
                          branch == ToSet(MessagesAt(session, ActiveBranch(session)))
                      IN  /\ branch \subseteq ToSet(sent.messages) \cup sent.covers
                          /\ sent.covers \subseteq branch \/ SidOf(a) \in trInherited
    BY DEF BranchIsSent, TreeAt
  <2> DEFINE session == trAgents[a].snapshot
  <2>1. IsTree(session) /\ SummaryFits(session, SidOf(a), trMisplaced, trInherited)
    BY DEF TreesInv, TreeSnapshot
  <2> HIDE DEF session
  <2>2. LET sent == Compile(session)
            branch == ToSet(MessagesAt(session, ActiveBranch(session)))
        IN  /\ branch \subseteq ToSet(sent.messages) \cup sent.covers
            /\ sent.covers \subseteq branch \/ SidOf(a) \in trInherited
    BY <2>1, CompileSays
  <2> QED
    BY <2>2 DEF session
<1>2. CopyIsWhole
  <2> SUFFICES ASSUME NEW a \in TreeAgent, trAgents[a].pc = "copied", CopyJob(a).target \notin trTouched
               PROVE  LET copy == trSessions[CopyJob(a).target]
                          branch == ActiveBranch(copy)
                      IN  /\ MessagesAt(copy, branch) = CopyJob(a).all
                          /\ copy.compaction.upTo =
                               (IF CopyJob(a).compaction.upTo = 0 THEN 0 ELSE branch[CopyJob(a).compaction.upTo])
                          /\ copy.compaction.upTo # 0 => copy.compaction.covers = CopyJob(a).compaction.covers
    BY DEF CopyIsWhole, TreeAt
  <2> DEFINE job == CopyJob(a)
             all == job.all
             n == Len(all)
             copy == trSessions[job.target]
             branch == ActiveBranch(copy)
             place == job.compaction.upTo
  <2>1. IsTree(copy) /\ all \in Seq(TreeMessage) /\ n \in Nat /\ place \in 0..n
    BY CopyIs
  <2>2. /\ Len(copy.entries) = n /\ copy.leaf = n
        /\ \A e \in 1..n : copy.entries[e] = [msg |-> all[e], parent |-> e - 1]
        /\ place # 0 => copy.compaction = job.compaction
        /\ place = 0 => copy.compaction = NoCompaction
    BY DEF TreesInv, TreeCopy
  <2>3. branch = BranchTo(copy, n) /\ NoCompaction.upTo = 0 /\ job.compaction.upTo = place
    BY <2>2 DEF ActiveBranch, NoCompaction
  <2> HIDE DEF job, all, n, copy, branch, place
  <2>4. n \in 0..n /\ n \in 0..Len(all) /\ SubSeq(all, 1, n) = all
    BY <2>1 DEF n
  <2>5. branch = [i \in 1..n |-> i] /\ MessagesAt(copy, branch) = all
    <3>1. BranchTo(copy, n) = [i \in 1..n |-> i]
      BY <2>1, <2>2, <2>4, ChainSays
    <3>2. MessagesAt(copy, BranchTo(copy, n)) = SubSeq(all, 1, n)
      BY <2>1, <2>2, <2>4, ChainSays
    <3> QED
      BY <2>3, <2>4, <3>1, <3>2
  <2>6. place # 0 => branch[place] = place
    BY <2>1, <2>5
  <2>7. copy.compaction.upTo = IF place = 0 THEN 0 ELSE branch[place]
    BY <2>2, <2>3, <2>6
  <2>8. copy.compaction.upTo # 0 => copy.compaction.covers = job.compaction.covers
    BY <2>2, <2>3
  <2> QED
    BY <2>5, <2>7, <2>8 DEF job, all, copy, branch, place
<1> QED
  BY <1>1, <1>2 DEF SessionsRemember

\* Whoever moves the leaf, compacts, forks or imports meanwhile, a request carries
\* the branch it continues, and a copy that came to its end is the branch it was
\* made of, whatever else agents did (agent.ts:742, session-store.ts:230-280).
THEOREM SessionsAreRemembered == SessionTreeSpec => []SessionsRemember
<1>1. SessionTreeInit => TreesInv
  BY TreesAtFirst
<1>2. TreesInv /\ [SessionTreeNext]_treeVars => TreesInv'
  BY TreesKeep
<1>3. TreesInv => SessionsRemember
  BY TreesRemember
<1> QED
  BY <1>1, <1>2, <1>3, PTL DEF SessionTreeSpec

-----------------------------------------------------------------------------
(* The line editor: positions and lines                                    *)

\* The least and the greatest of some numbers.
LEMMA MinIs ==
  ASSUME NEW T, T \subseteq Nat, T # {}
  PROVE  Min(T) \in T /\ Min(T) \in Nat /\ \A y \in T : Min(T) <= y
<1>1. \E x \in T : \A y \in T : x <= y
  BY LeastNatural
<1>2. Min(T) \in T /\ \A y \in T : Min(T) <= y
  BY <1>1 DEF Min
<1> QED
  BY <1>2

LEMMA MaxIs ==
  ASSUME NEW n \in Nat, NEW T, T \subseteq 0..n, T # {}
  PROVE  Max(T) \in T /\ Max(T) \in 0..n /\ \A y \in T : y <= Max(T)
<1> DEFINE U == {n - x : x \in T}
<1>1. \A x \in T : x \in Nat /\ n - x \in Nat
  OBVIOUS
<1>2. U \subseteq Nat /\ U # {}
  BY <1>1
<1> HIDE DEF U
<1>3. PICK u \in U : \A v \in U : u <= v
  BY <1>2, LeastNatural
<1>4. PICK x \in T : u = n - x
  BY DEF U
<1>5. \A y \in T : n - x <= n - y
  BY <1>3, <1>4 DEF U
<1>6. \A y \in T : x >= y
  BY <1>1, <1>5
<1>7. Max(T) \in T /\ \A y \in T : Max(T) >= y
  BY <1>6 DEF Max
<1> QED
  BY <1>1, <1>7

LEMMA MinOfTwo ==
  ASSUME NEW a \in Nat, NEW b \in Nat
  PROVE  Min({a, b}) = IF a <= b THEN a ELSE b
<1>1. {a, b} \subseteq Nat /\ {a, b} # {}
  OBVIOUS
<1>2. Min({a, b}) \in {a, b} /\ Min({a, b}) <= a /\ Min({a, b}) <= b
  BY <1>1, MinIs
<1> QED
  BY <1>2

LEMMA MaxOfTwo ==
  ASSUME NEW a \in Int, NEW b \in Int
  PROVE  Max({a, b}) = IF a <= b THEN b ELSE a
<1> DEFINE x == IF a <= b THEN b ELSE a
<1>1. x \in {a, b} /\ \A y \in {a, b} : x >= y
  OBVIOUS
<1>2. Max({a, b}) \in {a, b} /\ \A y \in {a, b} : Max({a, b}) >= y
  BY <1>1 DEF Max
<1> QED
  BY <1>2

\* Two sequences that are joined can be taken apart again, and one that is taken
\* apart in three joined.
LEMMA SplitJoin ==
  ASSUME NEW S, NEW s \in Seq(S), NEW t \in Seq(S)
  PROVE  /\ SubSeq(s \o t, 1, Len(s)) = s
         /\ SubSeq(s \o t, Len(s) + 1, Len(s \o t)) = t
<1>1. /\ s \o t \in Seq(S) /\ Len(s \o t) = Len(s) + Len(t)
      /\ \A i \in 1..Len(s) + Len(t) : (s \o t)[i] = IF i <= Len(s) THEN s[i] ELSE t[i - Len(s)]
  BY ConcatProperties
<1>2. Len(s) \in Nat /\ Len(t) \in Nat
  BY LenProperties
<1>3. \A i \in 1..Len(s) + Len(t) : (s \o t)[i] \in S
  BY <1>1, ElementOfSeq
<1> DEFINE st == s \o t
           first == SubSeq(st, 1, Len(s))
           last == SubSeq(st, Len(s) + 1, Len(s) + Len(t))
<1> HIDE DEF st
<1>4. /\ first \in Seq(S) /\ Len(first) = Len(s)
      /\ \A i \in 1..Len(s) : first[i] = st[i]
  <2>1. \A i \in 1..Len(s) : st[i] \in S
    BY <1>2, <1>3 DEF st
  <2>2. /\ first \in Seq(S) /\ Len(first) = IF 1 <= Len(s) THEN Len(s) - 1 + 1 ELSE 0
        /\ \A i \in 1..Len(s) - 1 + 1 : first[i] = st[1 + i - 1]
    BY <1>2, <2>1, SubSeqProperties
  <2> HIDE DEF first
  <2> QED
    BY <1>2, <2>2
<1>5. /\ last \in Seq(S) /\ Len(last) = Len(t)
      /\ \A i \in 1..Len(t) : last[i] = st[Len(s) + i]
  <2>1. \A i \in Len(s) + 1..Len(s) + Len(t) : st[i] \in S
    BY <1>2, <1>3 DEF st
  <2>2. /\ last \in Seq(S)
        /\ Len(last) = IF Len(s) + 1 <= Len(s) + Len(t) THEN (Len(s) + Len(t)) - (Len(s) + 1) + 1 ELSE 0
        /\ \A i \in 1..(Len(s) + Len(t)) - (Len(s) + 1) + 1 : last[i] = st[Len(s) + 1 + i - 1]
    BY <1>2, <2>1, SubSeqProperties
  <2> HIDE DEF last
  <2>3. \A i \in 1..Len(t) : i \in 1..(Len(s) + Len(t)) - (Len(s) + 1) + 1 /\ Len(s) + 1 + i - 1 = Len(s) + i
    BY <1>2
  <2> QED
    BY <1>2, <2>2, <2>3
<1> HIDE DEF first, last
<1>6. \A i \in 1..Len(first) : first[i] = s[i]
  BY <1>1, <1>2, <1>4 DEF st
<1>7. \A i \in 1..Len(last) : last[i] = t[i]
  <2> SUFFICES ASSUME NEW i \in 1..Len(t) PROVE last[i] = t[i]
    BY <1>5
  <2>1. Len(s) + i \in 1..Len(s) + Len(t) /\ ~(Len(s) + i <= Len(s)) /\ Len(s) + i - Len(s) = i
    BY <1>2
  <2>2. st[Len(s) + i] = t[i]
    BY <1>1, <2>1 DEF st
  <2> QED
    BY <1>5, <2>2
<1>8. first = s
  BY <1>4, <1>6, SeqEqual
<1>9. last = t
  BY <1>5, <1>7, SeqEqual
<1> QED
  BY <1>1, <1>8, <1>9 DEF first, last, st

\* A sequence is its beginning, its middle and its end.
LEMMA InThree ==
  ASSUME NEW S, NEW s \in Seq(S), NEW m \in Nat, NEW n \in Nat, m <= n, n <= Len(s)
  PROVE  SubSeq(s, 1, m) \o SubSeq(s, m + 1, n) \o SubSeq(s, n + 1, Len(s)) = s
<1>1. Len(s) \in Nat
  BY LenProperties
<1>2. SubSeq(s, 1, m) \o SubSeq(s, m + 1, n) = SubSeq(s, 1, n)
  <2>1. 1 \in 1..Len(s) + 1 /\ m \in 1 - 1..Len(s) /\ n \in m..Len(s)
    BY <1>1
  <2> QED
    BY <2>1, ConcatAdjacentSubSeq
<1>3. SubSeq(s, 1, n) \o SubSeq(s, n + 1, Len(s)) = SubSeq(s, 1, Len(s))
  <2>1. 1 \in 1..Len(s) + 1 /\ n \in 1 - 1..Len(s) /\ Len(s) \in n..Len(s)
    BY <1>1
  <2> QED
    BY <2>1, ConcatAdjacentSubSeq
<1> QED
  BY <1>2, <1>3, SubSeqFull

\* A part of a sequence.
LEMMA PartOfSeq ==
  ASSUME NEW S, NEW s \in Seq(S), NEW m \in Nat, NEW n \in Nat, n <= Len(s)
  PROVE  /\ SubSeq(s, m + 1, n) \in Seq(S)
         /\ Len(SubSeq(s, m + 1, n)) = IF m <= n THEN n - m ELSE 0
<1>1. \A i \in m + 1..n : s[i] \in S
  BY LenProperties, ElementOfSeq
<1>2. /\ SubSeq(s, m + 1, n) \in Seq(S)
      /\ Len(SubSeq(s, m + 1, n)) = IF m + 1 <= n THEN n - (m + 1) + 1 ELSE 0
  BY <1>1, SubSeqProperties
<1> QED
  BY <1>2

EdLine == Seq(Grapheme)

\* A part of a line, up to its end.
EndOr(line, to) == IF to <= Len(line) THEN to ELSE Len(line)
LEMMA PartIs ==
  ASSUME NEW line \in EdLine, NEW from \in Nat, NEW to \in Nat
  PROVE  /\ Part(line, from, to) = SubSeq(line, from + 1, EndOr(line, to))
         /\ EndOr(line, to) \in Nat /\ EndOr(line, to) <= Len(line) /\ Len(line) \in Nat
         /\ Part(line, from, to) \in EdLine
         /\ Len(Part(line, from, to)) = IF from <= EndOr(line, to) THEN EndOr(line, to) - from ELSE 0
<1>1. Len(line) \in Nat
  BY LenProperties DEF EdLine
<1>2. Part(line, from, to) = SubSeq(line, from + 1, EndOr(line, to))
  BY <1>1, MinOfTwo DEF Part, EndOr
<1>3. EndOr(line, to) \in Nat /\ EndOr(line, to) <= Len(line)
  BY <1>1 DEF EndOr
<1>4. /\ SubSeq(line, from + 1, EndOr(line, to)) \in EdLine
      /\ Len(SubSeq(line, from + 1, EndOr(line, to)))
           = IF from <= EndOr(line, to) THEN EndOr(line, to) - from ELSE 0
  BY <1>3, PartOfSeq DEF EdLine
<1> QED
  BY <1>1, <1>2, <1>3, <1>4

\* Parts of a line are lines.
LEMMA PartTypes ==
  ASSUME NEW line \in EdLine, NEW from \in Nat, NEW to \in Nat
  PROVE  /\ Part(line, from, to) \in EdLine /\ Upto(line, to) \in EdLine
         /\ Beyond(line, from) \in EdLine /\ Without(line, from, to) \in EdLine
         /\ Len(line) \in Nat
<1>1. Len(line) \in Nat /\ 0 \in Nat
  BY PartIs
<1>2. Part(line, from, to) \in EdLine /\ Part(line, 0, to) \in EdLine
  BY PartIs
<1>3. Part(line, from, Len(line)) \in EdLine /\ Part(line, 0, from) \in EdLine
      /\ Part(line, to, Len(line)) \in EdLine
  BY <1>1, PartIs
<1>4. Part(line, 0, from) \o Part(line, to, Len(line)) \in EdLine
  BY <1>3, ConcatProperties DEF EdLine
<1> QED
  BY <1>1, <1>2, <1>3, <1>4 DEF Upto, Beyond, Without

\* What is before a column and what is behind it, also beyond the end.
LEMMA EndsAre ==
  ASSUME NEW line \in EdLine, NEW col \in Nat
  PROVE  /\ Upto(line, col) = SubSeq(line, 1, EndOr(line, col))
         /\ Beyond(line, col) = SubSeq(line, EndOr(line, col) + 1, Len(line))
<1>1. Len(line) \in Nat /\ 0 \in Nat
  BY PartIs
<1>2. EndOr(line, Len(line)) = Len(line)
  BY <1>1 DEF EndOr
<1>3. Part(line, col, Len(line)) = SubSeq(line, col + 1, EndOr(line, Len(line)))
  BY <1>1, PartIs
<1>4. Part(line, 0, col) = SubSeq(line, 0 + 1, EndOr(line, col))
  <2>1. \A n \in Nat : Part(line, n, col) = SubSeq(line, n + 1, EndOr(line, col))
    BY PartIs
  <2> QED
    BY <1>1, <2>1
<1>5. 0 + 1 = 1
  OBVIOUS
<1>6. Upto(line, col) = SubSeq(line, 1, EndOr(line, col))
  BY ONLY <1>4, <1>5 DEF Upto
<1>7. CASE col <= Len(line)
  BY <1>2, <1>3, <1>6, <1>7 DEF EndOr, Beyond
<1>8. CASE ~(col <= Len(line))
  <2>1. SubSeq(line, col + 1, Len(line)) = <<>> /\ SubSeq(line, Len(line) + 1, Len(line)) = <<>>
    BY <1>1, <1>8, SubSeqEmpty
  <2> QED
    BY <1>2, <1>3, <1>6, <1>8, <2>1 DEF EndOr, Beyond
<1> QED
  BY <1>7, <1>8

\* The beginning of a line and what is joined to it come apart again.
LEMMA Apart ==
  ASSUME NEW line \in EdLine, NEW more \in EdLine, NEW col \in Nat, col <= Len(line)
  PROVE  /\ Upto(Upto(line, col) \o more, col) = Upto(line, col)
         /\ Beyond(Upto(line, col) \o more, col) = more
         /\ Upto(line, col) \o more \in EdLine
<1> DEFINE first == Upto(line, col)
           all == first \o more
<1>1. first \in EdLine /\ Len(first) = col /\ Len(line) \in Nat
  <2>1. EndOr(line, col) = col
    BY DEF EndOr
  <2>2. SubSeq(line, 1, col) = first /\ Len(SubSeq(line, 0 + 1, col)) = col
    BY <2>1, EndsAre, PartOfSeq DEF EdLine
  <2>3. 0 + 1 = 1
    OBVIOUS
  <2>4. Len(first) = col
    BY ONLY <2>2, <2>3
  <2> QED
    BY <2>4, PartTypes
<1> HIDE DEF first
<1>2. all \in EdLine /\ Len(all) = col + Len(more) /\ Len(more) \in Nat
  BY <1>1, ConcatProperties, LenProperties DEF EdLine
<1>3. SubSeq(all, 1, col) = first /\ SubSeq(all, col + 1, Len(all)) = more
  BY <1>1, SplitJoin DEF EdLine
<1> HIDE DEF all
<1>4. EndOr(all, col) = col
  BY <1>2 DEF EndOr
<1>7. Upto(all, col) = first /\ Beyond(all, col) = more
  BY <1>2, <1>3, <1>4, EndsAre
<1> QED
  BY <1>2, <1>7 DEF all, first

\* What is cut out of a line, put back where it was, makes it whole.
LEMMA PutBack ==
  ASSUME NEW line \in EdLine, NEW from \in Nat, NEW to \in Nat, from <= to, from <= Len(line)
  PROVE  Upto(Without(line, from, to), from) \o Part(line, from, to)
           \o Beyond(Without(line, from, to), from) = line
<1>1. Beyond(line, to) \in EdLine /\ Len(line) \in Nat
  BY PartTypes
<1>2. /\ Upto(Without(line, from, to), from) = Upto(line, from)
      /\ Beyond(Without(line, from, to), from) = Beyond(line, to)
  BY <1>1, Apart DEF Without
<1>3. EndOr(line, to) \in Nat /\ from <= EndOr(line, to) /\ EndOr(line, to) <= Len(line)
  BY <1>1 DEF EndOr
<1>4. Upto(line, from) = SubSeq(line, 1, from)
  <2>1. EndOr(line, from) = from
    BY DEF EndOr
  <2> QED
    BY <2>1, EndsAre
<1>5. Part(line, from, to) = SubSeq(line, from + 1, EndOr(line, to))
  BY PartIs
<1>6. Beyond(line, to) = SubSeq(line, EndOr(line, to) + 1, Len(line))
  BY EndsAre
<1>7. SubSeq(line, 1, from) \o SubSeq(line, from + 1, EndOr(line, to))
        \o SubSeq(line, EndOr(line, to) + 1, Len(line)) = line
  BY <1>3, InThree DEF EdLine
<1> QED
  BY <1>2, <1>4, <1>5, <1>6, <1>7

\* Where a run of white space, or of anything else, ends and starts.
LEMMA EndIs ==
  ASSUME NEW line \in EdLine, NEW col \in Nat
  PROVE  LET last == IF col <= Len(line) THEN Len(line) ELSE col
         IN  EndOfSpace(line, col) \in col..last /\ EndOfWord(line, col) \in col..last
<1> DEFINE last == IF col <= Len(line) THEN Len(line) ELSE col
           space == {c \in col..Max({col, Len(line)}) : c >= Len(line) \/ Char(line, c) \notin Space}
           word == {c \in col..Max({col, Len(line)}) : c >= Len(line) \/ Char(line, c) \in Space}
<1>1. Len(line) \in Nat
  BY PartIs
<1>2. Max({col, Len(line)}) = last /\ last \in Nat /\ last >= Len(line) /\ last \in col..last
  BY <1>1, MaxOfTwo
<1> HIDE DEF last
<1>2a. /\ space = {c \in col..last : c >= Len(line) \/ Char(line, c) \notin Space}
       /\ word = {c \in col..last : c >= Len(line) \/ Char(line, c) \in Space}
  BY <1>2
<1>3. space \subseteq Nat /\ last \in space /\ space \subseteq col..last
  <2> HIDE DEF space, word
  <2> QED
    BY <1>2, <1>2a
<1>4. word \subseteq Nat /\ last \in word /\ word \subseteq col..last
  <2> HIDE DEF space, word
  <2> QED
    BY <1>2, <1>2a
<1> HIDE DEF space, word
<1>5. Min(space) \in space /\ Min(word) \in word
  BY <1>3, <1>4, MinIs
<1>6. Min(space) \in col..last /\ Min(word) \in col..last
  BY <1>3, <1>4, <1>5
<1>7. EndOfSpace(line, col) = Min(space) /\ EndOfWord(line, col) = Min(word)
  BY DEF EndOfSpace, EndOfWord, space, word
<1> QED
  BY <1>6, <1>7 DEF last

LEMMA StartIs ==
  ASSUME NEW line, NEW col \in Nat
  PROVE  StartOfSpace(line, col) \in 0..col /\ StartOfWord(line, col) \in 0..col
<1> DEFINE space == {c \in 0..col : c = 0 \/ Char(line, c - 1) \notin Space}
           word == {c \in 0..col : c = 0 \/ Char(line, c - 1) \in Space}
<1>1. space \subseteq 0..col /\ 0 \in space /\ word \subseteq 0..col /\ 0 \in word
  OBVIOUS
<1> HIDE DEF space, word
<1>2. Max(space) \in 0..col /\ Max(word) \in 0..col
  BY <1>1, MaxIs
<1> QED
  BY <1>2 DEF StartOfSpace, StartOfWord, space, word

-----------------------------------------------------------------------------
(* The line editor: buffers                                                *)

\* A buffer whose cursor is in a line that there is, as are those of what can be
\* taken back.
EdSnapshots == {s \in [lines : EditorText, row : Nat, col : Nat] : s.row \in DOMAIN s.lines}
EdBuffers ==
  {b \in [lines : EditorText, row : Nat, col : Nat, undo : Seq(EdSnapshots), kills : Seq(EditorText)] :
     b.row \in DOMAIN b.lines}
EdBuf(l, r, c, u, k) == [lines |-> l, row |-> r, col |-> c, undo |-> u, kills |-> k]
EdSnap(l, r, c) == [lines |-> l, row |-> r, col |-> c]

\* What can be taken back after a change of a buffer, and what a change records.
Latest(list, x, n) == LastOf(Append(list, x), n)
Pushed(b) == Latest(b.undo, Snapshot(b), UndoLimit)
Killed(b, text) == Latest(b.kills, text, KillLimit)
Records(b, c) == c.lines # b.lines => c.undo = Pushed(b)

\* What a buffer is made of.
LEMMA BufferParts ==
  ASSUME NEW b \in EdBuffers
  PROVE  /\ b = EdBuf(b.lines, b.row, b.col, b.undo, b.kills)
         /\ b.lines \in EditorText /\ b.row \in Nat /\ b.col \in Nat
         /\ b.undo \in Seq(EdSnapshots) /\ b.kills \in Seq(EditorText)
         /\ b.row \in 1..Len(b.lines) /\ Len(b.lines) \in Nat
         /\ b.lines \in Seq(EdLine) /\ LineOf(b) = b.lines[b.row] /\ LineOf(b) \in EdLine
         /\ Len(LineOf(b)) \in Nat
<1>1. b.lines \in Seq(EdLine) /\ b.row \in DOMAIN b.lines
  BY DEF EdBuffers, EditorText, EdLine
<1>2. b.row \in 1..Len(b.lines) /\ Len(b.lines) \in Nat
  BY <1>1, LenProperties
<1>3. b.lines[b.row] \in EdLine
  BY <1>1, <1>2, ElementOfSeq
<1>4. Len(b.lines[b.row]) \in Nat
  BY <1>3, LenProperties DEF EdLine
<1> QED
  BY <1>1, <1>2, <1>3, <1>4 DEF EdBuffers, EdBuf, LineOf

\* The texts there are.
LEMMA TextIs ==
  /\ NoText \in EditorText /\ NewLine \in EditorText
  /\ \A t \in EditorText : t \in Seq(EdLine) /\ Len(t) \in Nat \ {0} /\ DOMAIN t = 1..Len(t)
  /\ \A t \in EditorText : \A i \in 1..Len(t) : t[i] \in EdLine
  /\ \A t \in Seq(EdLine) : Len(t) # 0 => t \in EditorText
  /\ \A line \in EdLine : <<line>> \in EditorText
<1>1. <<>> \in EdLine
  BY DEF EdLine
<1>2. \A line \in EdLine : <<line>> \in Seq(EdLine) /\ <<line>> # <<>>
  OBVIOUS
<1>3. << <<>>, <<>> >> \in Seq(EdLine) /\ << <<>>, <<>> >> # <<>>
  BY <1>1
<1>4. \A t \in EditorText : t \in Seq(EdLine) /\ t # <<>>
  BY DEF EditorText, EdLine
<1>5. \A t \in Seq(EdLine) : Len(t) # 0 => t # <<>>
  OBVIOUS
<1>6. \A t \in Seq(EdLine) : t # <<>> => t \in EditorText
  BY DEF EditorText, EdLine
<1>7. \A t \in Seq(EdLine) : Len(t) \in Nat /\ DOMAIN t = 1..Len(t) /\ (t # <<>> => Len(t) # 0)
  <2> SUFFICES ASSUME NEW t \in Seq(EdLine)
               PROVE  Len(t) \in Nat /\ DOMAIN t = 1..Len(t) /\ (t # <<>> => Len(t) # 0)
    OBVIOUS
  <2> QED
    BY LenProperties, EmptySeq
<1>8. \A t \in Seq(EdLine) : \A i \in 1..Len(t) : t[i] \in EdLine
  BY ElementOfSeq
<1> HIDE DEF EdLine
<1>9. NoText \in EditorText /\ NewLine \in EditorText
  BY <1>1, <1>2, <1>3, <1>6 DEF NoText, NewLine
<1>10. \A t \in EditorText : t \in Seq(EdLine) /\ Len(t) \in Nat \ {0} /\ DOMAIN t = 1..Len(t)
  BY <1>4, <1>7
<1>11. \A t \in EditorText : \A i \in 1..Len(t) : t[i] \in EdLine
  BY <1>4, <1>8
<1>12. \A t \in Seq(EdLine) : Len(t) # 0 => t \in EditorText
  BY <1>5, <1>6
<1>13. \A line \in EdLine : <<line>> \in EditorText
  BY <1>2, <1>6
<1> QED
  BY <1>9, <1>10, <1>11, <1>12, <1>13

\* The last few of a list with one more.
LEMMA LastFew ==
  ASSUME NEW S, NEW list \in Seq(S), NEW x \in S, NEW n \in Nat \ {0}
  PROVE  /\ Latest(list, x, n) \in Seq(S) /\ Latest(list, x, n) # <<>>
         /\ Last(Latest(list, x, n)) = x /\ Front(Latest(list, x, n)) \in Seq(S)
<1> DEFINE all == Append(list, x)
           from == Max({1, Len(all) - n + 1})
           few == LastOf(all, n)
<1>1. all \in Seq(S) /\ Len(all) = Len(list) + 1 /\ Len(list) \in Nat /\ all[Len(all)] = x
  BY AppendProperties, LenProperties
<1> HIDE DEF all
<1>2. from \in Nat /\ 1 <= from /\ from <= Len(all)
  <2>1. 1 \in Int /\ Len(all) - n + 1 \in Int
    BY <1>1
  <2>2. from = IF 1 <= Len(all) - n + 1 THEN Len(all) - n + 1 ELSE 1
    BY <2>1, MaxOfTwo
  <2> QED
    BY <1>1, <2>2
<1>3. few = SubSeq(all, from, Len(all))
  BY DEF LastOf
<1> HIDE DEF from, few
<1>4. \A i \in from..Len(all) : all[i] \in S
  BY <1>1, <1>2, ElementOfSeq
<1>5. /\ few \in Seq(S) /\ Len(few) = Len(all) - from + 1
      /\ \A i \in 1..Len(all) - from + 1 : few[i] = all[from + i - 1]
  BY <1>1, <1>2, <1>3, <1>4, SubSeqProperties
<1>6. Len(few) \in 1..Len(all) - from + 1 /\ from + Len(few) - 1 = Len(all)
  BY <1>1, <1>2, <1>5
<1>7. few[Len(few)] = x
  BY <1>1, <1>5, <1>6
<1>8. Len(few) \in Nat /\ Len(few) > 0
  BY <1>6
<1>9. \A i \in 1..Len(few) - 1 : few[i] \in S
  BY <1>5, <1>8, ElementOfSeq
<1>10. SubSeq(few, 1, Len(few) - 1) \in Seq(S)
  BY <1>8, <1>9, SubSeqProperties
<1>11. few # <<>>
  BY <1>8
<1>12. Last(few) = x /\ Front(few) \in Seq(S)
  BY <1>7, <1>10 DEF Last, Front
<1> QED
  BY <1>5, <1>11, <1>12 DEF few, all, Latest

\* What is recorded of a buffer.
LEMMA SnapshotIs ==
  ASSUME NEW b \in EdBuffers
  PROVE  Snapshot(b) \in EdSnapshots /\ Snapshot(b) = EdSnap(b.lines, b.row, b.col)
BY DEF EdBuffers, EdSnapshots, Snapshot, EdSnap

\* What is recorded can be taken back, and what is killed put back.
LEMMA PushedIs ==
  ASSUME NEW b \in EdBuffers
  PROVE  /\ Pushed(b) \in Seq(EdSnapshots) /\ Pushed(b) # <<>>
         /\ Last(Pushed(b)) = Snapshot(b) /\ Front(Pushed(b)) \in Seq(EdSnapshots)
<1>1. b.undo \in Seq(EdSnapshots) /\ Snapshot(b) \in EdSnapshots /\ UndoLimit \in Nat \ {0}
  BY EditorAssumption, BufferParts, SnapshotIs
<1> QED
  BY <1>1, LastFew DEF Pushed

LEMMA KilledIs ==
  ASSUME NEW b \in EdBuffers, NEW text \in EditorText
  PROVE  Killed(b, text) \in Seq(EditorText) /\ Killed(b, text) # <<>> /\ Last(Killed(b, text)) = text
<1>1. b.kills \in Seq(EditorText) /\ text \in EditorText /\ KillLimit \in Nat \ {0}
  BY EditorAssumption, BufferParts
<1>2. Killed(b, text) \in Seq(EditorText)
  BY <1>1, LastFew DEF Killed
<1>3. Killed(b, text) # <<>>
  BY <1>1, LastFew DEF Killed
<1>4. Last(Killed(b, text)) = text
  BY <1>1, LastFew DEF Killed
<1> QED
  BY <1>2, <1>3, <1>4

-----------------------------------------------------------------------------
(* The line editor: what the steps of a method do to the parts of a buffer *)

Spliced(l, at, count, new) == SubSeq(l, 1, at - 1) \o new \o SubSeq(l, at + count, Len(l))

\* What the primitives do to each part of a buffer, ...
LEMMA Primitives ==
  ASSUME NEW l, NEW r, NEW c, NEW u, NEW k
  PROVE  LET b == EdBuf(l, r, c, u, k) IN
         /\ b.lines = l /\ b.row = r /\ b.col = c /\ b.undo = u /\ b.kills = k
         /\ LineOf(b) = l[r]
         /\ Snapshot(b) = EdSnap(l, r, c)
         /\ \A x, y : Move(b, x, y) = EdBuf(l, x, y, u, k)
         /\ \A line : SetLine(b, line) = EdBuf([l EXCEPT ![r] = line], r, c, u, k)
         /\ \A at, count, new : Splice(b, at, count, new) = EdBuf(Spliced(l, at, count, new), r, c, u, k)
         /\ \A text : PushKill(b, text) = EdBuf(l, r, c, u, Latest(k, text, KillLimit))
         /\ PushUndo(b) = EdBuf(l, r, c, Latest(u, EdSnap(l, r, c), UndoLimit), k)
<1> DEFINE b == EdBuf(l, r, c, u, k)
<1>1. b.lines = l /\ b.row = r /\ b.col = c /\ b.undo = u /\ b.kills = k
  BY DEF EdBuf
<1>2. LineOf(b) = l[r]
  BY DEF EdBuf, LineOf
<1>3. Snapshot(b) = EdSnap(l, r, c)
  BY DEF EdBuf, Snapshot, EdSnap
<1>4. ASSUME NEW x, NEW y PROVE Move(b, x, y) = EdBuf(l, x, y, u, k)
  <2>1. [b EXCEPT !.row = x] = EdBuf(l, x, c, u, k)
    BY DEF EdBuf
  <2>2. [EdBuf(l, x, c, u, k) EXCEPT !.col = y] = EdBuf(l, x, y, u, k)
    BY DEF EdBuf
  <2> HIDE DEF b
  <2> QED
    BY ONLY <2>1, <2>2 DEF Move
<1>5. ASSUME NEW line PROVE SetLine(b, line) = EdBuf([l EXCEPT ![r] = line], r, c, u, k)
  BY DEF EdBuf, SetLine
<1>6. ASSUME NEW at, NEW count, NEW new
      PROVE  Splice(b, at, count, new) = EdBuf(Spliced(l, at, count, new), r, c, u, k)
  <2>1. Splice(b, at, count, new) = [b EXCEPT !.lines = Spliced(l, at, count, new)]
    BY <1>1 DEF Splice, Spliced
  <2> QED
    BY <2>1 DEF EdBuf
<1>7. ASSUME NEW text
      PROVE  PushKill(b, text) = EdBuf(l, r, c, u, Latest(k, text, KillLimit))
  BY DEF EdBuf, PushKill, Latest
<1>8. PushUndo(b) = EdBuf(l, r, c, Latest(u, EdSnap(l, r, c), UndoLimit), k)
  BY <1>3 DEF EdBuf, PushUndo, Latest
<1> HIDE DEF b
<1>9. \A x, y : Move(b, x, y) = EdBuf(l, x, y, u, k)
  BY <1>4
<1>10. \A line : SetLine(b, line) = EdBuf([l EXCEPT ![r] = line], r, c, u, k)
  BY <1>5
<1>11. \A at, count, new : Splice(b, at, count, new) = EdBuf(Spliced(l, at, count, new), r, c, u, k)
  BY <1>6
<1>12. \A text : PushKill(b, text) = EdBuf(l, r, c, u, Latest(k, text, KillLimit))
  BY <1>7
<1> QED
  BY <1>1, <1>2, <1>3, <1>8, <1>9, <1>10, <1>11, <1>12 DEF b

\* A buffer with other contents, of which the last is recorded or not.
Kept(b, l, r, c, k) == EdBuf(l, r, c, b.undo, k)
Changed(b, l, r, c, k) == EdBuf(l, r, c, Pushed(b), k)

\* ... to a buffer, of which they change little, ...
LEMMA OfBuffers ==
  ASSUME NEW b \in EdBuffers
  PROVE  /\ b = Kept(b, b.lines, b.row, b.col, b.kills)
         /\ \A x, y : Move(b, x, y) = Kept(b, b.lines, x, y, b.kills)
         /\ \A text : PushKill(b, text) = Kept(b, b.lines, b.row, b.col, Killed(b, text))
         /\ PushUndo(b) = Changed(b, b.lines, b.row, b.col, b.kills)
<1> DEFINE l == b.lines
           r == b.row
           c == b.col
           u == b.undo
           k == b.kills
<1>1. b = EdBuf(l, r, c, u, k)
  BY BufferParts
<1> HIDE DEF l, r, c, u, k
<1>2. \A x, y : Move(b, x, y) = EdBuf(l, x, y, u, k)
  BY <1>1, Primitives
<1>3. \A text : PushKill(b, text) = EdBuf(l, r, c, u, Latest(k, text, KillLimit))
  BY <1>1, Primitives
<1>4. PushUndo(b) = EdBuf(l, r, c, Latest(u, EdSnap(l, r, c), UndoLimit), k)
  BY <1>1, Primitives
<1>5. Snapshot(b) = EdSnap(l, r, c)
  BY SnapshotIs DEF l, r, c
<1> QED
  BY <1>1, <1>2, <1>3, <1>4, <1>5 DEF Kept, Changed, Killed, Pushed, l, r, c, u, k

\* ... to one that has been recorded and changed, ...
LEMMA OfChanged ==
  ASSUME NEW b, NEW l, NEW r, NEW c, NEW k
  PROVE  LET d == Changed(b, l, r, c, k) IN
         /\ d.lines = l /\ d.row = r /\ d.col = c /\ d.kills = k /\ d.undo = Pushed(b)
         /\ LineOf(d) = l[r]
         /\ \A x, y : Move(d, x, y) = Changed(b, l, x, y, k)
         /\ \A line : SetLine(d, line) = Changed(b, [l EXCEPT ![r] = line], r, c, k)
         /\ \A at, count, new :
              Splice(d, at, count, new) = Changed(b, Spliced(l, at, count, new), r, c, k)
         /\ \A text : PushKill(d, text) = Changed(b, l, r, c, Latest(k, text, KillLimit))
BY Primitives DEF Changed

\* ... and to one of which nothing is recorded.
LEMMA OfKept ==
  ASSUME NEW b, NEW l, NEW r, NEW c, NEW k
  PROVE  LET d == Kept(b, l, r, c, k) IN
         /\ d.lines = l /\ d.row = r /\ d.col = c /\ d.kills = k /\ d.undo = b.undo
         /\ \A x, y : Move(d, x, y) = Kept(b, l, x, y, k)
BY Primitives DEF Kept

\* A method leaves a buffer, and records what it changed.
Good(b, c) == c \in EdBuffers /\ Records(b, c)

LEMMA ChangedGood ==
  ASSUME NEW b \in EdBuffers, NEW l \in EditorText, NEW r \in 1..Len(l), NEW c \in Nat,
         NEW k \in Seq(EditorText)
  PROVE  Good(b, Changed(b, l, r, c, k))
<1>1. r \in DOMAIN l /\ r \in Nat
  BY TextIs
<1>2. Pushed(b) \in Seq(EdSnapshots)
  BY PushedIs
<1>3. EdBuf(l, r, c, Pushed(b), k) \in EdBuffers
  BY <1>1, <1>2 DEF EdBuf, EdBuffers
<1>4. Changed(b, l, r, c, k).undo = Pushed(b)
  BY OfChanged
<1> QED
  BY <1>3, <1>4 DEF Good, Records, Changed

LEMMA KeptGood ==
  ASSUME NEW b \in EdBuffers, NEW r \in 1..Len(b.lines), NEW c \in Nat, NEW k \in Seq(EditorText)
  PROVE  Good(b, Kept(b, b.lines, r, c, k))
<1>1. r \in DOMAIN b.lines /\ r \in Nat /\ b.lines \in EditorText /\ b.undo \in Seq(EdSnapshots)
  BY BufferParts, TextIs
<1>2. EdBuf(b.lines, r, c, b.undo, k) \in EdBuffers
  BY <1>1 DEF EdBuf, EdBuffers
<1>3. Kept(b, b.lines, r, c, k).lines = b.lines
  BY OfKept
<1> QED
  BY <1>2, <1>3 DEF Good, Records, Kept

\* A method may do nothing, ...
LEMMA SameGood == \A b \in EdBuffers : Good(b, b)
BY DEF Good, Records

\* ... or move the cursor.
LEMMA MoveGood ==
  ASSUME NEW b \in EdBuffers, NEW r \in 1..Len(b.lines), NEW c \in Nat
  PROVE  Good(b, Move(b, r, c))
BY BufferParts, OfBuffers, KeptGood

\* A text of which a line is replaced, or some lines are by others.
LEMMA LineSet ==
  ASSUME NEW l \in EditorText, NEW r \in 1..Len(l), NEW line \in EdLine
  PROVE  [l EXCEPT ![r] = line] \in EditorText /\ Len([l EXCEPT ![r] = line]) = Len(l)
<1>1. [l EXCEPT ![r] = line] \in Seq(EdLine) /\ Len([l EXCEPT ![r] = line]) = Len(l)
  BY TextIs, ExceptSeq
<1> QED
  BY <1>1, TextIs

LEMMA SplicedIs ==
  ASSUME NEW l \in EditorText, NEW at \in 1..Len(l) + 1, NEW count \in Nat, at + count <= Len(l) + 1,
         NEW new \in Seq(EdLine)
  PROVE  /\ Spliced(l, at, count, new) \in Seq(EdLine)
         /\ Len(Spliced(l, at, count, new)) = Len(l) - count + Len(new)
         /\ Len(new) \in Nat
<1>1. l \in Seq(EdLine) /\ Len(l) \in Nat /\ Len(new) \in Nat
  BY TextIs, LenProperties
<1>2. \A i \in 1..Len(l) : l[i] \in EdLine
  BY TextIs
<1>3. SubSeq(l, 1, at - 1) \in Seq(EdLine) /\ Len(SubSeq(l, 1, at - 1)) = at - 1
  <2>1. 1 \in Int /\ at - 1 \in Int /\ \A i \in 1..at - 1 : l[i] \in EdLine
    BY <1>1, <1>2
  <2>2. SubSeq(l, 1, at - 1) \in Seq(EdLine)
        /\ Len(SubSeq(l, 1, at - 1)) = IF 1 <= at - 1 THEN at - 1 - 1 + 1 ELSE 0
    BY <2>1, SubSeqProperties
  <2> QED
    BY <1>1, <2>2
<1>4. /\ SubSeq(l, at + count, Len(l)) \in Seq(EdLine)
      /\ Len(SubSeq(l, at + count, Len(l))) = Len(l) - (at + count) + 1
  <2>1. at + count \in Int /\ Len(l) \in Int /\ \A i \in at + count..Len(l) : l[i] \in EdLine
    BY <1>1, <1>2
  <2>2. /\ SubSeq(l, at + count, Len(l)) \in Seq(EdLine)
        /\ Len(SubSeq(l, at + count, Len(l)))
             = IF at + count <= Len(l) THEN Len(l) - (at + count) + 1 ELSE 0
    BY <2>1, SubSeqProperties
  <2> QED
    BY <1>1, <2>2
<1> DEFINE x == SubSeq(l, 1, at - 1)
           y == SubSeq(l, at + count, Len(l))
<1> HIDE DEF x, y
<1>5. x \in Seq(EdLine) /\ Len(x) = at - 1 /\ y \in Seq(EdLine) /\ Len(y) = Len(l) - (at + count) + 1
  BY <1>3, <1>4 DEF x, y
<1>6. x \o new \in Seq(EdLine) /\ Len(x \o new) = at - 1 + Len(new)
  <2>1. x \in Seq(EdLine) /\ new \in Seq(EdLine)
    BY <1>5
  <2>2. x \o new \in Seq(EdLine) /\ Len(x \o new) = Len(x) + Len(new)
    BY ONLY <2>1, ConcatProperties
  <2> QED
    BY <1>5, <2>2
<1>7. x \o new \o y \in Seq(EdLine) /\ Len(x \o new \o y) = at - 1 + Len(new) + (Len(l) - (at + count) + 1)
  <2>1. x \o new \in Seq(EdLine) /\ y \in Seq(EdLine)
    BY <1>5, <1>6
  <2>2. x \o new \o y \in Seq(EdLine) /\ Len(x \o new \o y) = Len(x \o new) + Len(y)
    BY ONLY <2>1, ConcatProperties
  <2> QED
    BY <1>5, <1>6, <2>2
<1>8. at - 1 + Len(new) + (Len(l) - (at + count) + 1) = Len(l) - count + Len(new)
  BY <1>1
<1> QED
  BY <1>1, <1>7, <1>8 DEF Spliced, x, y

-----------------------------------------------------------------------------
(* The line editor: the methods leave buffers and record what they change  *)

\* A line that is replaced and lines that are, by a method that records.
Relined(b, line) == [b.lines EXCEPT ![b.row] = line]

LEMMA SetRecorded ==
  ASSUME NEW b \in EdBuffers, NEW line \in EdLine
  PROVE  /\ SetLine(PushUndo(b), line) = Changed(b, Relined(b, line), b.row, b.col, b.kills)
         /\ Relined(b, line) \in EditorText /\ Len(Relined(b, line)) = Len(b.lines)
         /\ b.row \in 1..Len(Relined(b, line))
<1>1. b.lines \in EditorText /\ b.row \in 1..Len(b.lines)
  BY BufferParts
<1>2. [b.lines EXCEPT ![b.row] = line] \in EditorText /\ Len([b.lines EXCEPT ![b.row] = line]) = Len(b.lines)
  BY <1>1, LineSet
<1>3. PushUndo(b) = Changed(b, b.lines, b.row, b.col, b.kills)
  BY OfBuffers
<1>4. SetLine(PushUndo(b), line) = Changed(b, [b.lines EXCEPT ![b.row] = line], b.row, b.col, b.kills)
  BY <1>3, OfChanged
<1> QED
  BY <1>1, <1>2, <1>4 DEF Relined

LEMMA SpliceRecorded ==
  ASSUME NEW b \in EdBuffers, NEW at, NEW count, NEW new
  PROVE  Splice(PushUndo(b), at, count, new)
           = Changed(b, Spliced(b.lines, at, count, new), b.row, b.col, b.kills)
<1>1. PushUndo(b) = Changed(b, b.lines, b.row, b.col, b.kills)
  BY OfBuffers
<1> QED
  BY <1>1, OfChanged

\* The cursor may go anywhere in a line that is replaced, ...
LEMMA SetMoveGood ==
  ASSUME NEW b \in EdBuffers, NEW line \in EdLine, NEW col \in Nat
  PROVE  /\ Good(b, SetLine(PushUndo(b), line))
         /\ Good(b, Move(SetLine(PushUndo(b), line), b.row, col))
<1>1. /\ SetLine(PushUndo(b), line) = Changed(b, Relined(b, line), b.row, b.col, b.kills)
      /\ Relined(b, line) \in EditorText /\ b.row \in 1..Len(Relined(b, line))
  BY SetRecorded
<1>2. Move(SetLine(PushUndo(b), line), b.row, col) = Changed(b, Relined(b, line), b.row, col, b.kills)
  BY <1>1, OfChanged
<1>3. b.col \in Nat /\ b.kills \in Seq(EditorText)
  BY BufferParts
<1> QED
  BY <1>1, <1>2, <1>3, ChangedGood

\* ... and to any line that is there after some were.
LEMMA SpliceMoveGood ==
  ASSUME NEW b \in EdBuffers, NEW at \in 1..Len(b.lines) + 1, NEW count \in Nat,
         at + count <= Len(b.lines) + 1, NEW new \in Seq(EdLine),
         NEW r \in 1..Len(b.lines) - count + Len(new), NEW col \in Nat
  PROVE  Good(b, Move(Splice(PushUndo(b), at, count, new), r, col))
<1>1. b.lines \in EditorText /\ b.kills \in Seq(EditorText)
  BY BufferParts
<1>2. /\ Spliced(b.lines, at, count, new) \in Seq(EdLine)
      /\ Len(Spliced(b.lines, at, count, new)) = Len(b.lines) - count + Len(new)
      /\ Len(new) \in Nat
  BY <1>1, SplicedIs
<1>3. /\ Spliced(b.lines, at, count, new) \in EditorText
      /\ r \in 1..Len(Spliced(b.lines, at, count, new))
  <2>1. r \in 1..Len(Spliced(b.lines, at, count, new))
    BY <1>2
  <2>2. Len(Spliced(b.lines, at, count, new)) # 0
    BY <1>2, <2>1, LenProperties
  <2> QED
    BY <1>2, <2>1, <2>2, TextIs
<1>4. Move(Splice(PushUndo(b), at, count, new), r, col)
        = Changed(b, Spliced(b.lines, at, count, new), r, col, b.kills)
  BY SpliceRecorded, OfChanged
<1> QED
  BY <1>1, <1>3, <1>4, ChangedGood

\* A text put into a line splits it.
Inserted(l, r, c, text) ==
  IF Len(text) = 1 THEN [l EXCEPT ![r] = Upto(l[r], c) \o text[1] \o Beyond(l[r], c)]
  ELSE Spliced(l, r, 1, <<Upto(l[r], c) \o Head(text)>> \o SubSeq(text, 2, Len(text) - 1)
                          \o <<Last(text) \o Beyond(l[r], c)>>)

\* Lines and texts joined.
LEMMA ConcatLine == \A s, t \in EdLine : s \o t \in EdLine
<1> SUFFICES ASSUME NEW s \in EdLine, NEW t \in EdLine PROVE s \o t \in EdLine
  OBVIOUS
<1> QED
  BY ConcatProperties DEF EdLine

LEMMA ConcatLines ==
  ASSUME NEW s \in Seq(EdLine), NEW t \in Seq(EdLine)
  PROVE  s \o t \in Seq(EdLine) /\ Len(s \o t) = Len(s) + Len(t)
BY ConcatProperties

\* The lines that a text of several makes of the line it is put into.
LEMMA Splitting ==
  ASSUME NEW text \in EditorText, Len(text) # 1, NEW first \in EdLine, NEW last \in EdLine
  PROVE  LET new == <<first \o Head(text)>> \o SubSeq(text, 2, Len(text) - 1) \o <<Last(text) \o last>>
         IN  new \in Seq(EdLine) /\ Len(new) = Len(text)
<1>1. text \in Seq(EdLine) /\ Len(text) \in Nat /\ Len(text) > 1
  <2>1. text \in Seq(EdLine) /\ Len(text) \in Nat \ {0}
    BY TextIs
  <2>2. \A n \in Nat \ {0} : n # 1 => n > 1
    OBVIOUS
  <2>3. Len(text) > 1
    BY ONLY <2>1, <2>2, Len(text) # 1
  <2> QED
    BY <2>1, <2>3
<1>2. Head(text) \in EdLine /\ Last(text) \in EdLine
  <2>1. text[Len(text)] \in EdLine
    BY <1>1, ElementOfSeq
  <2>2. text # <<>>
    BY <1>1
  <2> QED
    BY <1>1, <2>1, <2>2, HeadTailProperties DEF Last
<1> DEFINE x == <<first \o Head(text)>>
           y == SubSeq(text, 2, Len(text) - 1)
           z == <<Last(text) \o last>>
<1>3. first \o Head(text) \in EdLine /\ Last(text) \o last \in EdLine
  BY <1>2, ConcatLine
<1>4. x \in Seq(EdLine) /\ Len(x) = 1 /\ z \in Seq(EdLine) /\ Len(z) = 1
  BY <1>3
<1>5. y \in Seq(EdLine) /\ Len(y) = Len(text) - 2
  <2>1. 2 \in Int /\ Len(text) - 1 \in Int /\ \A i \in 2..Len(text) - 1 : text[i] \in EdLine
    BY <1>1, ElementOfSeq
  <2>2. /\ SubSeq(text, 2, Len(text) - 1) \in Seq(EdLine)
        /\ Len(SubSeq(text, 2, Len(text) - 1)) = IF 2 <= Len(text) - 1 THEN Len(text) - 1 - 2 + 1 ELSE 0
    BY <2>1, SubSeqProperties
  <2>3. (IF 2 <= Len(text) - 1 THEN Len(text) - 1 - 2 + 1 ELSE 0) = Len(text) - 2
    <3>1. \A n \in Nat : n > 1 => (IF 2 <= n - 1 THEN n - 1 - 2 + 1 ELSE 0) = n - 2
      OBVIOUS
    <3> QED
      BY ONLY <1>1, <3>1
  <2> QED
    BY <2>2, <2>3
<1> HIDE DEF x, y, z
<1>6. x \o y \in Seq(EdLine) /\ Len(x \o y) = 1 + (Len(text) - 2)
  BY <1>4, <1>5, ConcatLines
<1>7. x \o y \o z \in Seq(EdLine) /\ Len(x \o y \o z) = 1 + (Len(text) - 2) + 1
  BY <1>4, <1>6, ConcatLines
<1> QED
  BY <1>1, <1>7 DEF x, y, z

LEMMA InsertedIs ==
  ASSUME NEW l \in EditorText, NEW r \in 1..Len(l), NEW c \in Nat, NEW text \in EditorText
  PROVE  /\ Inserted(l, r, c, text) \in EditorText
         /\ Len(Inserted(l, r, c, text)) = Len(l) + Len(text) - 1
<1>1. l[r] \in EdLine /\ Len(l) \in Nat /\ Len(text) \in Nat \ {0}
  BY TextIs
<1>2. Upto(l[r], c) \in EdLine /\ Beyond(l[r], c) \in EdLine
  BY <1>1, PartTypes
<1>3. CASE Len(text) = 1
  <2>1. text[1] \in EdLine
    BY <1>3, TextIs
  <2>2. Upto(l[r], c) \o text[1] \in EdLine
    BY <1>2, <2>1, ConcatLine
  <2>3. Upto(l[r], c) \o text[1] \o Beyond(l[r], c) \in EdLine
    BY <1>2, <2>2, ConcatLine
  <2> DEFINE line == Upto(l[r], c) \o text[1] \o Beyond(l[r], c)
  <2>4. Inserted(l, r, c, text) = [l EXCEPT ![r] = line]
    BY <1>3 DEF Inserted
  <2> HIDE DEF line
  <2>5. [l EXCEPT ![r] = line] \in EditorText /\ Len([l EXCEPT ![r] = line]) = Len(l)
    BY <2>3, LineSet DEF line
  <2> QED
    BY <1>1, <1>3, <2>4, <2>5
<1>4. CASE Len(text) # 1
  <2> DEFINE new == <<Upto(l[r], c) \o Head(text)>> \o SubSeq(text, 2, Len(text) - 1)
                      \o <<Last(text) \o Beyond(l[r], c)>>
  <2>1. new \in Seq(EdLine) /\ Len(new) = Len(text)
    BY <1>2, <1>4, Splitting
  <2>2. Inserted(l, r, c, text) = Spliced(l, r, 1, new)
    BY <1>4 DEF Inserted
  <2> HIDE DEF new
  <2>3. r \in 1..Len(l) + 1 /\ 1 \in Nat /\ r + 1 <= Len(l) + 1
    BY <1>1
  <2>4. Spliced(l, r, 1, new) \in Seq(EdLine) /\ Len(Spliced(l, r, 1, new)) = Len(l) - 1 + Len(new)
    BY <2>1, <2>3, SplicedIs
  <2>5. Len(l) - 1 + Len(new) = Len(l) + Len(text) - 1 /\ Len(l) - 1 + Len(new) # 0
    BY <1>1, <2>1
  <2> QED
    BY <2>2, <2>4, <2>5, TextIs
<1> QED
  BY <1>3, <1>4

InsertedAs(d, b, l, r, c, k, text) ==
  \E x \in 1..Len(l) + Len(text) - 1, y \in Nat : d = Changed(b, Inserted(l, r, c, text), x, y, k)

\* insertRaw puts the text in, whatever is on the stacks.
LEMMA InsertRawIs ==
  ASSUME NEW b, NEW l \in EditorText, NEW r \in 1..Len(l), NEW c \in Nat, NEW k,
         NEW text \in EditorText
  PROVE  InsertedAs(InsertRaw(Changed(b, l, r, c, k), text), b, l, r, c, k, text)
<1> DEFINE d == Changed(b, l, r, c, k)
<1>1. /\ d.lines = l /\ d.row = r /\ d.col = c /\ LineOf(d) = l[r]
  BY OfChanged
<1>2. \A x, y : Move(d, x, y) = Changed(b, l, x, y, k)
  BY OfChanged
<1>3. \A line : SetLine(d, line) = Changed(b, [l EXCEPT ![r] = line], r, c, k)
  BY OfChanged
<1>4. \A at, count, new : Splice(d, at, count, new) = Changed(b, Spliced(l, at, count, new), r, c, k)
  BY OfChanged
<1>5. Len(l) \in Nat /\ Len(text) \in Nat \ {0}
  BY TextIs
<1> HIDE DEF d
<1>6. CASE Len(text) = 1
  <2> DEFINE line == Upto(l[r], c) \o text[1] \o Beyond(l[r], c)
             y == c + Len(text[1])
  <2>1. InsertRaw(d, text) = Move(SetLine(d, line), r, y)
    BY <1>1, <1>6 DEF InsertRaw
  <2>2. SetLine(d, line) = Changed(b, [l EXCEPT ![r] = line], r, c, k)
    BY <1>3
  <2>3. Inserted(l, r, c, text) = [l EXCEPT ![r] = line]
    BY <1>6 DEF Inserted
  <2> HIDE DEF line
  <2>4. Move(SetLine(d, line), r, y) = Changed(b, [l EXCEPT ![r] = line], r, y, k)
    BY <2>2, OfChanged
  <2>5. text[1] \in EdLine
    BY <1>6, TextIs
  <2>6. y \in Nat
    BY <2>5, LenProperties DEF EdLine
  <2>7. r \in 1..Len(l) + Len(text) - 1
    BY <1>5
  <2> QED
    BY <2>1, <2>3, <2>4, <2>6, <2>7 DEF d, InsertedAs
<1>7. CASE Len(text) # 1
  <2> DEFINE new == <<Upto(l[r], c) \o Head(text)>> \o SubSeq(text, 2, Len(text) - 1)
                      \o <<Last(text) \o Beyond(l[r], c)>>
             x == r + Len(text) - 1
             y == Len(Last(text))
  <2>1. InsertRaw(d, text) = Move(Splice(d, r, 1, new), x, y)
    BY <1>1, <1>7 DEF InsertRaw
  <2>2. Splice(d, r, 1, new) = Changed(b, Spliced(l, r, 1, new), r, c, k)
    BY <1>4
  <2>3. Inserted(l, r, c, text) = Spliced(l, r, 1, new)
    BY <1>7 DEF Inserted
  <2> HIDE DEF new
  <2>4. Move(Splice(d, r, 1, new), x, y) = Changed(b, Spliced(l, r, 1, new), x, y, k)
    BY <2>2, OfChanged
  <2>5. Last(text) \in EdLine
    BY <1>5, TextIs DEF Last
  <2>6. y \in Nat
    BY <2>5, LenProperties DEF EdLine
  <2>7. x \in 1..Len(l) + Len(text) - 1
    BY <1>5
  <2> QED
    BY <2>1, <2>3, <2>4, <2>6, <2>7 DEF d, InsertedAs
<1> QED
  BY <1>6, <1>7

LEMMA InsertRawGood ==
  ASSUME NEW b \in EdBuffers, NEW l \in EditorText, NEW r \in 1..Len(l), NEW c \in Nat,
         NEW text \in EditorText
  PROVE  Good(b, InsertRaw(Changed(b, l, r, c, b.kills), text))
<1>0. InsertedAs(InsertRaw(Changed(b, l, r, c, b.kills), text), b, l, r, c, b.kills, text)
  BY InsertRawIs
<1>1. PICK x \in 1..Len(l) + Len(text) - 1, y \in Nat :
        InsertRaw(Changed(b, l, r, c, b.kills), text) = Changed(b, Inserted(l, r, c, text), x, y, b.kills)
  BY <1>0 DEF InsertedAs
<1>2. Inserted(l, r, c, text) \in EditorText /\ x \in 1..Len(Inserted(l, r, c, text))
  BY InsertedIs
<1>3. b.kills \in Seq(EditorText)
  BY BufferParts
<1> QED
  BY <1>1, <1>2, <1>3, ChangedGood

\* insertText records once and puts the text in.
LEMMA InsertTextIs ==
  ASSUME NEW b \in EdBuffers, NEW text \in EditorText
  PROVE  /\ Good(b, InsertText(b, text))
         /\ text # NoText => InsertText(b, text).lines = Inserted(b.lines, b.row, b.col, text)
<1>1. PushUndo(b) = Changed(b, b.lines, b.row, b.col, b.kills)
  BY OfBuffers
<1>2. b.lines \in EditorText /\ b.row \in 1..Len(b.lines) /\ b.col \in Nat
  BY BufferParts
<1>3. Good(b, InsertRaw(PushUndo(b), text))
  BY <1>1, <1>2, InsertRawGood
<1>4. InsertRaw(PushUndo(b), text).lines = Inserted(b.lines, b.row, b.col, text)
  <2>0. InsertedAs(InsertRaw(PushUndo(b), text), b, b.lines, b.row, b.col, b.kills, text)
    BY <1>1, <1>2, InsertRawIs
  <2>1. PICK x, y : InsertRaw(PushUndo(b), text) = Changed(b, Inserted(b.lines, b.row, b.col, text), x, y, b.kills)
    BY <2>0 DEF InsertedAs
  <2> QED
    BY <2>1, OfChanged
<1> QED
  BY <1>3, <1>4, SameGood DEF InsertText

\* setText and clear record what they replace.
LEMMA SetTextGood ==
  ASSUME NEW b \in EdBuffers, NEW text \in EditorText
  PROVE  Good(b, SetText(b, text))
<1>1. PushUndo(b) = EdBuf(b.lines, b.row, b.col, Pushed(b), b.kills)
  BY OfBuffers DEF Changed
<1>2. [PushUndo(b) EXCEPT !.lines = text] = Changed(b, text, b.row, b.col, b.kills)
  BY <1>1 DEF EdBuf, Changed
<1>3. SetText(b, text) = Changed(b, text, Len(text), Len(Last(text)), b.kills)
  BY <1>2, OfChanged DEF SetText
<1>4. Len(text) \in 1..Len(text) /\ text[Len(text)] \in EdLine
  BY TextIs
<1>5. Len(Last(text)) \in Nat
  BY <1>4, LenProperties DEF EdLine, Last
<1> QED
  BY <1>3, <1>4, <1>5, BufferParts, ChangedGood

\* A line of a buffer.
LEMMA LineIs ==
  ASSUME NEW b \in EdBuffers, NEW r \in 1..Len(b.lines)
  PROVE  b.lines[r] \in EdLine /\ Len(b.lines[r]) \in Nat
<1>1. b.lines[r] \in EdLine
  BY BufferParts, TextIs
<1> QED
  BY <1>1, LenProperties DEF EdLine

\* Moves of the cursor.
LEMMA MovesGood ==
  ASSUME NEW b \in EdBuffers
  PROVE  /\ Good(b, CursorLeft(b)) /\ Good(b, CursorRight(b))
         /\ Good(b, Home(b)) /\ Good(b, End(b))
         /\ Good(b, Move(b, 1, 0)) /\ Good(b, Move(b, Len(b.lines), 0))
         /\ \A row \in Int : Good(b, CursorToRow(b, row))
<1>1. /\ b.row \in 1..Len(b.lines) /\ b.row \in Nat /\ Len(b.lines) \in Nat /\ b.col \in Nat
      /\ Len(LineOf(b)) \in Nat /\ 0 \in Nat /\ DOMAIN b.lines = 1..Len(b.lines)
  BY BufferParts, LenProperties
<1>2. Good(b, b)
  BY SameGood
<1>3. Good(b, CursorLeft(b))
  <2>1. CASE b.col > 0
    <3>1. Good(b, Move(b, b.row, b.col - 1))
      BY <1>1, <2>1, MoveGood
    <3> QED
      BY <2>1, <3>1 DEF CursorLeft
  <2>2. CASE ~(b.col > 0) /\ b.row > 1
    <3>1. b.row - 1 \in 1..Len(b.lines)
      BY <1>1, <2>2
    <3>2. Len(b.lines[b.row - 1]) \in Nat
      BY <3>1, LineIs
    <3>3. Good(b, Move(b, b.row - 1, Len(b.lines[b.row - 1])))
      BY <3>1, <3>2, MoveGood
    <3> QED
      BY <2>2, <3>3 DEF CursorLeft
  <2> QED
    BY <1>2, <2>1, <2>2 DEF CursorLeft
<1>4. Good(b, CursorRight(b))
  <2>1. Good(b, Move(b, b.row, b.col + 1))
    BY <1>1, MoveGood
  <2>2. ASSUME b.row < Len(b.lines) PROVE Good(b, Move(b, b.row + 1, 0))
    <3>1. b.row + 1 \in 1..Len(b.lines)
      BY <1>1, <2>2
    <3> QED
      BY <1>1, <3>1, MoveGood
  <2> QED
    BY <1>2, <2>1, <2>2 DEF CursorRight
<1>5. Good(b, Home(b)) /\ Good(b, End(b))
  BY <1>1, MoveGood DEF Home, End
<1>6. Good(b, Move(b, 1, 0)) /\ Good(b, Move(b, Len(b.lines), 0))
  <2>1. 1 \in 1..Len(b.lines) /\ Len(b.lines) \in 1..Len(b.lines)
    BY <1>1
  <2> QED
    BY <1>1, <2>1, MoveGood
<1>7. ASSUME NEW row \in Int PROVE Good(b, CursorToRow(b, row))
  <2>1. CASE row \in DOMAIN b.lines
    <3>1. Len(b.lines[row]) \in Nat
      BY <1>1, <2>1, LineIs
    <3>2. Min({b.col, Len(b.lines[row])}) \in Nat
      BY <1>1, <3>1, MinOfTwo
    <3>3. Good(b, Move(b, row, Min({b.col, Len(b.lines[row])})))
      BY <1>1, <2>1, <3>2, MoveGood
    <3> QED
      BY <2>1, <3>3 DEF CursorToRow
  <2> QED
    BY <1>2, <2>1 DEF CursorToRow
<1> QED
  BY <1>3, <1>4, <1>5, <1>6, <1>7

\* Where a word starts, going back over white space, and where the next one ends.
LEMMA WordIs ==
  ASSUME NEW line \in EdLine, NEW col \in Nat
  PROVE  LET last == IF col <= Len(line) THEN Len(line) ELSE col
         IN  /\ EndOfSpace(line, col) \in col..last /\ EndOfWord(line, col) \in col..last
             /\ EndOfWord(line, EndOfSpace(line, col)) \in col..last
             /\ StartOfWord(line, StartOfSpace(line, col)) \in 0..col
<1> DEFINE last == IF col <= Len(line) THEN Len(line) ELSE col
           mid == EndOfSpace(line, col)
<1>1. Len(line) \in Nat
  BY PartIs
<1>2. mid \in col..last /\ EndOfWord(line, col) \in col..last
  BY EndIs
<1>3. last \in Nat
  BY <1>1
<1>4. mid \in Nat
  BY <1>2, <1>3
<1> HIDE DEF mid
<1>5. EndOfWord(line, mid) \in mid..(IF mid <= Len(line) THEN Len(line) ELSE mid)
  BY <1>4, EndIs
<1>6. EndOfWord(line, mid) \in col..last
  <2>1. CASE col <= Len(line)
    BY <1>1, <1>2, <1>4, <1>5, <2>1
  <2>2. CASE ~(col <= Len(line))
    BY <1>1, <1>2, <1>4, <1>5, <2>2
  <2> QED
    BY <2>1, <2>2
<1>7. StartOfSpace(line, col) \in 0..col
  BY StartIs
<1>8. StartOfSpace(line, col) \in Nat
  BY <1>7
<1>9. StartOfWord(line, StartOfSpace(line, col)) \in 0..StartOfSpace(line, col)
  BY <1>8, StartIs
<1>10. StartOfWord(line, StartOfSpace(line, col)) \in 0..col
  BY <1>7, <1>8, <1>9
<1> QED
  BY <1>2, <1>6, <1>10 DEF mid, last

LEMMA WordsGood ==
  ASSUME NEW b \in EdBuffers
  PROVE  Good(b, WordLeft(b)) /\ Good(b, WordRight(b))
<1>1. /\ b.row \in 1..Len(b.lines) /\ b.row \in Nat /\ Len(b.lines) \in Nat /\ b.col \in Nat
      /\ Len(LineOf(b)) \in Nat
  BY BufferParts
<1>2. Good(b, WordLeft(b))
  <2> DEFINE up == b.col = 0 /\ b.row > 1
             row == IF up THEN b.row - 1 ELSE b.row
             col == IF up THEN Len(b.lines[row]) ELSE b.col
  <2>1. row \in 1..Len(b.lines)
    BY <1>1
  <2> HIDE DEF row
  <2>2. b.lines[row] \in EdLine /\ Len(b.lines[row]) \in Nat
    BY <2>1, LineIs
  <2>3. col \in Nat
    BY <1>1, <2>2
  <2> HIDE DEF col
  <2>4. StartOfWord(b.lines[row], StartOfSpace(b.lines[row], col)) \in 0..col
    BY <2>2, <2>3, WordIs
  <2>5. StartOfWord(b.lines[row], StartOfSpace(b.lines[row], col)) \in Nat
    BY <2>4
  <2>6. Good(b, Move(b, row, StartOfWord(b.lines[row], StartOfSpace(b.lines[row], col))))
    BY <2>1, <2>5, MoveGood
  <2>7. WordLeft(b) = Move(b, row, StartOfWord(b.lines[row], StartOfSpace(b.lines[row], col)))
    BY DEF WordLeft, row, col
  <2> QED
    BY <2>6, <2>7
<1>3. Good(b, WordRight(b))
  <2> DEFINE down == b.col = Len(LineOf(b)) /\ b.row < Len(b.lines)
             row == IF down THEN b.row + 1 ELSE b.row
             col == IF down THEN 0 ELSE b.col
  <2>1. row \in 1..Len(b.lines)
    BY <1>1
  <2>3. col \in Nat
    BY <1>1
  <2> HIDE DEF row, col
  <2>2. b.lines[row] \in EdLine /\ Len(b.lines[row]) \in Nat
    BY <2>1, LineIs
  <2> DEFINE end == EndOfWord(b.lines[row], EndOfSpace(b.lines[row], col))
  <2>4. end \in col..(IF col <= Len(b.lines[row]) THEN Len(b.lines[row]) ELSE col)
    BY <2>2, <2>3, WordIs
  <2> HIDE DEF end
  <2>5. end \in Nat
    BY <2>2, <2>3, <2>4
  <2>6. Good(b, Move(b, row, end))
    BY <2>1, <2>5, MoveGood
  <2>7. WordRight(b) = Move(b, row, end)
    BY DEF WordRight, row, col, end
  <2> QED
    BY <2>6, <2>7
<1> QED
  BY <1>2, <1>3

LEMMA WordEndGood ==
  ASSUME NEW b \in EdBuffers
  PROVE  Good(b, WordEndForward(b))
<1> DEFINE longer == {r \in b.row + 1..Len(b.lines) : Len(b.lines[r]) > 1}
           stays == b.col < Len(LineOf(b)) - 1
           row == IF stays THEN b.row ELSE IF longer # {} THEN Min(longer) ELSE Len(b.lines)
           line == b.lines[row]
           col == EndOfSpace(line, (IF stays THEN b.col ELSE 0) + 1)
           alike(c) == (Char(line, c) \in Letters) = (Char(line, col) \in Letters)
           ends == {c \in col..Len(line) - 1 :
                      c + 1 = Len(line) \/ Char(line, c + 1) \in Space \/ ~alike(c + 1)}
<1>1. /\ b.row \in 1..Len(b.lines) /\ b.row \in Nat /\ Len(b.lines) \in Nat /\ b.col \in Nat
      /\ LineOf(b) = b.lines[b.row] /\ Len(LineOf(b)) \in Nat /\ 0 \in Nat
  BY BufferParts
<1>2. Good(b, b)
  BY SameGood
<1>3. /\ row \in 1..Len(b.lines)
      /\ stays \/ longer # {} => Len(b.lines[row]) > 1
  <2>1. CASE stays
    BY <1>1, <2>1
  <2>2. CASE ~stays /\ longer # {}
    <3>1. longer \subseteq Nat
      BY <1>1
    <3>2. Min(longer) \in longer
      BY <2>2, <3>1, MinIs
    <3> HIDE DEF stays
    <3>3. row = Min(longer)
      BY <2>2
    <3> HIDE DEF row, longer
    <3>4. row \in longer
      BY <3>2, <3>3
    <3>5. row \in b.row + 1..Len(b.lines) /\ Len(b.lines[row]) > 1
      BY <3>4 DEF longer
    <3> QED
      BY <1>1, <3>5
  <2>3. CASE ~stays /\ longer = {}
    <3>1. row = Len(b.lines)
      BY <2>3
    <3> QED
      BY <1>1, <2>3, <3>1
  <2> QED
    BY <2>1, <2>2, <2>3
<1> HIDE DEF row
<1>4. line \in EdLine /\ Len(line) \in Nat
  BY <1>3, LineIs
<1>5. (IF stays THEN b.col ELSE 0) + 1 \in Nat
  BY <1>1
<1> HIDE DEF stays, longer
<1>6. col \in Nat
  <2> DEFINE n == (IF stays THEN b.col ELSE 0) + 1
  <2>0. n \in Nat
    BY <1>5
  <2> HIDE DEF n
  <2>1. EndOfSpace(line, n) \in n..(IF n <= Len(line) THEN Len(line) ELSE n)
    BY <1>4, <2>0, EndIs
  <2>2. EndOfSpace(line, n) \in Nat
    BY <1>4, <2>0, <2>1
  <2> QED
    BY <2>2 DEF n
<1> HIDE DEF line, col
<1>7. CASE ~stays /\ longer = {}
  <2>1. Good(b, Move(b, row, 0))
    BY <1>1, <1>3, MoveGood
  <2>2. WordEndForward(b) = IF row = b.row THEN b ELSE Move(b, row, 0)
    BY <1>7 DEF WordEndForward, row, longer, stays
  <2> QED
    BY <1>2, <2>1, <2>2
<1>8. CASE ~(~stays /\ longer = {}) /\ col >= Len(line)
  <2>1. Len(line) - 1 \in Nat
    BY <1>3, <1>4, <1>8 DEF line
  <2>2. Good(b, Move(b, row, Len(line) - 1))
    BY <1>3, <2>1, MoveGood
  <2>3. WordEndForward(b) = Move(b, row, Len(line) - 1)
    BY <1>8 DEF WordEndForward, row, longer, stays, line, col
  <2> QED
    BY <2>2, <2>3
<1>9. CASE ~(~stays /\ longer = {}) /\ ~(col >= Len(line))
  <2>1. ends \subseteq Nat /\ Len(line) - 1 \in ends
    BY <1>4, <1>6, <1>9
  <2> HIDE DEF ends
  <2>2. Min(ends) \in Nat
    BY <2>1, MinIs
  <2>3. Good(b, Move(b, row, Min(ends)))
    BY <1>3, <2>2, MoveGood
  <2>4. WordEndForward(b) = Move(b, row, Min(ends))
    BY <1>9 DEF WordEndForward, row, longer, stays, line, col, ends
  <2> QED
    BY <2>3, <2>4
<1> QED
  BY <1>7, <1>8, <1>9

\* What was recorded is what is taken back.
LEMMA UndoIs ==
  ASSUME NEW b \in EdBuffers
  PROVE  /\ Undo(b) \in EdBuffers
         /\ \A c \in EdBuffers : c.undo = Pushed(b) => Snapshot(Undo(c)) = Snapshot(b)
<1>1. ASSUME NEW c \in EdBuffers, c.undo # <<>>
      PROVE  Undo(c) = EdBuf(Last(c.undo).lines, Last(c.undo).row, Last(c.undo).col, Front(c.undo), c.kills)
  <2> DEFINE s == Last(c.undo)
  <2>1. Move(c, s.row, s.col) = EdBuf(c.lines, s.row, s.col, c.undo, c.kills)
    BY OfBuffers DEF Kept
  <2> HIDE DEF s
  <2>2. [EdBuf(c.lines, s.row, s.col, c.undo, c.kills) EXCEPT !.lines = s.lines, !.undo = Front(@)]
          = EdBuf(s.lines, s.row, s.col, Front(c.undo), c.kills)
    <3>1. [EdBuf(c.lines, s.row, s.col, c.undo, c.kills) EXCEPT !.lines = s.lines]
            = EdBuf(s.lines, s.row, s.col, c.undo, c.kills)
      BY DEF EdBuf
    <3>2. [EdBuf(s.lines, s.row, s.col, c.undo, c.kills) EXCEPT !.undo = Front(@)]
            = EdBuf(s.lines, s.row, s.col, Front(c.undo), c.kills)
      BY DEF EdBuf
    <3> QED
      BY ONLY <3>1, <3>2
  <2>3. Undo(c) = [Move(c, s.row, s.col) EXCEPT !.lines = s.lines, !.undo = Front(@)]
    BY <1>1 DEF Undo, s
  <2> QED
    BY <2>1, <2>2, <2>3 DEF s
<1>2. Undo(b) \in EdBuffers
  <2>1. CASE b.undo = <<>>
    BY <2>1 DEF Undo
  <2>2. CASE b.undo # <<>>
    <3>1. b.undo \in Seq(EdSnapshots)
      BY BufferParts
    <3>2. Len(b.undo) \in Nat /\ Len(b.undo) # 0
      BY <2>2, <3>1, LenProperties, EmptySeq
    <3>3. b.undo[Len(b.undo)] \in EdSnapshots
      BY <3>1, <3>2, ElementOfSeq
    <3>4. SubSeq(b.undo, 1, Len(b.undo) - 1) \in Seq(EdSnapshots)
      <4>1. \A i \in 1..Len(b.undo) - 1 : b.undo[i] \in EdSnapshots
        BY <3>1, <3>2, ElementOfSeq
      <4> QED
        BY <3>2, <4>1, SubSeqProperties
    <3>5. Last(b.undo) \in EdSnapshots /\ Front(b.undo) \in Seq(EdSnapshots)
      BY <3>3, <3>4 DEF Last, Front
    <3>6. b.kills \in Seq(EditorText)
      BY BufferParts
    <3> DEFINE s == Last(b.undo)
    <3>7. s.lines \in EditorText /\ s.row \in Nat /\ s.col \in Nat /\ s.row \in DOMAIN s.lines
      BY <3>5 DEF EdSnapshots
    <3> HIDE DEF s
    <3>8. EdBuf(s.lines, s.row, s.col, Front(b.undo), b.kills) \in EdBuffers
      BY <3>5, <3>6, <3>7 DEF EdBuf, EdBuffers
    <3> QED
      BY <1>1, <2>2, <3>8 DEF s
  <2> QED
    BY <2>1, <2>2
<1>3. ASSUME NEW c \in EdBuffers, c.undo = Pushed(b)
      PROVE  Snapshot(Undo(c)) = Snapshot(b)
  <2>1. c.undo # <<>> /\ Last(c.undo) = Snapshot(b)
    BY <1>3, PushedIs
  <2>2. Snapshot(b) = EdSnap(b.lines, b.row, b.col)
    BY SnapshotIs
  <2>3. Last(c.undo).lines = b.lines /\ Last(c.undo).row = b.row /\ Last(c.undo).col = b.col
    BY <2>1, <2>2 DEF EdSnap
  <2>4. Undo(c) = EdBuf(b.lines, b.row, b.col, Front(c.undo), c.kills)
    BY <1>1, <2>1, <2>3
  <2> QED
    BY <2>2, <2>4, Primitives
<1> QED
  BY <1>2, <1>3

\* The same, one by one.
LEMMA ChangedParts ==
  ASSUME NEW b, NEW l, NEW r, NEW c, NEW k
  PROVE  /\ Changed(b, l, r, c, k).lines = l /\ Changed(b, l, r, c, k).row = r
         /\ Changed(b, l, r, c, k).col = c /\ Changed(b, l, r, c, k).kills = k
BY OfChanged

LEMMA MoveChanged ==
  ASSUME NEW b, NEW l, NEW r, NEW c, NEW k, NEW x, NEW y
  PROVE  Move(Changed(b, l, r, c, k), x, y) = Changed(b, l, x, y, k)
BY OfChanged

LEMMA KillChanged ==
  ASSUME NEW b, NEW l, NEW r, NEW c, NEW text
  PROVE  PushKill(Changed(b, l, r, c, b.kills), text) = Changed(b, l, r, c, Killed(b, text))
<1>1. PushKill(Changed(b, l, r, c, b.kills), text)
        = Changed(b, l, r, c, Latest(b.kills, text, KillLimit))
  BY OfChanged
<1> QED
  BY <1>1 DEF Killed

\* Something is cut out of the line of the cursor.
CutLines(b, from, to) == Relined(b, Without(LineOf(b), from, to))
CutText(b, from, to) == <<Part(LineOf(b), from, to)>>

LEMMA CutIs ==
  ASSUME NEW b \in EdBuffers, NEW from \in Nat, NEW to \in Nat
  PROVE  /\ Cut(b, from, to, TRUE)
              = Changed(b, CutLines(b, from, to), b.row, b.col, Killed(b, CutText(b, from, to)))
         /\ Cut(b, from, to, FALSE) = Changed(b, CutLines(b, from, to), b.row, b.col, b.kills)
         /\ CutLines(b, from, to) \in EditorText /\ b.row \in 1..Len(CutLines(b, from, to))
         /\ CutText(b, from, to) \in EditorText
         /\ Killed(b, CutText(b, from, to)) \in Seq(EditorText)
<1>1. LineOf(b) \in EdLine
  BY BufferParts
<1>2. Without(LineOf(b), from, to) \in EdLine /\ Part(LineOf(b), from, to) \in EdLine
  BY <1>1, PartTypes
<1>3. /\ SetLine(PushUndo(b), Without(LineOf(b), from, to))
           = Changed(b, CutLines(b, from, to), b.row, b.col, b.kills)
      /\ CutLines(b, from, to) \in EditorText /\ b.row \in 1..Len(CutLines(b, from, to))
  BY <1>2, SetRecorded DEF CutLines
<1>4. CutText(b, from, to) \in EditorText
  BY <1>2, TextIs DEF CutText
<1>5. Killed(b, CutText(b, from, to)) \in Seq(EditorText)
  BY <1>4, KilledIs
<1>6. Cut(b, from, to, FALSE) = Changed(b, CutLines(b, from, to), b.row, b.col, b.kills)
  BY <1>3 DEF Cut
<1>7. Cut(b, from, to, TRUE)
        = PushKill(SetLine(PushUndo(b), Without(LineOf(b), from, to)), CutText(b, from, to))
  BY DEF Cut, CutText
<1>8. Cut(b, from, to, TRUE)
        = Changed(b, CutLines(b, from, to), b.row, b.col, Killed(b, CutText(b, from, to)))
  BY <1>3, <1>7, KillChanged
<1> QED
  BY <1>3, <1>4, <1>5, <1>6, <1>8

LEMMA CutGood ==
  ASSUME NEW b \in EdBuffers, NEW from \in Nat, NEW to \in Nat, NEW col \in Nat
  PROVE  /\ Good(b, Cut(b, from, to, TRUE)) /\ Good(b, Cut(b, from, to, FALSE))
         /\ Good(b, Move(Cut(b, from, to, TRUE), b.row, col))
         /\ Good(b, Home(Cut(b, from, to, TRUE)))
<1>1. /\ Cut(b, from, to, TRUE)
           = Changed(b, CutLines(b, from, to), b.row, b.col, Killed(b, CutText(b, from, to)))
      /\ Cut(b, from, to, FALSE) = Changed(b, CutLines(b, from, to), b.row, b.col, b.kills)
      /\ CutLines(b, from, to) \in EditorText /\ b.row \in 1..Len(CutLines(b, from, to))
      /\ Killed(b, CutText(b, from, to)) \in Seq(EditorText)
  BY CutIs
<1>2. b.col \in Nat /\ b.kills \in Seq(EditorText) /\ 0 \in Nat
  BY BufferParts
<1>3. Good(b, Cut(b, from, to, TRUE)) /\ Good(b, Cut(b, from, to, FALSE))
  BY <1>1, <1>2, ChangedGood
<1> DEFINE d == Cut(b, from, to, TRUE)
<1>0. d = Changed(b, CutLines(b, from, to), b.row, b.col, Killed(b, CutText(b, from, to)))
  BY <1>1
<1> HIDE DEF d
<1>4. \A c \in Nat : Move(d, b.row, c)
        = Changed(b, CutLines(b, from, to), b.row, c, Killed(b, CutText(b, from, to)))
  BY ONLY <1>0, MoveChanged
<1>5. Good(b, Move(d, b.row, col)) /\ Good(b, Move(d, b.row, 0))
  BY <1>1, <1>2, <1>4, ChangedGood
<1>6. d.row = b.row
  BY ONLY <1>0, ChangedParts
<1>7. Good(b, Home(d))
  BY <1>5, <1>6 DEF Home
<1> QED
  BY <1>3, <1>5, <1>7 DEF d

\* What was cut is put back where the cursor is.
Took(b, c) == c.lines # b.lines => Yank(c).lines = b.lines

\* What was killed last is put in where the cursor is.
LEMMA YankIs ==
  ASSUME NEW b \in EdBuffers, NEW l \in EditorText, NEW r \in 1..Len(l), NEW col \in Nat,
         NEW text \in EditorText
  PROVE  LET c == Changed(b, l, r, col, Killed(b, text)) IN
         Yank(c).lines = IF text = NoText THEN l ELSE Inserted(l, r, col, text)
<1> DEFINE c == Changed(b, l, r, col, Killed(b, text))
<1>1. Killed(b, text) \in Seq(EditorText) /\ Killed(b, text) # <<>> /\ Last(Killed(b, text)) = text
  BY KilledIs
<1>2. Good(b, c)
  BY <1>1, ChangedGood
<1>3. c.lines = l /\ c.row = r /\ c.col = col /\ c.kills = Killed(b, text)
  BY OfChanged
<1> HIDE DEF c
<1>4. c \in EdBuffers
  BY <1>2 DEF Good
<1>5. Yank(c) = InsertText(c, text)
  BY <1>1, <1>3 DEF Yank
<1>6. CASE text = NoText
  BY <1>3, <1>5, <1>6 DEF InsertText, c
<1>7. CASE text # NoText
  <2>1. InsertText(c, text).lines = Inserted(c.lines, c.row, c.col, text)
    BY <1>4, <1>7, InsertTextIs
  <2> QED
    BY <1>3, <1>5, <1>7, <2>1 DEF c
<1> QED
  BY <1>6, <1>7

LEMMA LineTook ==
  ASSUME NEW b \in EdBuffers, NEW r \in 1..Len(b.lines), NEW from \in Nat, NEW to \in Nat,
         from <= to, from <= Len(b.lines[r])
  PROVE  Took(b, Changed(b, [b.lines EXCEPT ![r] = Without(b.lines[r], from, to)], r, from,
                         Killed(b, <<Part(b.lines[r], from, to)>>)))
<1> DEFINE line == b.lines[r]
           rest == Without(line, from, to)
           text == <<Part(line, from, to)>>
           l == [b.lines EXCEPT ![r] = rest]
           c == Changed(b, l, r, from, Killed(b, text))
<1>1. /\ b.lines \in EditorText /\ line \in EdLine
      /\ b.lines \in Seq(EdLine) /\ DOMAIN b.lines = 1..Len(b.lines)
  BY BufferParts, TextIs
<1>6. Upto(rest, from) \o Part(line, from, to) \o Beyond(rest, from) = line
  BY <1>1, PutBack
<1>7. c.lines = l
  BY OfChanged
<1>9. Upto(rest, from) \o Beyond(rest, from) = rest
  <2>1. Beyond(line, to) \in EdLine
    BY <1>1, PartTypes
  <2>2. Upto(rest, from) = Upto(line, from) /\ Beyond(rest, from) = Beyond(line, to)
    BY <1>1, <2>1, Apart DEF Without
  <2> QED
    BY <2>2 DEF Without
<1>10. rest \in EdLine /\ Part(line, from, to) \in EdLine
  BY <1>1, PartTypes
<1>11. Upto(rest, from) \in EdLine
  BY <1>10, PartTypes
<1>12. text \in EditorText /\ Len(text) = 1 /\ text[1] = Part(line, from, to)
  BY <1>10, TextIs
<1>13. l \in EditorText /\ Len(l) = Len(b.lines)
  BY <1>1, <1>10, LineSet
<1>14. l[r] = rest
  BY <1>1
<1> HIDE DEF rest, c, line
<1>15. [l EXCEPT ![r] = line] = b.lines
  BY <1>1 DEF line
<1> HIDE DEF l, text
<1>16. Yank(c).lines = IF text = NoText THEN l ELSE Inserted(l, r, from, text)
  <2>1. r \in 1..Len(l)
    BY <1>13
  <2> QED
    BY <1>12, <1>13, <2>1, YankIs DEF c
<1>17. Took(b, c)
  <2>1. CASE text = NoText
    <3>1. Part(line, from, to) = <<>>
      BY <1>12, <2>1 DEF NoText
    <3>2. Upto(rest, from) \o <<>> = Upto(rest, from)
      BY <1>11, ConcatEmptySeq DEF EdLine
    <3>3. rest = line
      BY <1>6, <1>9, <3>1, <3>2
    <3>4. [b.lines EXCEPT ![r] = b.lines[r]] = b.lines
      BY <1>1
    <3>5. l = b.lines
      BY <1>1, <3>3, <3>4 DEF l, line
    <3> QED
      BY <1>7, <3>5 DEF Took
  <2>2. CASE text # NoText
    <3>3. Inserted(l, r, from, text) = [l EXCEPT ![r] = line]
      BY <1>6, <1>12, <1>14 DEF Inserted
    <3> QED
      BY <1>15, <1>16, <2>2, <3>3 DEF Took
  <2> QED
    BY <2>1, <2>2
<1> QED
  BY <1>17 DEF c, l, rest, text, line

LEMMA CutTook ==
  ASSUME NEW b \in EdBuffers, NEW from \in Nat, NEW to \in Nat, from <= to, from <= Len(LineOf(b))
  PROVE  /\ Took(b, Move(Cut(b, from, to, TRUE), b.row, from))
         /\ b.col = from => Took(b, Cut(b, from, to, TRUE))
<1> DEFINE d == Cut(b, from, to, TRUE)
           c == Changed(b, CutLines(b, from, to), b.row, from, Killed(b, CutText(b, from, to)))
<1>1. d = Changed(b, CutLines(b, from, to), b.row, b.col, Killed(b, CutText(b, from, to)))
  BY CutIs
<1>2. LineOf(b) = b.lines[b.row] /\ b.row \in 1..Len(b.lines)
  BY BufferParts
<1>3. Took(b, Changed(b, [b.lines EXCEPT ![b.row] = Without(b.lines[b.row], from, to)], b.row, from,
                      Killed(b, <<Part(b.lines[b.row], from, to)>>)))
  BY <1>2, LineTook
<1>4. Took(b, c)
  BY <1>2, <1>3 DEF CutLines, CutText, Relined
<1> HIDE DEF d
<1>5. Move(d, b.row, from) = c
  BY <1>1, MoveChanged
<1>6. b.col = from => d = c
  BY <1>1
<1> HIDE DEF c
<1>7. Took(b, Move(d, b.row, from)) /\ (b.col = from => Took(b, d))
  BY <1>4, <1>5, <1>6
<1> QED
  BY <1>7 DEF d

\* The kills and changes within a line.
LEMMA LineKills ==
  ASSUME NEW b \in EdBuffers
  PROVE  /\ Good(b, DeleteToEndOfLine(b)) /\ Good(b, KillToStart(b)) /\ Good(b, DeleteChar(b))
         /\ Good(b, DeleteWordForward(b)) /\ Good(b, ChangeWord(b))
         /\ Took(b, DeleteToEndOfLine(b)) /\ Took(b, DeleteWordForward(b)) /\ Took(b, ChangeWord(b))
         /\ Took(b, KillToStart(b))
<1> DEFINE line == LineOf(b)
           col == b.col
<1>1. line \in EdLine /\ Len(line) \in Nat /\ col \in Nat
  BY BufferParts
<1>2. Good(b, b)
  BY SameGood
<1>3. Took(b, b)
  BY DEF Took
<1> DEFINE mid == EndOfSpace(line, col)
           end == EndOfWord(line, col)
           word == EndOfWord(line, mid)
           last == IF col <= Len(line) THEN Len(line) ELSE col
<1>4. mid \in col..last /\ end \in col..last /\ word \in col..last
  BY <1>1, WordIs
<1>5. last \in Nat /\ Len(line) \in Nat
  BY <1>1
<1> HIDE DEF line, last, mid, end, word
<1>6. mid \in Nat /\ end \in Nat /\ word \in Nat /\ col <= mid /\ col <= end /\ col <= word
  BY <1>1, <1>4, <1>5
<1>7. ASSUME NEW to \in Nat PROVE Good(b, Cut(b, col, to, TRUE))
  BY <1>1, <1>7, CutGood
<1>8. ASSUME NEW to \in Nat, col <= to, ~AtEnd(b) PROVE Took(b, Cut(b, col, to, TRUE))
  <2>1. col <= Len(line)
    BY <1>1, <1>8 DEF AtEnd, line
  <2> QED
    BY <1>1, <1>8, <2>1, CutTook DEF line
<1>9. Good(b, DeleteToEndOfLine(b)) /\ Took(b, DeleteToEndOfLine(b))
  <2>1. CASE AtEnd(b)
    BY <1>2, <1>3, <2>1 DEF DeleteToEndOfLine
  <2>2. CASE ~AtEnd(b)
    <3>1. col <= Len(line)
      BY <1>1, <2>2 DEF AtEnd, line
    <3>2. Good(b, Cut(b, col, Len(line), TRUE)) /\ Took(b, Cut(b, col, Len(line), TRUE))
      BY <1>1, <1>7, <1>8, <2>2, <3>1
    <3> QED
      BY <2>2, <3>2 DEF DeleteToEndOfLine, line
  <2> QED
    BY <2>1, <2>2
<1>10. Good(b, DeleteWordForward(b)) /\ Took(b, DeleteWordForward(b))
  <2>1. CASE AtEnd(b)
    BY <1>2, <1>3, <2>1 DEF DeleteWordForward
  <2>2. CASE ~AtEnd(b)
    <3>1. Good(b, Cut(b, col, word, TRUE)) /\ Took(b, Cut(b, col, word, TRUE))
      BY <1>6, <1>7, <1>8, <2>2
    <3> QED
      BY <2>2, <3>1 DEF DeleteWordForward, line, word, mid
  <2> QED
    BY <2>1, <2>2
<1>11. Good(b, ChangeWord(b)) /\ Took(b, ChangeWord(b))
  <2>1. CASE AtEnd(b)
    BY <1>2, <1>3, <2>1 DEF ChangeWord
  <2>2. CASE ~AtEnd(b)
    <3> DEFINE to == IF Char(line, col) \in Space THEN mid ELSE end
    <3>0. to \in Nat /\ col <= to
      BY <1>6
    <3> HIDE DEF to
    <3>1. Good(b, Cut(b, col, to, TRUE)) /\ Took(b, Cut(b, col, to, TRUE))
      BY <1>7, <1>8, <2>2, <3>0
    <3> QED
      BY <2>2, <3>1 DEF ChangeWord, line, end, mid, to
  <2> QED
    BY <2>1, <2>2
<1>12. Good(b, DeleteChar(b))
  <2>1. col + 1 \in Nat
    BY <1>1
  <2>2. Good(b, Cut(b, col, col + 1, FALSE))
    BY <1>1, <2>1, CutGood
  <2> QED
    BY <1>2, <2>2 DEF DeleteChar
<1>13. Good(b, KillToStart(b))
  <2>1. Good(b, Home(Cut(b, 0, col, TRUE)))
    BY <1>1, CutGood
  <2> QED
    BY <1>2, <2>1 DEF KillToStart
<1>14. Took(b, KillToStart(b))
  <2>1. 0 \in Nat /\ 0 <= col /\ 0 <= Len(line)
    BY <1>1
  <2>2. Took(b, Move(Cut(b, 0, col, TRUE), b.row, 0))
    BY <1>1, <2>1, CutTook DEF line
  <2> DEFINE d == Cut(b, 0, col, TRUE)
  <2>3. d = Changed(b, CutLines(b, 0, col), b.row, b.col, Killed(b, CutText(b, 0, col)))
    BY <1>1, <2>1, CutIs
  <2>4. Took(b, Move(d, b.row, 0))
    BY <2>2
  <2> HIDE DEF d
  <2>5. d.row = b.row
    BY <2>3, ChangedParts
  <2>6. Took(b, Home(d))
    BY <2>4, <2>5 DEF Home
  <2>7. Took(b, Home(Cut(b, 0, col, TRUE)))
    BY <2>6 DEF d
  <2> QED
    BY <1>3, <2>7 DEF KillToStart
<1> QED
  BY <1>9, <1>10, <1>11, <1>12, <1>13, <1>14

\* backspace, within a line and at its start.
LEMMA BackspaceGood ==
  ASSUME NEW b \in EdBuffers
  PROVE  Good(b, Backspace(b))
<1>1. /\ b.row \in 1..Len(b.lines) /\ b.row \in Nat /\ Len(b.lines) \in Nat /\ b.col \in Nat
      /\ LineOf(b) \in EdLine
  BY BufferParts
<1>2. CASE b.col > 0
  <2>1. b.col - 1 \in Nat
    BY <1>1, <1>2
  <2>2. Without(LineOf(b), b.col - 1, b.col) \in EdLine
    BY <1>1, <2>1, PartTypes
  <2>3. Good(b, Move(SetLine(PushUndo(b), Without(LineOf(b), b.col - 1, b.col)), b.row, b.col - 1))
    BY <2>1, <2>2, SetMoveGood
  <2> QED
    BY <1>2, <2>3 DEF Backspace
<1>3. CASE ~(b.col > 0) /\ b.row = 1
  BY <1>3, SameGood DEF Backspace
<1>4. CASE ~(b.col > 0) /\ b.row # 1
  <2> DEFINE previous == b.lines[b.row - 1]
             at == b.row - 1
             new == <<previous \o LineOf(b)>>
  <2>1. at \in 1..Len(b.lines) /\ at \in 1..Len(b.lines) + 1 /\ at + 2 <= Len(b.lines) + 1 /\ 2 \in Nat
    BY <1>1, <1>4
  <2>2. previous \in EdLine /\ Len(previous) \in Nat
    BY <2>1, LineIs
  <2>3. previous \o LineOf(b) \in EdLine
    BY <1>1, <2>2, ConcatLine
  <2>4. new \in Seq(EdLine) /\ Len(new) = 1
    BY <2>3
  <2> HIDE DEF new, previous
  <2>5. at \in 1..Len(b.lines) - 2 + Len(new)
    BY <1>1, <1>4, <2>4
  <2> HIDE DEF at
  <2>6. Good(b, Move(Splice(PushUndo(b), at, 2, new), at, Len(previous)))
    BY <2>1, <2>2, <2>4, <2>5, SpliceMoveGood
  <2> QED
    BY <1>4, <2>6 DEF Backspace, at, new, previous
<1> QED
  BY <1>2, <1>3, <1>4

\* deleteWordBackward, also over the start of the line.
LEMMA DeleteWordBackwardGood ==
  ASSUME NEW b \in EdBuffers
  PROVE  Good(b, DeleteWordBackward(b))
<1> DEFINE tops == {1} \cup {r \in 1..b.row - 1 : b.lines[r] # <<>>}
           top == IF b.col > 0 THEN b.row ELSE Max(tops)
           line == IF top = b.row THEN LineOf(b) ELSE b.lines[top] \o LineOf(b)
           col == IF top = b.row THEN b.col ELSE Len(b.lines[top])
           start == StartOfWord(line, StartOfSpace(line, col))
           count == b.row - top + 1
           new == <<Without(line, start, col)>>
<1>1. /\ b.row \in 1..Len(b.lines) /\ b.row \in Nat /\ Len(b.lines) \in Nat /\ b.col \in Nat
      /\ LineOf(b) \in EdLine
  BY BufferParts
<1>2. top \in 1..b.row
  <2>1. tops \subseteq 0..b.row /\ tops # {} /\ \A x \in tops : x \in 1..b.row
    BY <1>1
  <2> HIDE DEF tops
  <2>2. Max(tops) \in tops
    BY <1>1, <2>1, MaxIs
  <2>3. Max(tops) \in 1..b.row
    BY <2>1, <2>2
  <2> QED
    BY <1>1, <2>3
<1> HIDE DEF top
<1>3. top \in 1..Len(b.lines)
  BY <1>1, <1>2
<1>4. b.lines[top] \in EdLine /\ Len(b.lines[top]) \in Nat
  BY <1>3, LineIs
<1>5. line \in EdLine /\ col \in Nat
  BY <1>1, <1>4, ConcatLine
<1> HIDE DEF line, col
<1>6. start \in 0..col
  BY <1>5, WordIs
<1>7. start \in Nat
  BY <1>5, <1>6
<1> HIDE DEF start
<1>8. Without(line, start, col) \in EdLine
  BY <1>5, <1>7, PartTypes
<1>9. new \in Seq(EdLine) /\ Len(new) = 1
  BY <1>8
<1>10. count \in Nat /\ top \in 1..Len(b.lines) + 1 /\ top + count <= Len(b.lines) + 1
       /\ top \in 1..Len(b.lines) - count + 1
  BY <1>1, <1>2
<1> HIDE DEF new, count
<1>11. top \in 1..Len(b.lines) - count + Len(new)
  BY <1>9, <1>10
<1>12. Good(b, Move(Splice(PushUndo(b), top, count, new), top, start))
  BY <1>7, <1>9, <1>10, <1>11, SpliceMoveGood
<1>13. CASE b.row = 1 /\ b.col = 0
  BY <1>13, SameGood DEF DeleteWordBackward
<1>14. CASE ~(b.row = 1 /\ b.col = 0)
  BY <1>12, <1>14 DEF DeleteWordBackward, top, line, col, start, count, new
<1> QED
  BY <1>13, <1>14

\* replaceChar, toggleCase and the three of transformWord.
LEMMA ReplaceGood ==
  ASSUME NEW b \in EdBuffers, NEW char \in Grapheme
  PROVE  /\ Good(b, ReplaceChar(b, char))
         /\ ~AtEnd(b) => Good(b, Move(ReplaceChar(b, char), b.row, b.col + 1))
<1>1. LineOf(b) \in EdLine /\ Len(LineOf(b)) \in Nat /\ b.col \in Nat
  BY BufferParts
<1>2. CASE AtEnd(b)
  BY <1>2, SameGood DEF ReplaceChar
<1>3. CASE ~AtEnd(b)
  <2> DEFINE line == [LineOf(b) EXCEPT ![b.col + 1] = char]
  <2>1. b.col + 1 \in 1..Len(LineOf(b)) /\ b.col + 1 \in Nat
    BY <1>1, <1>3 DEF AtEnd
  <2>2. line \in EdLine
    BY <1>1, <2>1, ExceptSeq DEF EdLine
  <2>3. ReplaceChar(b, char) = SetLine(PushUndo(b), line)
    BY <1>3 DEF ReplaceChar
  <2> HIDE DEF line
  <2> QED
    BY <1>1, <2>1, <2>2, <2>3, SetMoveGood
<1> QED
  BY <1>2, <1>3

LEMMA ToggleCaseGood ==
  ASSUME NEW b \in EdBuffers
  PROVE  Good(b, ToggleCase(b))
<1>1. LineOf(b) \in EdLine /\ Len(LineOf(b)) \in Nat /\ b.col \in Nat
  BY BufferParts
<1>2. CASE AtEnd(b)
  BY <1>2, SameGood DEF ToggleCase
<1>3. CASE ~AtEnd(b)
  <2>1. b.col \in 0..Len(LineOf(b)) - 1 /\ b.col + 1 \in 1..Len(LineOf(b))
    BY <1>1, <1>3 DEF AtEnd
  <2>2. LineOf(b)[b.col + 1] \in Grapheme
    BY <1>1, <2>1, ElementOfSeq DEF EdLine
  <2>3. Char(LineOf(b), b.col) \in Grapheme
    BY <2>1, <2>2 DEF Char
  <2>4. Toggled(Char(LineOf(b), b.col)) \in Grapheme
    BY <2>3 DEF Toggled, Grapheme
  <2> DEFINE char == Toggled(Char(LineOf(b), b.col))
  <2> HIDE DEF char
  <2>5. Good(b, Move(ReplaceChar(b, char), b.row, b.col + 1))
    BY <1>3, <2>4, ReplaceGood DEF char
  <2> QED
    BY <1>3, <2>5 DEF ToggleCase, char
<1> QED
  BY <1>2, <1>3

LEMMA TransformWordGood ==
  ASSUME NEW b \in EdBuffers, NEW style
  PROVE  Good(b, TransformWord(b, style))
<1> DEFINE line == LineOf(b)
           from == EndOfSpace(line, b.col)
           to == EndOfWord(line, from)
           new(i) == IF i \notin from + 1..to THEN line[i]
                     ELSE IF style = "upcase" \/ (style = "capitalize" /\ i = from + 1)
                          THEN Upper(line[i]) ELSE Lower(line[i])
           turned == [i \in DOMAIN line |-> new(i)]
<1>1. line \in EdLine /\ Len(line) \in Nat /\ b.col \in Nat
  BY BufferParts
<1>2. to \in Nat
  <2> DEFINE last == IF b.col <= Len(line) THEN Len(line) ELSE b.col
  <2>1. to \in b.col..last
    BY <1>1, WordIs
  <2>2. last \in Nat
    BY <1>1
  <2> HIDE DEF to, last
  <2> QED
    BY <1>1, <2>1, <2>2
<1> HIDE DEF line, from, to
<1>3. DOMAIN line = 1..Len(line) /\ \A i \in DOMAIN line : line[i] \in Grapheme
  BY <1>1, LenProperties, ElementOfSeq DEF EdLine
<1>4. \A c \in Grapheme : Upper(c) \in Grapheme /\ Lower(c) \in Grapheme
  BY DEF Upper, Lower, Grapheme
<1>5. \A i \in DOMAIN line : new(i) \in Grapheme
  BY <1>3, <1>4
<1> HIDE DEF new
<1>6. turned \in [1..Len(line) -> Grapheme]
  BY <1>3, <1>5
<1>7. turned \in EdLine
  BY <1>1, <1>6 DEF EdLine
<1> HIDE DEF turned
<1>8. Good(b, Move(SetLine(PushUndo(b), turned), b.row, to))
  BY <1>2, <1>7, SetMoveGood
<1>9. TransformWord(b, style) = IF from >= Len(line) THEN b ELSE Move(SetLine(PushUndo(b), turned), b.row, to)
  BY DEF TransformWord, line, from, to, new, turned
<1> QED
  BY <1>8, <1>9, SameGood

\* What was killed last.
LEMMA LastKill ==
  ASSUME NEW b \in EdBuffers, b.kills # <<>>
  PROVE  Last(b.kills) \in EditorText
<1>1. b.kills \in Seq(EditorText)
  BY BufferParts
<1>2. Len(b.kills) \in Nat /\ Len(b.kills) # 0
  BY <1>1, LenProperties, EmptySeq
<1>3. b.kills[Len(b.kills)] \in EditorText
  BY <1>1, <1>2, ElementOfSeq
<1> QED
  BY <1>3 DEF Last

\* yank, the two pastes and the two that open a line.
LEMMA PutGood ==
  ASSUME NEW b \in EdBuffers, NEW row \in {b.row, b.row + 1}
  PROVE  Good(b, Yank(b)) /\ Good(b, Paste(b, row)) /\ Good(b, OpenLine(b, row))
<1>1. b.row \in 1..Len(b.lines) /\ b.row \in Nat /\ Len(b.lines) \in Nat
  BY BufferParts
<1>2. row \in 1..Len(b.lines) + 1 /\ row + 0 <= Len(b.lines) + 1 /\ 0 \in Nat
  BY <1>1
<1>3. ASSUME NEW text \in EditorText PROVE Good(b, Move(Splice(PushUndo(b), row, 0, text), row, 0))
  <2>1. text \in Seq(EdLine) /\ Len(text) \in Nat \ {0}
    BY TextIs
  <2>2. row \in 1..Len(b.lines) - 0 + Len(text)
    BY <1>1, <1>2, <2>1
  <2> QED
    BY <1>2, <2>1, <2>2, SpliceMoveGood
<1>4. Good(b, OpenLine(b, row))
  BY <1>3, TextIs DEF OpenLine
<1>5. CASE b.kills = <<>>
  BY <1>4, <1>5, SameGood DEF Yank, Paste
<1>6. CASE b.kills # <<>>
  <2>1. Last(b.kills) \in EditorText
    BY <1>6, LastKill
  <2>2. Good(b, Yank(b))
    BY <1>6, <2>1, InsertTextIs DEF Yank
  <2>3. Good(b, Paste(b, row))
    BY <1>3, <1>6, <2>1, SameGood DEF Paste
  <2> QED
    BY <1>4, <2>2, <2>3
<1> QED
  BY <1>5, <1>6

\* joinLines and applyCompletion.
LEMMA JoinLinesGood ==
  ASSUME NEW b \in EdBuffers
  PROVE  Good(b, JoinLines(b))
<1>1. /\ b.row \in 1..Len(b.lines) /\ b.row \in Nat /\ Len(b.lines) \in Nat
      /\ LineOf(b) \in EdLine /\ Len(LineOf(b)) \in Nat
  BY BufferParts
<1>2. CASE b.row = Len(b.lines)
  BY <1>2, SameGood DEF JoinLines
<1>3. CASE b.row # Len(b.lines)
  <2> DEFINE next == b.lines[b.row + 1]
             stripped == Beyond(next, EndOfSpace(next, 0))
             glue == IF stripped = <<>> \/ (LineOf(b) # <<>> /\ Last(LineOf(b)) \in Space)
                     THEN <<>> ELSE <<" ">>
             new == <<LineOf(b) \o glue \o stripped>>
  <2>1. b.row + 1 \in 1..Len(b.lines)
    BY <1>1, <1>3
  <2>2. next \in EdLine /\ Len(next) \in Nat
    BY <2>1, LineIs
  <2> HIDE DEF next
  <2>3. EndOfSpace(next, 0) \in Nat
    <3>1. 0 \in Nat
      OBVIOUS
    <3>2. EndOfSpace(next, 0) \in 0..(IF 0 <= Len(next) THEN Len(next) ELSE 0)
      BY <2>2, <3>1, EndIs
    <3> QED
      BY <2>2, <3>2
  <2>4. stripped \in EdLine
    BY <2>2, <2>3, PartTypes
  <2> HIDE DEF stripped
  <2>5. glue \in EdLine
    <3>1. <<>> \in EdLine /\ <<" ">> \in EdLine
      BY DEF EdLine, Grapheme
    <3> QED
      BY <3>1
  <2> HIDE DEF glue
  <2>6. LineOf(b) \o glue \o stripped \in EdLine
    <3>1. LineOf(b) \o glue \in EdLine
      BY <1>1, <2>5, ConcatLine
    <3> QED
      BY <2>4, <3>1, ConcatLine
  <2>7. new \in Seq(EdLine) /\ Len(new) = 1
    BY <2>6
  <2> HIDE DEF new
  <2>8. b.row \in 1..Len(b.lines) + 1 /\ 2 \in Nat /\ b.row + 2 <= Len(b.lines) + 1
        /\ b.row \in 1..Len(b.lines) - 2 + Len(new)
    BY <1>1, <1>3, <2>7
  <2>9. Good(b, Move(Splice(PushUndo(b), b.row, 2, new), b.row, Len(LineOf(b))))
    BY <1>1, <2>7, <2>8, SpliceMoveGood
  <2> QED
    BY <1>3, <2>9 DEF JoinLines, new, glue, stripped, next
<1> QED
  BY <1>2, <1>3

LEMMA ApplyCompletionGood ==
  ASSUME NEW b \in EdBuffers, NEW text \in EditorText
  PROVE  Good(b, ApplyCompletion(b, text))
<1> DEFINE start == StartOfWord(LineOf(b), Min({b.col, Len(LineOf(b))}))
           line == Without(LineOf(b), start, b.col)
<1>1. LineOf(b) \in EdLine /\ Len(LineOf(b)) \in Nat /\ b.col \in Nat
  BY BufferParts
<1>2. start \in Nat
  <2>1. Min({b.col, Len(LineOf(b))}) \in Nat
    BY <1>1, MinOfTwo
  <2>2. start \in 0..Min({b.col, Len(LineOf(b))})
    BY <2>1, StartIs
  <2> QED
    BY <2>1, <2>2
<1> HIDE DEF start
<1>3. line \in EdLine
  BY <1>1, <1>2, PartTypes
<1> HIDE DEF line
<1>4. /\ SetLine(PushUndo(b), line) = Changed(b, Relined(b, line), b.row, b.col, b.kills)
      /\ Relined(b, line) \in EditorText /\ b.row \in 1..Len(Relined(b, line))
  BY <1>3, SetRecorded
<1>5. Move(SetLine(PushUndo(b), line), b.row, start) = Changed(b, Relined(b, line), b.row, start, b.kills)
  BY <1>4, MoveChanged
<1>6. Good(b, InsertRaw(Changed(b, Relined(b, line), b.row, start, b.kills), text))
  BY <1>2, <1>4, InsertRawGood
<1> QED
  BY <1>5, <1>6 DEF ApplyCompletion, line, start

\* What is put on the kill ring before a change is recorded.
LEMMA KillFirst ==
  ASSUME NEW b \in EdBuffers, NEW text
  PROVE  /\ PushUndo(PushKill(b, text)) = Changed(b, b.lines, b.row, b.col, Killed(b, text))
         /\ PushKill(PushUndo(b), text) = Changed(b, b.lines, b.row, b.col, Killed(b, text))
<1>1. PushKill(b, text) = Kept(b, b.lines, b.row, b.col, Killed(b, text))
  BY OfBuffers
<1>2. PushUndo(EdBuf(b.lines, b.row, b.col, b.undo, Killed(b, text)))
        = EdBuf(b.lines, b.row, b.col, Latest(b.undo, EdSnap(b.lines, b.row, b.col), UndoLimit), Killed(b, text))
  BY Primitives
<1>3. Snapshot(b) = EdSnap(b.lines, b.row, b.col)
  BY SnapshotIs
<1>4. PushUndo(PushKill(b, text)) = Changed(b, b.lines, b.row, b.col, Killed(b, text))
  BY <1>1, <1>2, <1>3 DEF Kept, Changed, Pushed
<1>5. PushUndo(b) = Changed(b, b.lines, b.row, b.col, b.kills)
  BY OfBuffers
<1> QED
  BY <1>4, <1>5, KillChanged

\* changeLine, yankLine and deleteLine: a line is killed and not put back by one yank.
LEMMA ChangeLineGood ==
  ASSUME NEW b \in EdBuffers
  PROVE  Good(b, ChangeLine(b)) /\ Good(b, YankLine(b))
<1> DEFINE text == <<LineOf(b)>>
           l == Relined(b, <<>>)
<1>1. /\ b.row \in 1..Len(b.lines) /\ b.row \in Nat /\ b.col \in Nat /\ b.kills \in Seq(EditorText)
      /\ LineOf(b) \in EdLine /\ <<>> \in EdLine /\ 0 \in Nat
  BY BufferParts DEF EdLine
<1>2. text \in EditorText
  BY <1>1, TextIs
<1> HIDE DEF text
<1>3. Killed(b, text) \in Seq(EditorText)
  BY <1>2, KilledIs
<1>4. PushKill(b, text) = Kept(b, b.lines, b.row, b.col, Killed(b, text))
  BY OfBuffers
<1>5. Good(b, YankLine(b))
  BY <1>1, <1>3, <1>4, KeptGood DEF YankLine, text
<1>6. l \in EditorText /\ b.row \in 1..Len(l)
  BY <1>1, SetRecorded
<1>7. ASSUME NEW d, NEW k \in Seq(EditorText), PushUndo(d) = Changed(b, b.lines, b.row, b.col, k)
      PROVE  Good(b, Home(SetLine(PushUndo(d), <<>>)))
  <2>1. SetLine(PushUndo(d), <<>>) = Changed(b, l, b.row, b.col, k)
    BY <1>7, OfChanged DEF Relined
  <2> HIDE DEF l
  <2> DEFINE e == SetLine(PushUndo(d), <<>>)
  <2>2. e = Changed(b, l, b.row, b.col, k)
    BY <2>1
  <2> HIDE DEF e
  <2>3. e.row = b.row /\ Move(e, b.row, 0) = Changed(b, l, b.row, 0, k)
    BY <2>2, ChangedParts, MoveChanged
  <2>4. Home(e) = Changed(b, l, b.row, 0, k)
    BY <2>3 DEF Home
  <2>5. Good(b, Home(e))
    BY <1>1, <1>6, <1>7, <2>4, ChangedGood
  <2> QED
    BY <2>5 DEF e
<1>8. Good(b, ChangeLine(b))
  <2>1. CASE LineOf(b) = <<>>
    <3>1. PushUndo(b) = Changed(b, b.lines, b.row, b.col, b.kills)
      BY OfBuffers
    <3>2. Good(b, Home(SetLine(PushUndo(b), <<>>)))
      BY <1>1, <1>7, <3>1
    <3> QED
      BY <2>1, <3>2 DEF ChangeLine
  <2>2. CASE LineOf(b) # <<>>
    <3>1. PushUndo(PushKill(b, text)) = Changed(b, b.lines, b.row, b.col, Killed(b, text))
      BY KillFirst
    <3>2. Good(b, Home(SetLine(PushUndo(PushKill(b, text)), <<>>)))
      BY <1>3, <1>7, <3>1
    <3> QED
      BY <2>2, <3>2 DEF ChangeLine, text
  <2> QED
    BY <2>1, <2>2
<1> QED
  BY <1>5, <1>8

LEMMA DeleteLineGood ==
  ASSUME NEW b \in EdBuffers
  PROVE  Good(b, DeleteLine(b))
<1> DEFINE text == <<LineOf(b)>>
           k == Killed(b, text)
           l == Spliced(b.lines, b.row, 1, <<>>)
           rest == Splice(PushKill(PushUndo(b), text), b.row, 1, <<>>)
<1>1. /\ b.row \in 1..Len(b.lines) /\ b.row \in Nat /\ b.col \in Nat /\ Len(b.lines) \in Nat
      /\ LineOf(b) \in EdLine /\ b.lines \in EditorText /\ 0 \in Nat /\ 1 \in Nat
  BY BufferParts
<1>2. k \in Seq(EditorText)
  BY <1>1, TextIs, KilledIs
<1>3. rest = Changed(b, l, b.row, b.col, k)
  <2>1. PushKill(PushUndo(b), text) = Changed(b, b.lines, b.row, b.col, k)
    BY KillFirst
  <2> HIDE DEF k, text
  <2> QED
    BY <2>1, OfChanged
<1> HIDE DEF text, k
<1>4. l \in Seq(EdLine) /\ Len(l) = Len(b.lines) - 1
  <2>1. <<>> \in Seq(EdLine) /\ Len(<<>>) = 0
    OBVIOUS
  <2>2. b.row \in 1..Len(b.lines) + 1 /\ b.row + 1 <= Len(b.lines) + 1
    BY <1>1
  <2>3. l \in Seq(EdLine) /\ Len(l) = Len(b.lines) - 1 + Len(<<>>)
    BY <1>1, <2>1, <2>2, SplicedIs
  <2> HIDE DEF l
  <2> QED
    BY <1>1, <2>1, <2>3
<1> HIDE DEF l, rest
<1>5. CASE Len(b.lines) = 1
  <2>1. rest = EdBuf(l, b.row, b.col, Pushed(b), k)
    BY <1>3 DEF Changed
  <2>2. [rest EXCEPT !.lines = NoText] = Changed(b, NoText, b.row, b.col, k)
    BY <2>1 DEF EdBuf, Changed
  <2>3. Move([rest EXCEPT !.lines = NoText], 1, 0) = Changed(b, NoText, 1, 0, k)
    BY <2>2, MoveChanged
  <2>4. NoText \in EditorText /\ 1 \in 1..Len(NoText)
    BY TextIs DEF NoText
  <2>5. Good(b, Changed(b, NoText, 1, 0, k))
    BY <1>1, <1>2, <2>4, ChangedGood
  <2> QED
    BY <1>5, <2>3, <2>5 DEF DeleteLine, rest, text
<1>6. CASE Len(b.lines) # 1
  <2> DEFINE row == Min({b.row, Len(l)})
  <2>1. Len(l) \in Nat /\ Len(l) # 0
    BY <1>1, <1>4, <1>6
  <2>2. row \in 1..Len(l)
    BY <1>1, <2>1, MinOfTwo
  <2>3. l \in EditorText
    BY <1>4, <2>1, TextIs
  <2>4. rest.lines = l /\ Move(rest, row, 0) = Changed(b, l, row, 0, k)
    BY <1>3, ChangedParts, MoveChanged
  <2> HIDE DEF row
  <2>5. Good(b, Changed(b, l, row, 0, k))
    BY <1>1, <1>2, <2>2, <2>3, ChangedGood
  <2> QED
    BY <1>6, <2>4, <2>5 DEF DeleteLine, rest, text, row
<1> QED
  BY <1>5, <1>6

\* Joining texts is associative.
LEMMA ThreeLines ==
  \A s, t, u \in Seq(EdLine) : (s \o t) \o u = s \o (t \o u)
<1> SUFFICES ASSUME NEW s \in Seq(EdLine), NEW t \in Seq(EdLine), NEW u \in Seq(EdLine)
             PROVE  (s \o t) \o u = s \o (t \o u)
  OBVIOUS
<1> QED
  BY ConcatAssociative

\* Lines that were made one, put back in its place.
LEMMA SplicedBack ==
  ASSUME NEW l \in EditorText, NEW at \in 1..Len(l), NEW n \in Nat, at + n <= Len(l) + 1,
         NEW one \in EdLine
  PROVE  LET m == Spliced(l, at, n, <<one>>) IN
         /\ m \in EditorText /\ at \in 1..Len(m) /\ m[at] = one
         /\ Spliced(m, at, 1, SubSeq(l, at, at + n - 1)) = l
<1> DEFINE m == Spliced(l, at, n, <<one>>)
           x == SubSeq(l, 1, at - 1)
           y == SubSeq(l, at + n, Len(l))
           o == <<one>>
           xo == x \o o
<1>1. l \in Seq(EdLine) /\ Len(l) \in Nat /\ o \in Seq(EdLine) /\ Len(o) = 1 /\ o[1] = one
  BY TextIs
<1>2. x \in Seq(EdLine) /\ Len(x) = at - 1
  <2>1. at - 1 \in Nat /\ 0 \in Nat /\ at - 1 <= Len(l)
    BY <1>1
  <2>2. SubSeq(l, 0 + 1, at - 1) \in Seq(EdLine)
        /\ Len(SubSeq(l, 0 + 1, at - 1)) = IF 0 <= at - 1 THEN at - 1 - 0 ELSE 0
    BY <1>1, <2>1, PartOfSeq
  <2>3. 0 + 1 = 1 /\ (IF 0 <= at - 1 THEN at - 1 - 0 ELSE 0) = at - 1
    BY <2>1
  <2> QED
    BY <2>2, <2>3
<1>3. y \in Seq(EdLine)
  <2>1. at + n - 1 \in Nat
    BY <1>1
  <2>2. SubSeq(l, (at + n - 1) + 1, Len(l)) \in Seq(EdLine)
    BY <1>1, <2>1, PartOfSeq
  <2>3. (at + n - 1) + 1 = at + n
    BY <1>1
  <2> QED
    BY <2>2, <2>3
<1>4. Len(m) = Len(l) - n + 1 /\ m \in Seq(EdLine)
  <2>1. at \in 1..Len(l) + 1
    BY <1>1
  <2> QED
    BY <1>1, <2>1, SplicedIs
<1>5. m = xo \o y
  BY DEF Spliced
<1> HIDE DEF m, x, y, o
<1>6. xo \in Seq(EdLine) /\ Len(xo) = at /\ xo[at] = one
  <2>1. xo \in Seq(EdLine) /\ Len(xo) = Len(x) + Len(o)
        /\ \A i \in 1..Len(x) + Len(o) : xo[i] = IF i <= Len(x) THEN x[i] ELSE o[i - Len(x)]
    BY <1>1, <1>2, ConcatProperties
  <2>2. at \in 1..Len(x) + Len(o) /\ ~(at <= Len(x)) /\ at - Len(x) = 1 /\ Len(x) + Len(o) = at
    BY <1>1, <1>2
  <2> HIDE DEF xo
  <2> QED
    BY <1>1, <2>1, <2>2
<1>7. m \in EditorText /\ at \in 1..Len(m)
  <2>1. at \in 1..Len(m) /\ Len(m) # 0
    BY <1>1, <1>4
  <2> QED
    BY <1>4, <2>1, TextIs
<1>8. m[at] = one
  <2> HIDE DEF xo
  <2>1. \A i \in 1..Len(xo) + Len(y) : m[i] = IF i <= Len(xo) THEN xo[i] ELSE y[i - Len(xo)]
    BY <1>3, <1>5, <1>6, ConcatProperties
  <2>2. at \in 1..Len(xo) + Len(y) /\ at <= Len(xo)
    BY <1>1, <1>3, <1>6, LenProperties
  <2> QED
    BY <1>6, <2>1, <2>2
<1>9. SubSeq(m, 1, at - 1) = x
  <2>a. x \in Seq(EdLine) /\ o \in Seq(EdLine) /\ y \in Seq(EdLine)
    BY <1>1, <1>2, <1>3
  <2>0. (x \o o) \o y = x \o (o \o y)
    BY ONLY <2>a, ThreeLines
  <2>1. m = x \o (o \o y)
    BY <1>5, <2>0
  <2>2. o \o y \in Seq(EdLine)
    BY <1>1, <1>3, ConcatLines
  <2> DEFINE oy == o \o y
  <2> HIDE DEF oy
  <2>3. SubSeq(x \o oy, 1, Len(x)) = x
    BY <1>2, <2>2, SplitJoin DEF oy
  <2> QED
    BY <1>2, <2>1, <2>3 DEF oy
<1>10. SubSeq(m, at + 1, Len(m)) = y
  <2> HIDE DEF xo
  <2>1. SubSeq(xo \o y, Len(xo) + 1, Len(xo \o y)) = y
    BY <1>3, <1>6, SplitJoin
  <2> QED
    BY <1>5, <1>6, <2>1
<1>11. Spliced(m, at, 1, SubSeq(l, at, at + n - 1)) = x \o SubSeq(l, at, at + n - 1) \o y
  BY <1>9, <1>10 DEF Spliced
<1>12. x \o SubSeq(l, at, at + n - 1) \o y = l
  <2> DEFINE p == at - 1
             q == at + n - 1
  <2>1. p \in Nat /\ q \in Nat /\ p <= q /\ q <= Len(l) /\ p + 1 = at /\ q + 1 = at + n
    BY <1>1
  <2>2. x = SubSeq(l, 1, p) /\ y = SubSeq(l, q + 1, Len(l))
    BY <2>1 DEF x, y
  <2> HIDE DEF p
  <2>3. SubSeq(l, at, at + n - 1) = SubSeq(l, p + 1, q)
    BY <2>1
  <2> HIDE DEF q
  <2>4. SubSeq(l, 1, p) \o SubSeq(l, p + 1, q) \o SubSeq(l, q + 1, Len(l)) = l
    BY <1>1, <2>1, InThree
  <2> QED
    BY <2>2, <2>3, <2>4
<1> QED
  BY <1>7, <1>8, <1>11, <1>12 DEF m, o

\* A line in two parts, and the elements of some lines between two.
LEMMA Rejoin ==
  ASSUME NEW line \in EdLine, NEW col \in Nat
  PROVE  Upto(line, col) \o Beyond(line, col) = line
<1> DEFINE k == EndOr(line, col)
<1>1. Len(line) \in Nat
  BY PartIs
<1>2. k \in Nat /\ k <= Len(line)
  BY <1>1 DEF EndOr
<1>3. Upto(line, col) = SubSeq(line, 1, k) /\ Beyond(line, col) = SubSeq(line, k + 1, Len(line))
  BY EndsAre
<1> HIDE DEF k
<1>4. 1 \in 1..Len(line) + 1 /\ k \in 1 - 1..Len(line) /\ Len(line) \in k..Len(line)
  BY <1>1, <1>2
<1>5. SubSeq(line, 1, k) \o SubSeq(line, k + 1, Len(line)) = SubSeq(line, 1, Len(line))
  BY <1>4, ConcatAdjacentSubSeq DEF EdLine
<1>6. SubSeq(line, 1, Len(line)) = line
  BY SubSeqFull DEF EdLine
<1> QED
  BY <1>3, <1>5, <1>6

\* Lines between a first and a last one.
LEMMA AroundIs ==
  ASSUME NEW x \in EdLine, NEW mid \in Seq(EdLine), NEW z \in EdLine
  PROVE  LET all == <<x>> \o mid \o <<z>> IN
         /\ all \in Seq(EdLine) /\ Len(all) = Len(mid) + 2 /\ Len(mid) \in Nat
         /\ all[1] = x /\ all[Len(mid) + 2] = z
         /\ \A i \in 1..Len(mid) : all[i + 1] = mid[i]
<1> DEFINE s == <<x>>
           t == <<z>>
           sm == s \o mid
           all == sm \o t
<1>1. /\ s \in Seq(EdLine) /\ Len(s) = 1 /\ s[1] = x
      /\ t \in Seq(EdLine) /\ Len(t) = 1 /\ t[1] = z /\ Len(mid) \in Nat
  BY LenProperties
<1> HIDE DEF s, t
<1>2. /\ sm \in Seq(EdLine) /\ Len(sm) = 1 + Len(mid)
      /\ \A i \in 1..1 + Len(mid) : sm[i] = IF i <= 1 THEN s[i] ELSE mid[i - 1]
  <2>1. /\ sm \in Seq(EdLine) /\ Len(sm) = Len(s) + Len(mid)
        /\ \A i \in 1..Len(s) + Len(mid) : sm[i] = IF i <= Len(s) THEN s[i] ELSE mid[i - Len(s)]
    BY <1>1, ConcatProperties
  <2> HIDE DEF sm
  <2> QED
    BY <1>1, <2>1
<1> HIDE DEF sm
<1>3. /\ all \in Seq(EdLine) /\ Len(all) = 1 + Len(mid) + 1
      /\ \A i \in 1..1 + Len(mid) + 1 : all[i] = IF i <= 1 + Len(mid) THEN sm[i] ELSE t[i - (1 + Len(mid))]
  <2>1. /\ all \in Seq(EdLine) /\ Len(all) = Len(sm) + Len(t)
        /\ \A i \in 1..Len(sm) + Len(t) : all[i] = IF i <= Len(sm) THEN sm[i] ELSE t[i - Len(sm)]
    BY <1>1, <1>2, ConcatProperties
  <2> HIDE DEF all
  <2> QED
    BY <1>1, <1>2, <2>1
<1> HIDE DEF all
<1>4. all[1] = x
  BY <1>1, <1>2, <1>3
<1>5. all[Len(mid) + 2] = z
  <2>1. Len(mid) + 2 \in 1..1 + Len(mid) + 1 /\ ~(Len(mid) + 2 <= 1 + Len(mid)) /\ Len(mid) + 2 - (1 + Len(mid)) = 1
    BY <1>1
  <2> QED
    BY <1>1, <1>3, <2>1
<1>6. ASSUME NEW i \in 1..Len(mid) PROVE all[i + 1] = mid[i]
  <2>1. i + 1 \in 1..1 + Len(mid) + 1 /\ i + 1 <= 1 + Len(mid) /\ i + 1 \in 1..1 + Len(mid)
        /\ ~(i + 1 <= 1) /\ i + 1 - 1 = i
    BY <1>1
  <2>2. all[i + 1] = sm[i + 1]
    BY <1>3, <2>1
  <2>3. sm[i + 1] = mid[i]
    BY <1>2, <2>1
  <2> QED
    BY <2>2, <2>3
<1>7. Len(all) = Len(mid) + 2
  BY <1>1, <1>3
<1> QED
  BY <1>1, <1>3, <1>4, <1>5, <1>6, <1>7 DEF all, sm, s, t

\* Lines from within one to within another that were taken out, put back.
Middle(l, fr, fc, tr, tc) == Upto(l[fr], fc) \o Beyond(l[tr], tc)
Takes(l, fr, fc, tr, tc, text) ==
  /\ Len(text) = tr - fr + 1
  /\ text[1] = Beyond(l[fr], fc) /\ text[Len(text)] = Upto(l[tr], tc)
  /\ \A i \in 2..Len(text) - 1 : text[i] = l[fr + i - 1]

\* What is taken over several lines, put back where it was, makes the text whole.
LEMMA RowsBack ==
  ASSUME NEW l \in EditorText, NEW fr \in 1..Len(l), NEW tr \in fr + 1..Len(l),
         NEW fc \in Nat, fc <= Len(l[fr]), NEW tc \in Nat,
         NEW text \in EditorText, Takes(l, fr, fc, tr, tc, text)
  PROVE  LET m == Spliced(l, fr, tr - fr + 1, <<Middle(l, fr, fc, tr, tc)>>) IN
         /\ m \in EditorText /\ fr \in 1..Len(m)
         /\ Inserted(m, fr, fc, text) = l
<1> DEFINE one == Middle(l, fr, fc, tr, tc)
           n == tr - fr + 1
           m == Spliced(l, fr, n, <<one>>)
           x == Upto(l[fr], fc) \o text[1]
           mid == SubSeq(text, 2, Len(text) - 1)
           z == text[Len(text)] \o Beyond(l[tr], tc)
           new == <<x>> \o mid \o <<z>>
           old == SubSeq(l, fr, fr + n - 1)
<1>1. /\ Len(l) \in Nat /\ l \in Seq(EdLine) /\ l[fr] \in EdLine /\ l[tr] \in EdLine
      /\ text \in Seq(EdLine) /\ \A i \in 1..Len(l) : l[i] \in EdLine
  BY TextIs
<1>2. n \in Nat /\ n >= 2 /\ Len(text) = n /\ fr + n <= Len(l) + 1 /\ fr + n - 1 = tr /\ fr \in Nat /\ tr \in Nat
  BY <1>1 DEF Takes
<1>3. /\ Upto(l[fr], fc) \in EdLine /\ Beyond(l[fr], fc) \in EdLine
      /\ Upto(l[tr], tc) \in EdLine /\ Beyond(l[tr], tc) \in EdLine
  BY <1>1, PartTypes
<1>4. one \in EdLine
  BY <1>3, ConcatLine DEF Middle
<1>5. Upto(one, fc) = Upto(l[fr], fc) /\ Beyond(one, fc) = Beyond(l[tr], tc)
  BY <1>1, <1>3, Apart DEF Middle
<1> HIDE DEF one, n
<1>6. m \in EditorText /\ fr \in 1..Len(m) /\ m[fr] = one /\ Spliced(m, fr, 1, old) = l
  BY <1>2, <1>4, SplicedBack
<1> HIDE DEF m
<1>7. x = l[fr] /\ z = l[tr]
  BY <1>1, Rejoin DEF Takes
<1>8. /\ mid \in Seq(EdLine) /\ Len(mid) = n - 2
      /\ \A i \in 1..n - 2 : mid[i] = text[i + 1]
  <2>1. \A i \in 2..n - 1 : text[i] \in EdLine
    BY <1>1, <1>2, ElementOfSeq
  <2>2. mid = SubSeq(text, 2, n - 1) /\ n - 1 \in Int /\ 2 \in Int
    BY <1>2
  <2>3. /\ SubSeq(text, 2, n - 1) \in Seq(EdLine)
        /\ Len(SubSeq(text, 2, n - 1)) = IF 2 <= n - 1 THEN (n - 1) - 2 + 1 ELSE 0
        /\ \A i \in 1..(n - 1) - 2 + 1 : SubSeq(text, 2, n - 1)[i] = text[2 + i - 1]
    BY ONLY <2>1, <2>2, SubSeqProperties
  <2>4. /\ (IF 2 <= n - 1 THEN (n - 1) - 2 + 1 ELSE 0) = n - 2 /\ (n - 1) - 2 + 1 = n - 2
        /\ \A i \in 1..n - 2 : 2 + i - 1 = i + 1
    BY <1>2
  <2> HIDE DEF mid
  <2> QED
    BY <2>2, <2>3, <2>4
<1> HIDE DEF mid, x, z
<1>9. /\ new \in Seq(EdLine) /\ Len(new) = n /\ new[1] = l[fr] /\ new[n] = l[tr]
      /\ \A i \in 1..n - 2 : new[i + 1] = text[i + 1]
  <2>1. x \in EdLine /\ z \in EdLine
    BY <1>1, <1>7
  <2>2. /\ new \in Seq(EdLine) /\ Len(new) = Len(mid) + 2
        /\ new[1] = x /\ new[Len(mid) + 2] = z
        /\ \A i \in 1..Len(mid) : new[i + 1] = mid[i]
    BY <1>8, <2>1, AroundIs
  <2>3. Len(mid) + 2 = n
    BY <1>2, <1>8
  <2> HIDE DEF new
  <2> QED
    BY <1>7, <1>8, <2>2, <2>3
<1> HIDE DEF new
<1>10. /\ old \in Seq(EdLine) /\ Len(old) = n
       /\ \A i \in 1..n : old[i] = l[fr + i - 1]
  <2>1. \A i \in fr..tr : l[i] \in EdLine
    BY <1>1
  <2>2. /\ old \in Seq(EdLine) /\ Len(old) = IF fr <= tr THEN tr - fr + 1 ELSE 0
        /\ \A i \in 1..tr - fr + 1 : old[i] = l[fr + i - 1]
    BY <1>2, <2>1, SubSeqProperties
  <2>3. tr - fr + 1 = n /\ fr <= tr
    BY DEF n
  <2> HIDE DEF old
  <2> QED
    BY <2>2, <2>3
<1> HIDE DEF old
<1>11. \A i \in 1..Len(new) : new[i] = old[i]
  <2> SUFFICES ASSUME NEW i \in 1..n PROVE new[i] = old[i]
    BY <1>9
  <2>1. CASE i = 1
    <3>1. fr + 1 - 1 = fr /\ 1 \in 1..n
      BY <1>2
    <3> QED
      BY <1>9, <1>10, <2>1, <3>1
  <2>2. CASE i = n
    <3>1. fr + n - 1 = tr /\ n \in 1..n
      BY <1>2
    <3> QED
      BY <1>9, <1>10, <2>2, <3>1
  <2>3. CASE i # 1 /\ i # n
    <3>1. i - 1 \in 1..n - 2 /\ i - 1 + 1 = i /\ i \in 2..Len(text) - 1
      BY <1>2, <2>3
    <3>2. new[i] = text[i]
      BY <1>9, <3>1
    <3>3. text[i] = l[fr + i - 1]
      BY <3>1 DEF Takes
    <3> QED
      BY <1>10, <3>2, <3>3
  <2> QED
    BY <2>1, <2>2, <2>3
<1>12. new = old
  BY <1>9, <1>10, <1>11, SeqEqual
<1>13. Inserted(m, fr, fc, text) = Spliced(m, fr, 1, new)
  <2>1. Len(text) # 1 /\ Head(text) = text[1] /\ Last(text) = text[Len(text)]
    BY <1>1, <1>2, HeadTailProperties DEF Last
  <2>2. Inserted(m, fr, fc, text)
          = Spliced(m, fr, 1, <<Upto(m[fr], fc) \o Head(text)>> \o SubSeq(text, 2, Len(text) - 1)
                                \o <<Last(text) \o Beyond(m[fr], fc)>>)
    BY <2>1 DEF Inserted
  <2> QED
    BY <1>5, <1>6, <2>1, <2>2 DEF new, x, mid, z
<1> QED
  BY <1>6, <1>12, <1>13 DEF m, one, n

\* Lines replaced by one, also when fewer are there.
LEMMA MergeGood ==
  ASSUME NEW b \in EdBuffers, NEW at \in 1..Len(b.lines), NEW count \in Nat, NEW one \in EdLine,
         NEW k \in Seq(EditorText), NEW col \in Nat
  PROVE  Good(b, Changed(b, Spliced(b.lines, at, count, <<one>>), at, col, k))
<1> DEFINE l == b.lines
           n == IF at + count <= Len(l) + 1 THEN count ELSE Len(l) + 1 - at
<1>1. l \in EditorText /\ Len(l) \in Nat /\ at \in Nat
  BY BufferParts
<1>2. n \in Nat /\ at + n <= Len(l) + 1
  BY <1>1
<1>3. Spliced(l, at, count, <<one>>) = Spliced(l, at, n, <<one>>)
  <2>1. CASE at + count <= Len(l) + 1
    BY <2>1
  <2>2. CASE ~(at + count <= Len(l) + 1)
    <3>1. at + n = Len(l) + 1 /\ at + count > Len(l)
      BY <1>1, <2>2
    <3>2. \A j \in Int : j > Len(l) => SubSeq(l, j, Len(l)) = <<>>
      BY <1>1, SubSeqEmpty
    <3>3. at + n \in Int /\ at + count \in Int /\ at + n > Len(l)
      BY <1>1, <1>2, <3>1
    <3>4. SubSeq(l, at + n, Len(l)) = <<>>
      BY <3>2, <3>3
    <3>5. SubSeq(l, at + count, Len(l)) = <<>>
      BY <3>1, <3>2, <3>3
    <3> QED
      BY <3>4, <3>5 DEF Spliced
  <2> QED
    BY <2>1, <2>2
<1> HIDE DEF n
<1>4. Spliced(l, at, n, <<one>>) \in EditorText /\ at \in 1..Len(Spliced(l, at, n, <<one>>))
  BY <1>1, <1>2, SplicedBack
<1> QED
  BY <1>3, <1>4, ChangedGood

\* killLine joins the next line on when it is at the end of one: it kills a line break.
LEMMA KillLineIs ==
  ASSUME NEW b \in EdBuffers
  PROVE  Good(b, KillLine(b)) /\ (CursorInside(b) => Took(b, KillLine(b)))
<1> DEFINE l == b.lines
           r == b.row
           line == LineOf(b)
           next == l[r + 1]
           m == Spliced(l, r, 2, <<line \o next>>)
           c == Changed(b, m, r, b.col, Killed(b, NewLine))
<1>1. /\ r \in 1..Len(l) /\ r \in Nat /\ b.col \in Nat /\ Len(l) \in Nat /\ l \in EditorText
      /\ line \in EdLine /\ line = l[r] /\ Len(line) \in Nat
  BY BufferParts
<1>2. CASE ~AtEnd(b)
  BY <1>2, LineKills DEF KillLine
<1>3. CASE AtEnd(b) /\ r = Len(l)
  BY <1>3, SameGood DEF KillLine, Took
<1>4. CASE AtEnd(b) /\ r # Len(l)
  <2>1. r + 1 \in 1..Len(l) /\ r + 1 \in r + 1..Len(l)
    BY <1>1, <1>4
  <2>2. next \in EdLine
    BY <2>1, LineIs
  <2>3. line \o next \in EdLine
    BY <1>1, <2>2, ConcatLine
  <2>4. KillLine(b) = c
    <3>1. Splice(PushUndo(b), r, 2, <<line \o next>>) = Changed(b, m, r, b.col, b.kills)
      BY SpliceRecorded
    <3>2. PushKill(Splice(PushUndo(b), r, 2, <<line \o next>>), NewLine) = c
      BY <3>1, KillChanged
    <3> QED
      BY <1>4, <3>2 DEF KillLine
  <2>5. NewLine \in EditorText /\ Killed(b, NewLine) \in Seq(EditorText)
    BY TextIs, KilledIs
  <2>6. Good(b, c)
    <3>1. 2 \in Nat
      OBVIOUS
    <3> HIDE DEF r
    <3> QED
      BY <1>1, <2>3, <2>5, <3>1, MergeGood DEF r
  <2>7. ASSUME CursorInside(b) PROVE Yank(c).lines = l
    <3> DEFINE col == b.col
    <3>1. col = Len(line)
      BY <1>1, <1>4, <2>7 DEF AtEnd, CursorInside
    <3> HIDE DEF line, next
    <3>2. Upto(line, col) = line /\ Beyond(line, col) = <<>>
      <4>1. EndOr(line, col) = Len(line) /\ col \in Nat
        BY <1>1, <3>1 DEF EndOr
      <4> HIDE DEF col
      <4>2. Upto(line, col) = SubSeq(line, 1, Len(line))
            /\ Beyond(line, col) = SubSeq(line, Len(line) + 1, Len(line))
        BY <1>1, <4>1, EndsAre
      <4>3. SubSeq(line, 1, Len(line)) = line
        BY <1>1, SubSeqFull DEF EdLine
      <4>4. SubSeq(line, Len(line) + 1, Len(line)) = <<>>
        BY <1>1, SubSeqEmpty
      <4> QED
        BY <4>2, <4>3, <4>4
    <3>3. Upto(next, 0) = <<>> /\ Beyond(next, 0) = next
      <4>0. 0 \in Nat /\ Len(next) \in Nat
        BY <2>2, PartTypes
      <4>1. EndOr(next, 0) = 0
        BY <4>0 DEF EndOr
      <4>2. Upto(next, 0) = SubSeq(next, 1, 0) /\ Beyond(next, 0) = SubSeq(next, 0 + 1, Len(next))
        BY <2>2, <4>0, <4>1, EndsAre
      <4>3. SubSeq(next, 1, 0) = <<>>
        BY SubSeqEmpty
      <4>4. SubSeq(next, 1, Len(next)) = next
        BY <2>2, SubSeqFull DEF EdLine
      <4> QED
        BY <4>2, <4>3, <4>4
    <3>4. Middle(l, r, col, r + 1, 0) = line \o next
      BY <1>1, <3>2, <3>3 DEF Middle, next
    <3>5. Len(NewLine) = 2 /\ NewLine[1] = <<>> /\ NewLine[2] = <<>>
      BY DEF NewLine
    <3>6. Takes(l, r, col, r + 1, 0, NewLine)
      <4>1. (r + 1) - r + 1 = 2 /\ 2..2 - 1 = {}
        BY <1>1
      <4>2. Beyond(l[r], col) = <<>> /\ Upto(l[r + 1], 0) = <<>>
        BY <1>1, <3>2, <3>3 DEF next
      <4>3. NewLine[1] = Beyond(l[r], col) /\ NewLine[Len(NewLine)] = Upto(l[r + 1], 0)
        BY <3>5, <4>2
      <4>4. \A i \in 2..Len(NewLine) - 1 : NewLine[i] = l[r + i - 1]
        BY <3>5, <4>1
      <4>5. Len(NewLine) = (r + 1) - r + 1
        BY <3>5, <4>1
      <4> HIDE DEF l, r, col
      <4> QED
        BY ONLY <4>3, <4>4, <4>5 DEF Takes
    <3>7. m = Spliced(l, r, (r + 1) - r + 1, <<Middle(l, r, col, r + 1, 0)>>)
      <4>1. (r + 1) - r + 1 = 2
        BY <1>1
      <4> QED
        BY <3>4, <4>1
    <3>8. m \in EditorText /\ r \in 1..Len(m) /\ Inserted(m, r, col, NewLine) = l
      <4>1. col <= Len(l[r]) /\ col \in Nat /\ 0 \in Nat
        BY <1>1, <3>1
      <4> HIDE DEF m, col, l, r
      <4> QED
        BY <1>1, <2>1, <2>5, <3>6, <3>7, <4>1, RowsBack
    <3>9. NewLine # NoText
      BY DEF NewLine, NoText
    <3> QED
      BY <1>1, <2>5, <3>8, <3>9, YankIs
  <2> QED
    BY <2>4, <2>6, <2>7 DEF Took
<1> QED
  BY <1>2, <1>3, <1>4

Place == [row : Nat, col : Nat]

\* The ends of a selection.
LEMMA SelectionIs ==
  ASSUME NEW b \in EdBuffers, NEW anchor \in Place, anchor.row # 0
  PROVE  LET from == StartOfSelection(b, anchor)
             to == EndOfSelection(b, anchor)
         IN  /\ from.row \in 1..Len(b.lines) /\ from.col \in Nat /\ to.row \in Nat /\ to.col \in Nat
             /\ from.row <= to.row /\ (from.row = to.row => from.col <= to.col)
             /\ AnchorInside(b, anchor) /\ CursorInside(b)
                  => to.row <= Len(b.lines) /\ from.col <= Len(b.lines[from.row])
<1> DEFINE cur == Cursor(b.row, b.col)
           from == StartOfSelection(b, anchor)
           to == EndOfSelection(b, anchor)
<1>1. /\ b.row \in 1..Len(b.lines) /\ b.row \in Nat /\ b.col \in Nat /\ Len(b.lines) \in Nat
      /\ LineOf(b) = b.lines[b.row] /\ DOMAIN b.lines = 1..Len(b.lines)
  BY BufferParts, LenProperties
<1>2. cur.row = b.row /\ cur.col = b.col
  BY DEF Cursor
<1>3. anchor.row \in Nat /\ anchor.col \in Nat
  BY DEF Place
<1>4. CASE Before(anchor, cur)
  <2>1. from = anchor /\ to = cur
    BY <1>4 DEF StartOfSelection, EndOfSelection
  <2>2. anchor.row < b.row \/ (anchor.row = b.row /\ anchor.col <= b.col)
    BY <1>2, <1>4 DEF Before
  <2>3. AnchorInside(b, anchor) => anchor.col <= Len(b.lines[anchor.row])
    BY <1>3 DEF AnchorInside
  <2> HIDE DEF from, to, cur
  <2>4. from.row = anchor.row /\ from.col = anchor.col /\ to.row = b.row /\ to.col = b.col
    BY <1>2, <2>1
  <2>5. /\ from.row \in 1..Len(b.lines) /\ from.col \in Nat /\ to.row \in Nat /\ to.col \in Nat
        /\ from.row <= to.row /\ (from.row = to.row => from.col <= to.col) /\ to.row <= Len(b.lines)
    BY <1>1, <1>3, <2>2, <2>4
  <2> QED
    BY <2>3, <2>4, <2>5 DEF from, to
<1>5. CASE ~Before(anchor, cur)
  <2>1. from = cur /\ to = anchor
    BY <1>5 DEF StartOfSelection, EndOfSelection
  <2>2. ~(anchor.row < b.row \/ (anchor.row = b.row /\ anchor.col <= b.col))
    BY <1>2, <1>5 DEF Before
  <2>3. AnchorInside(b, anchor) => anchor.row <= Len(b.lines)
    BY <1>1, <1>3 DEF AnchorInside
  <2>4. CursorInside(b) => b.col <= Len(b.lines[b.row])
    BY <1>1 DEF CursorInside
  <2> HIDE DEF from, to, cur
  <2>5. from.row = b.row /\ from.col = b.col /\ to.row = anchor.row /\ to.col = anchor.col
    BY <1>2, <2>1
  <2>6. /\ from.row \in 1..Len(b.lines) /\ from.col \in Nat /\ to.row \in Nat /\ to.col \in Nat
        /\ from.row <= to.row /\ (from.row = to.row => from.col <= to.col)
    BY <1>1, <1>3, <2>2, <2>5
  <2> QED
    BY <2>3, <2>4, <2>5, <2>6 DEF from, to
<1> QED
  BY <1>4, <1>5

\* The line at a row, there or not, and the lines between two places.
LEMMA LineAtIs ==
  ASSUME NEW b \in EdBuffers, NEW row \in Nat
  PROVE  LineAt(b.lines, row) \in EdLine
<1>1. DOMAIN b.lines = 1..Len(b.lines)
  BY BufferParts, LenProperties
<1>2. [i \in 1..9 |-> "a"] \in EdLine
  <2>1. 9 \in Nat /\ "a" \in Grapheme
    BY DEF Grapheme
  <2>2. [i \in 1..9 |-> "a"] \in [1..9 -> Grapheme]
    BY <2>1
  <2> HIDE DEF Grapheme
  <2> QED
    BY <2>1, <2>2 DEF EdLine
<1> QED
  BY <1>1, <1>2, LineIs DEF LineAt

\* The lines in between, ...
LEMMA BetweenIs ==
  ASSUME NEW b \in EdBuffers, NEW from, NEW to, from.row \in 1..Len(b.lines), to.row \in Nat,
         from.row < to.row
  PROVE  /\ Between(b, from, to) \in Seq(EdLine)
         /\ to.row <= Len(b.lines)
              => /\ Len(Between(b, from, to)) = to.row - from.row - 1
                 /\ \A i \in 1..to.row - from.row - 1 : Between(b, from, to)[i] = b.lines[from.row + i]
<1> DEFINE l == b.lines
           fr == from.row
           n == Min({to.row - 1, Len(l)})
           mid == SubSeq(l, fr + 1, n)
<1>1. l \in Seq(EdLine) /\ Len(l) \in Nat /\ fr \in Nat /\ fr + 1 \in Int /\ to.row - 1 \in Nat
  BY BufferParts
<1>2. n \in Nat /\ n <= Len(l) /\ (to.row <= Len(l) => n = to.row - 1)
  BY <1>1, MinOfTwo
<1>3. Between(b, from, to) = mid
  BY DEF Between
<1> DEFINE p == fr + 1
<1> HIDE DEF n
<1>4. \A i \in p..n : l[i] \in EdLine
  BY <1>1, <1>2, LineIs
<1>4a. p \in Int /\ n \in Int /\ mid = SubSeq(l, p, n)
  BY <1>1, <1>2
<1>4b. fr \in Nat /\ p = fr + 1 /\ fr < to.row /\ to.row \in Nat
  BY <1>1
<1> HIDE DEF p, l, mid, fr
<1>5. /\ mid \in Seq(EdLine) /\ Len(mid) = IF p <= n THEN n - p + 1 ELSE 0
      /\ \A i \in 1..n - p + 1 : mid[i] = l[p + i - 1]
  BY <1>4, <1>4a, SubSeqProperties
<1>6. ASSUME to.row <= Len(l)
      PROVE  /\ Len(mid) = to.row - fr - 1
             /\ \A i \in 1..to.row - fr - 1 : mid[i] = l[fr + i]
  <2>1. n = to.row - 1
    BY <1>2, <1>6
  <2>2. Len(mid) = to.row - fr - 1
    BY <1>4b, <1>5, <2>1
  <2>3. ASSUME NEW i \in 1..to.row - fr - 1 PROVE mid[i] = l[fr + i]
    <3>1. i \in 1..n - p + 1 /\ p + i - 1 = fr + i
      BY <1>1, <1>4b, <2>1
    <3> QED
      BY <1>5, <3>1
  <2> QED
    BY <2>2, <2>3
<1> QED
  BY <1>3, <1>5, <1>6 DEF l, fr

\* What a selection over several lines takes.
Taken(b, from, to, mid) ==
  <<Beyond(b.lines[from.row], from.col)>> \o mid \o <<Upto(LineAt(b.lines, to.row), to.col)>>

\* ... and what is left of the text without a selection.
LEMMA TakenIs ==
  ASSUME NEW b \in EdBuffers, NEW from, NEW to, from.row \in 1..Len(b.lines), to.row \in Nat,
         from.col \in Nat, to.col \in Nat, from.row <= to.row, NEW mid \in Seq(EdLine)
  PROVE  /\ Taken(b, from, to, mid) \in EditorText
         /\ Selected(b, from, to, mid) \in EditorText
         /\ from.row # to.row => Selected(b, from, to, mid) = Taken(b, from, to, mid)
         /\ Merged(b, from, to) \in EdLine
<1>1. b.lines[from.row] \in EdLine /\ LineAt(b.lines, to.row) \in EdLine
  BY LineIs, LineAtIs
<1>2. /\ Beyond(b.lines[from.row], from.col) \in EdLine /\ Upto(b.lines[from.row], from.col) \in EdLine
      /\ Part(b.lines[from.row], from.col, to.col) \in EdLine
  BY <1>1, PartTypes
<1>3. Upto(LineAt(b.lines, to.row), to.col) \in EdLine /\ Beyond(LineAt(b.lines, to.row), to.col) \in EdLine
  BY <1>1, PartTypes
<1>4. Taken(b, from, to, mid) \in EditorText
  <2>1. /\ Taken(b, from, to, mid) \in Seq(EdLine) /\ Len(Taken(b, from, to, mid)) = Len(mid) + 2
        /\ Len(mid) \in Nat
    BY <1>2, <1>3, AroundIs DEF Taken
  <2>2. Len(Taken(b, from, to, mid)) # 0
    BY <2>1
  <2> QED
    BY <2>1, <2>2, TextIs
<1>5. <<Part(b.lines[from.row], from.col, to.col)>> \in EditorText
  BY <1>2, TextIs
<1>6. Merged(b, from, to) \in EdLine
  BY <1>2, <1>3, ConcatLine DEF Merged
<1>7. Selected(b, from, to, mid) = IF from.row = to.row THEN <<Part(b.lines[from.row], from.col, to.col)>>
                                   ELSE Taken(b, from, to, mid)
  BY DEF Selected, Taken
<1> QED
  BY <1>4, <1>5, <1>6, <1>7

\* One line put in the place of one.
LEMMA ExceptIsSplice ==
  ASSUME NEW l \in EditorText, NEW r \in 1..Len(l), NEW x \in EdLine
  PROVE  Spliced(l, r, 1, <<x>>) = [l EXCEPT ![r] = x]
<1> DEFINE m == [l EXCEPT ![r] = x]
           s == SubSeq(l, 1, r - 1)
           t == SubSeq(l, r + 1, Len(l))
           o == <<x>>
           so == s \o o
           all == so \o t
<1>1. /\ l \in Seq(EdLine) /\ Len(l) \in Nat /\ r \in Nat /\ o \in Seq(EdLine) /\ Len(o) = 1 /\ o[1] = x
      /\ \A i \in 1..Len(l) : l[i] \in EdLine
  BY TextIs
<1>2. /\ m \in Seq(EdLine) /\ Len(m) = Len(l) /\ m[r] = x
      /\ \A i \in 1..Len(l) : i # r => m[i] = l[i]
  <2>1. m \in Seq(EdLine) /\ Len(m) = Len(l)
    BY <1>1, ExceptSeq
  <2>2. DOMAIN l = 1..Len(l)
    BY <1>1, LenProperties
  <2> QED
    BY <2>1, <2>2
<1>3. s \in Seq(EdLine) /\ Len(s) = r - 1 /\ \A i \in 1..r - 1 : s[i] = l[i]
  <2>1. 1 \in Int /\ r - 1 \in Int /\ \A i \in 1..r - 1 : l[i] \in EdLine
    BY <1>1
  <2>2. /\ s \in Seq(EdLine) /\ Len(s) = IF 1 <= r - 1 THEN r - 1 - 1 + 1 ELSE 0
        /\ \A i \in 1..r - 1 - 1 + 1 : s[i] = l[1 + i - 1]
    BY <2>1, SubSeqProperties
  <2> HIDE DEF s
  <2> QED
    BY <1>1, <2>2
<1>4. t \in Seq(EdLine) /\ Len(t) = Len(l) - r /\ \A i \in 1..Len(l) - r : t[i] = l[r + i]
  <2>1. r + 1 \in Int /\ Len(l) \in Int /\ \A i \in r + 1..Len(l) : l[i] \in EdLine
    BY <1>1
  <2> DEFINE p == r + 1
             n == Len(l)
  <2>2. p \in Int /\ n \in Int /\ t = SubSeq(l, p, n) /\ \A i \in p..n : l[i] \in EdLine
    BY <2>1
  <2>3. p = r + 1 /\ n = Len(l)
    OBVIOUS
  <2> HIDE DEF t, p, n
  <2>4. /\ t \in Seq(EdLine) /\ Len(t) = IF p <= n THEN n - p + 1 ELSE 0
        /\ \A i \in 1..n - p + 1 : t[i] = l[p + i - 1]
    BY <2>2, SubSeqProperties
  <2>5. n - p + 1 = Len(l) - r /\ (IF p <= n THEN n - p + 1 ELSE 0) = Len(l) - r
        /\ \A i \in 1..Len(l) - r : p + i - 1 = r + i
    BY <1>1, <2>3
  <2> QED
    BY <2>4, <2>5
<1> HIDE DEF m, s, t, o
<1>5. so \in Seq(EdLine) /\ Len(so) = r /\ \A i \in 1..r : so[i] = IF i <= r - 1 THEN s[i] ELSE x
  <2>1. /\ so \in Seq(EdLine) /\ Len(so) = Len(s) + Len(o)
        /\ \A i \in 1..Len(s) + Len(o) : so[i] = IF i <= Len(s) THEN s[i] ELSE o[i - Len(s)]
    BY <1>1, <1>3, ConcatProperties
  <2>2. Len(s) + Len(o) = r /\ \A i \in 1..r : ~(i <= r - 1) => i - Len(s) = 1
    BY <1>1, <1>3
  <2> HIDE DEF so
  <2> QED
    BY <1>1, <1>3, <2>1, <2>2
<1> HIDE DEF so
<1>6. /\ all \in Seq(EdLine) /\ Len(all) = Len(l)
      /\ \A i \in 1..Len(l) : all[i] = IF i <= r THEN so[i] ELSE t[i - r]
  <2>1. /\ all \in Seq(EdLine) /\ Len(all) = Len(so) + Len(t)
        /\ \A i \in 1..Len(so) + Len(t) : all[i] = IF i <= Len(so) THEN so[i] ELSE t[i - Len(so)]
    BY <1>4, <1>5, ConcatProperties
  <2>2. Len(so) + Len(t) = Len(l)
    BY <1>1, <1>4, <1>5
  <2> HIDE DEF all
  <2> QED
    BY <1>5, <2>1, <2>2
<1> HIDE DEF all
<1>7. ASSUME NEW i \in 1..Len(l) PROVE all[i] = m[i]
  <2>1. CASE i < r
    <3>1. i \in 1..r /\ i <= r - 1 /\ i \in 1..r - 1 /\ i <= r /\ i # r
      BY <1>1, <2>1
    <3> QED
      BY <1>2, <1>3, <1>5, <1>6, <3>1
  <2>2. CASE i = r
    <3>1. i \in 1..r /\ ~(i <= r - 1) /\ i <= r
      BY <1>1, <2>2
    <3> QED
      BY <1>2, <1>5, <1>6, <2>2, <3>1
  <2>3. CASE i > r
    <3>1. ~(i <= r) /\ i - r \in 1..Len(l) - r /\ r + (i - r) = i /\ i # r
      BY <1>1, <2>3
    <3>2. all[i] = t[i - r]
      BY <1>6, <3>1
    <3>3. t[i - r] = l[i]
      BY <1>4, <3>1
    <3> QED
      BY <1>2, <3>1, <3>2, <3>3
  <2> QED
    BY <1>1, <2>1, <2>2, <2>3
<1>8. all = m
  BY <1>2, <1>6, <1>7, SeqEqual
<1>9. Spliced(l, r, 1, <<x>>) = all
  BY DEF Spliced, all, so, s, o, t
<1> QED
  BY <1>8, <1>9 DEF m

\* yankSelection and deleteSelection; an end outside the text reads as letters.
LEMMA YankSelectionGood ==
  ASSUME NEW b \in EdBuffers, NEW anchor \in Place, anchor.row # 0
  PROVE  Good(b, YankSelection(b, anchor))
<1> DEFINE from == StartOfSelection(b, anchor)
           to == EndOfSelection(b, anchor)
           missing == [r \in 1..Max({0, to.row - 1 - Len(b.lines)}) |-> <<>>]
           mid == Between(b, from, to) \o missing
           text == Selected(b, from, to, mid)
<1>1. /\ from.row \in 1..Len(b.lines) /\ from.col \in Nat /\ to.row \in Nat /\ to.col \in Nat
      /\ from.row <= to.row
  BY SelectionIs
<1>2. b.row \in 1..Len(b.lines) /\ Len(b.lines) \in Nat /\ b.kills \in Seq(EditorText)
  BY BufferParts
<1> HIDE DEF from, to
<1>3. missing \in Seq(EdLine)
  <2> DEFINE n == Max({0, to.row - 1 - Len(b.lines)})
  <2>1. 0 \in Int /\ to.row - 1 - Len(b.lines) \in Int
    BY <1>1, <1>2
  <2>2. n \in Nat
    BY <2>1, MaxOfTwo
  <2> HIDE DEF n
  <2>3. <<>> \in EdLine
    BY DEF EdLine
  <2>4. [r \in 1..n |-> <<>>] \in [1..n -> EdLine]
    BY <2>3
  <2> HIDE DEF EdLine
  <2>5. [r \in 1..n |-> <<>>] \in Seq(EdLine)
    BY <2>2, <2>4
  <2> QED
    BY <2>5 DEF n
<1> HIDE DEF missing
<1>4. text \in EditorText
  <2>1. CASE from.row = to.row
    <3>1. b.lines[from.row] \in EdLine
      BY <1>1, LineIs
    <3>2. Part(b.lines[from.row], from.col, to.col) \in EdLine
      BY <1>1, <3>1, PartTypes
    <3>3. text = <<Part(b.lines[from.row], from.col, to.col)>>
      BY <2>1 DEF Selected
    <3> QED
      BY <3>2, <3>3, TextIs
  <2>2. CASE from.row # to.row
    <3>0. from.row < to.row
      BY <1>1, <2>2
    <3>1. Between(b, from, to) \in Seq(EdLine)
      BY <1>1, <3>0, BetweenIs
    <3>2. mid \in Seq(EdLine)
      BY <1>3, <3>1, ConcatLines
    <3> HIDE DEF mid
    <3> QED
      BY <1>1, <3>2, TakenIs
  <2> QED
    BY <2>1, <2>2
<1> HIDE DEF mid, text
<1>5. Killed(b, text) \in Seq(EditorText)
  BY <1>4, KilledIs
<1>6. PushKill(b, text) = Kept(b, b.lines, b.row, b.col, Killed(b, text))
  BY OfBuffers
<1>7. Move(PushKill(b, text), from.row, from.col) = Kept(b, b.lines, from.row, from.col, Killed(b, text))
  BY <1>6, OfKept
<1>8. Good(b, Kept(b, b.lines, from.row, from.col, Killed(b, text)))
  BY <1>1, <1>5, KeptGood
<1>9. YankSelection(b, anchor) = Move(PushKill(b, text), from.row, from.col)
  BY DEF YankSelection, text, mid, missing, from, to
<1> QED
  BY <1>7, <1>8, <1>9

LEMMA DeleteSelectionIs ==
  ASSUME NEW b \in EdBuffers, NEW anchor \in Place, anchor.row # 0
  PROVE  /\ Good(b, DeleteSelection(b, anchor))
         /\ AnchorInside(b, anchor) /\ CursorInside(b) => Took(b, DeleteSelection(b, anchor))
<1> DEFINE l == b.lines
           from == StartOfSelection(b, anchor)
           to == EndOfSelection(b, anchor)
           fr == from.row
           fc == from.col
           tr == to.row
           tc == to.col
           between == IF Between(b, from, to) = <<>> /\ to.row > from.row + 1
                      THEN NoText ELSE Between(b, from, to)
           text == Selected(b, from, to, between)
           count == tr - fr + 1
           one == Merged(b, from, to)
           m == Spliced(l, fr, count, <<one>>)
           c == Changed(b, m, fr, fc, Killed(b, text))
<1>1. /\ fr \in 1..Len(l) /\ fc \in Nat /\ tr \in Nat /\ tc \in Nat
      /\ fr <= tr /\ (fr = tr => fc <= tc)
      /\ AnchorInside(b, anchor) /\ CursorInside(b) => tr <= Len(l) /\ fc <= Len(l[fr])
  BY SelectionIs
<1>2. Len(l) \in Nat /\ l \in EditorText /\ DOMAIN l = 1..Len(l) /\ fr \in Nat
  BY <1>1, BufferParts, TextIs
<1>3. DeleteSelection(b, anchor) = c
  <2>1. PushKill(PushUndo(b), text) = Changed(b, l, b.row, b.col, Killed(b, text))
    BY KillFirst
  <2> DEFINE d == PushKill(PushUndo(b), text)
             e == Splice(d, fr, count, <<one>>)
  <2>2. DeleteSelection(b, anchor) = Move(e, fr, fc)
    BY DEF DeleteSelection
  <2>3. d = Changed(b, l, b.row, b.col, Killed(b, text))
    BY <2>1
  <2> HIDE DEF d, text, one, count, fr, fc, l
  <2>4. e = Changed(b, m, b.row, b.col, Killed(b, text))
    BY <2>3, OfChanged
  <2> HIDE DEF e, m
  <2> QED
    BY <2>2, <2>4, MoveChanged
<1>4. fr = tr => text = <<Part(l[fr], fc, tc)>>
  BY DEF Selected
<1>5. tr \in DOMAIN l => one = Middle(l, fr, fc, tr, tc)
  BY DEF Merged, Middle, LineAt
<1>6. fr < tr => text = Taken(b, from, to, between)
  BY <1>1, <1>2 DEF Selected, Taken
<1> HIDE DEF from, to
<1>7. /\ one \in EdLine
  <2>1. <<>> \in Seq(EdLine)
    OBVIOUS
  <2> QED
    BY <1>1, <2>1, TakenIs
<1>8. fr < tr => /\ Between(b, from, to) \in Seq(EdLine)
                 /\ tr <= Len(l) => /\ Len(Between(b, from, to)) = tr - fr - 1
                                    /\ \A i \in 1..tr - fr - 1 : Between(b, from, to)[i] = l[fr + i]
  BY <1>1, BetweenIs
<1>9. fr < tr => between \in Seq(EdLine)
  BY <1>8, TextIs
<1>10. text \in EditorText
  <2>1. CASE fr = tr
    <3>1. l[fr] \in EdLine
      BY <1>1, LineIs
    <3>2. Part(l[fr], fc, tc) \in EdLine
      BY <1>1, <3>1, PartTypes
    <3> QED
      BY <1>4, <2>1, <3>2, TextIs
  <2>2. CASE fr < tr
    <3> HIDE DEF between
    <3>1. Taken(b, from, to, between) \in EditorText
      BY <1>1, <1>9, <2>2, TakenIs
    <3> QED
      BY <1>6, <2>2, <3>1
  <2> QED
    BY <1>1, <1>2, <2>1, <2>2
<1> HIDE DEF text, one
<1>11. Good(b, c)
  <2>1. count \in Nat
    BY <1>1, <1>2
  <2>2. Killed(b, text) \in Seq(EditorText)
    BY <1>10, KilledIs
  <2> HIDE DEF count, fr, fc
  <2> QED
    BY <1>1, <1>7, <2>1, <2>2, MergeGood
<1>12. ASSUME fr = tr, fc <= Len(l[fr]) PROVE Took(b, c)
  <2>1. one = Without(l[fr], fc, tc)
    BY <1>1, <1>2, <1>5, <1>12 DEF Middle, Without
  <2>2. count = 1
    BY <1>1, <1>2, <1>12
  <2>3. m = [l EXCEPT ![fr] = one]
    BY <1>1, <1>2, <1>7, <2>2, ExceptIsSplice
  <2>4. Took(b, Changed(b, [l EXCEPT ![fr] = Without(l[fr], fc, tc)], fr, fc,
                        Killed(b, <<Part(l[fr], fc, tc)>>)))
    BY <1>1, <1>12, LineTook
  <2> QED
    BY <1>4, <1>12, <2>1, <2>3, <2>4
<1>13. ASSUME fr < tr, tr <= Len(l), fc <= Len(l[fr]) PROVE Took(b, c)
  <2> DEFINE mid == Between(b, from, to)
  <2>1. /\ mid \in Seq(EdLine) /\ Len(mid) = tr - fr - 1
        /\ \A i \in 1..tr - fr - 1 : mid[i] = l[fr + i]
    BY <1>8, <1>13
  <2>2. between = mid
    <3>1. mid = <<>> => Len(mid) = 0
      OBVIOUS
    <3>2. ~(mid = <<>> /\ tr > fr + 1)
      BY <1>1, <1>2, <2>1, <3>1
    <3> QED
      BY <3>2
  <2>3. tr \in 1..Len(l) /\ tr \in fr + 1..Len(l)
    BY <1>1, <1>2, <1>13
  <2> DEFINE x == Beyond(l[fr], fc)
             z == Upto(l[tr], tc)
  <2>4. LineAt(l, tr) = l[tr] /\ one = Middle(l, fr, fc, tr, tc)
    BY <1>2, <1>5, <2>3 DEF LineAt
  <2>5. text = <<x>> \o mid \o <<z>>
    BY <1>6, <1>13, <2>2, <2>4 DEF Taken
  <2>6. x \in EdLine /\ z \in EdLine
    <3>1. l[fr] \in EdLine /\ l[tr] \in EdLine
      BY <1>1, <2>3, LineIs
    <3> QED
      BY <1>1, <3>1, PartTypes
  <2> HIDE DEF mid, between, fr, tr, fc, tc, l, x, z
  <2>7. /\ Len(text) = Len(mid) + 2 /\ text[1] = x /\ text[Len(mid) + 2] = z
        /\ \A i \in 1..Len(mid) : text[i + 1] = mid[i]
    BY <2>1, <2>5, <2>6, AroundIs
  <2>8. Len(text) = tr - fr + 1 /\ Len(mid) + 2 = Len(text)
    BY <1>1, <1>2, <2>1, <2>7
  <2>9. \A i \in 2..Len(text) - 1 : text[i] = l[fr + i - 1]
    <3> SUFFICES ASSUME NEW i \in 2..Len(text) - 1 PROVE text[i] = l[fr + i - 1]
      OBVIOUS
    <3>1. i - 1 \in 1..Len(mid) /\ (i - 1) + 1 = i /\ i - 1 \in 1..tr - fr - 1 /\ fr + (i - 1) = fr + i - 1
      BY <1>1, <1>2, <2>1, <2>8
    <3>2. text[i] = mid[i - 1]
      BY <2>7, <3>1
    <3>3. mid[i - 1] = l[fr + (i - 1)]
      BY <2>1, <3>1
    <3> QED
      BY <3>1, <3>2, <3>3
  <2>10. Takes(l, fr, fc, tr, tc, text)
    BY <2>7, <2>8, <2>9 DEF Takes, x, z
  <2>11. m \in EditorText /\ fr \in 1..Len(m) /\ Inserted(m, fr, fc, text) = l
    BY <1>1, <1>2, <1>10, <1>13, <2>3, <2>4, <2>10, RowsBack
  <2>12. text # NoText
    <3>1. Len(text) # 1
      BY <1>1, <1>2, <1>13, <2>8
    <3>2. Len(NoText) = 1
      BY DEF NoText
    <3> QED
      BY ONLY <3>1, <3>2
  <2> HIDE DEF m
  <2>13. Yank(c).lines = l
    BY <1>1, <1>10, <2>11, <2>12, YankIs
  <2> QED
    BY <2>13 DEF Took, l
<1>14. AnchorInside(b, anchor) /\ CursorInside(b) => Took(b, c)
  <2>1. fr = tr \/ fr < tr
    BY <1>1, <1>2
  <2> QED
    BY <1>1, <1>12, <1>13, <2>1
<1> QED
  BY <1>3, <1>11, <1>14

\* deleteSelectionLines and yankSelectionLines.
LEMMA RowsGood ==
  ASSUME NEW b \in EdBuffers, NEW anchor \in Place, anchor.row # 0
  PROVE  Good(b, YankSelectionLines(b, anchor)) /\ Good(b, DeleteSelectionLines(b, anchor))
<1> DEFINE l == b.lines
           start == Min({b.row, anchor.row})
           last == Max({b.row, anchor.row})
           end == Min({last, Len(l)})
           text == SelectedRows(b, anchor)
           k == Killed(b, text)
<1>1. /\ b.row \in 1..Len(l) /\ b.row \in Nat /\ b.col \in Nat /\ Len(l) \in Nat /\ l \in EditorText
      /\ b.kills \in Seq(EditorText) /\ l \in Seq(EdLine) /\ 0 \in Nat
  BY BufferParts
<1>2. anchor.row \in Nat
  BY DEF Place
<1>3. start \in 1..Len(l) /\ start <= b.row
  BY <1>1, <1>2, MinOfTwo
<1>4. last \in Nat /\ b.row <= last
  BY <1>1, <1>2, MaxOfTwo
<1>5. text = SubSeq(l, start, end)
  BY DEF SelectedRows
<1> HIDE DEF start, last
<1>6. end \in start..Len(l)
  BY <1>1, <1>3, <1>4, MinOfTwo
<1> HIDE DEF end, text
<1>7. text \in Seq(EdLine) /\ Len(text) = end - start + 1
  <2>1. start \in Int /\ end \in Int /\ \A i \in start..end : l[i] \in EdLine
    BY <1>1, <1>3, <1>6, LineIs
  <2>2. /\ SubSeq(l, start, end) \in Seq(EdLine)
        /\ Len(SubSeq(l, start, end)) = IF start <= end THEN end - start + 1 ELSE 0
    BY <2>1, SubSeqProperties
  <2> QED
    BY <1>5, <1>6, <2>1, <2>2
<1>8. text \in EditorText
  <2>1. Len(text) # 0
    BY <1>3, <1>6, <1>7
  <2> QED
    BY <1>7, <2>1, TextIs
<1>9. k \in Seq(EditorText)
  BY <1>8, KilledIs
<1>10. Good(b, YankSelectionLines(b, anchor))
  <2>1. PushKill(b, text) = Kept(b, l, b.row, b.col, k)
    BY OfBuffers
  <2>2. Move(PushKill(b, text), start, 0) = Kept(b, l, start, 0, k)
    BY <2>1, OfKept
  <2> HIDE DEF k
  <2>3. Good(b, Kept(b, l, start, 0, k))
    BY <1>1, <1>3, <1>9, KeptGood
  <2>4. YankSelectionLines(b, anchor) = Move(PushKill(b, text), start, 0)
    BY DEF YankSelectionLines, text, start
  <2> QED
    BY <2>2, <2>3, <2>4
<1>11. Good(b, DeleteSelectionLines(b, anchor))
  <2> DEFINE n == Len(text)
             m == Spliced(l, start, n, <<>>)
             rest == Splice(PushUndo(b), start, n, <<>>)
             left == IF rest.lines = <<>> THEN [rest EXCEPT !.lines = NoText] ELSE rest
             mm == IF m = <<>> THEN NoText ELSE m
             row == Min({start, Len(mm)})
  <2>1. rest = Changed(b, m, b.row, b.col, b.kills)
    BY SpliceRecorded
  <2>2. left = Changed(b, mm, b.row, b.col, b.kills)
    <3> HIDE DEF m, rest
    <3>1. rest.lines = m
      BY <2>1, ChangedParts
    <3>2. rest = EdBuf(m, b.row, b.col, Pushed(b), b.kills)
      BY <2>1 DEF Changed
    <3>3. [rest EXCEPT !.lines = NoText] = Changed(b, NoText, b.row, b.col, b.kills)
      BY <3>2 DEF EdBuf, Changed
    <3> QED
      BY <2>1, <3>1, <3>3
  <2>3. m \in Seq(EdLine)
    <3>1. <<>> \in Seq(EdLine)
      OBVIOUS
    <3>2. n \in Nat /\ start + n <= Len(l) + 1 /\ start \in 1..Len(l) + 1
      BY <1>1, <1>3, <1>6, <1>7
    <3> HIDE DEF n
    <3> QED
      BY <1>1, <3>1, <3>2, SplicedIs
  <2> HIDE DEF m, left, rest
  <2>4. mm \in EditorText /\ Len(mm) \in Nat \ {0}
    <3>1. mm \in EditorText
      BY <2>3, TextIs DEF EditorText, EdLine
    <3> HIDE DEF mm
    <3> QED
      BY <3>1, TextIs
  <2> HIDE DEF mm
  <2>5. row \in 1..Len(mm)
    BY <1>1, <1>3, <2>4, MinOfTwo
  <2>6. PushKill(left, text) = Changed(b, mm, b.row, b.col, k)
    BY <2>2, KillChanged
  <2>7. Move(PushKill(left, text), row, 0) = Changed(b, mm, row, 0, k)
    BY <2>6, MoveChanged
  <2>8. left.lines = mm
    BY <2>2, ChangedParts
  <2> HIDE DEF k
  <2>9. DeleteSelectionLines(b, anchor) = Move(PushKill(left, text), row, 0)
    BY <2>8 DEF DeleteSelectionLines, left, rest, n, text, start, row
  <2> HIDE DEF row
  <2>10. Good(b, Changed(b, mm, row, 0, k))
    BY <1>1, <1>9, <2>4, <2>5, ChangedGood
  <2> QED
    BY <2>7, <2>9, <2>10
<1> QED
  BY <1>10, <1>11

\* A text object starts within its line and ends no earlier.
Object(line, r) == r.from \in Nat /\ r.to \in Nat /\ r.from <= r.to /\ r.from <= Len(line)
Objects(line, found) == \A r \in found : Object(line, r)

\* The text objects there may be at a column: each is within the line.
LEMMA IntervalIs ==
  ASSUME NEW line, NEW from \in Nat, NEW to \in Nat, from <= to, from <= Len(line)
  PROVE  Objects(line, Interval(from, to))
<1>1. \A r \in Interval(from, to) : r.from = from /\ r.to = to
  BY DEF Interval
<1> QED
  BY <1>1 DEF Objects, Object

LEMMA DelimitedIs ==
  ASSUME NEW line \in EdLine, NEW m, NEW from \in 0..Len(line) - 1, NEW to \in 0..Len(line) - 1, from < to
  PROVE  Objects(line, Delimited(m, from, to))
<1>1. Len(line) \in Nat
  BY PartIs
<1>2. from \in Nat /\ to \in Nat /\ from + 1 \in Nat /\ to + 1 \in Nat /\ from + 1 <= to /\ from <= to + 1
      /\ from <= Len(line) /\ from + 1 <= Len(line)
  BY <1>1
<1>3. Objects(line, Interval(from + 1, to)) /\ Objects(line, Interval(from, to + 1))
  BY <1>2, IntervalIs
<1> QED
  BY <1>3 DEF Delimited

LEMMA WordRangeIs ==
  ASSUME NEW line \in EdLine, NEW m, NEW col \in Nat
  PROVE  Objects(line, WordRange(m, line, col))
<1> DEFINE from == IF col < Len(line) /\ Char(line, col) \in Space THEN EndOfSpace(line, col)
                   ELSE StartOfWord(line, col)
           to == EndOfWord(line, from)
           after == EndOfSpace(line, to)
           before == StartOfSpace(line, from)
<1>1. Len(line) \in Nat
  BY PartIs
<1>2. from \in Nat
  <2>1. EndOfSpace(line, col) \in Nat
    <3> DEFINE last == IF col <= Len(line) THEN Len(line) ELSE col
    <3>1. EndOfSpace(line, col) \in col..last
      BY WordIs
    <3>2. last \in Nat
      BY <1>1
    <3> HIDE DEF last
    <3> QED
      BY <3>1, <3>2
  <2>2. StartOfWord(line, col) \in Nat
    <3>1. StartOfWord(line, col) \in 0..col
      BY StartIs
    <3> QED
      BY <3>1
  <2> QED
    BY <2>1, <2>2
<1> HIDE DEF from
<1>3. CASE from >= Len(line)
  <2>1. WordRange(m, line, col) = {}
    BY <1>3 DEF WordRange, from
  <2> QED
    BY <2>1 DEF Objects
<1>4. CASE ~(from >= Len(line))
  <2>1. to \in from..Len(line)
    BY <1>1, <1>2, <1>4, EndIs
  <2>2. to \in Nat /\ from <= to /\ to <= Len(line)
    BY <1>1, <1>2, <2>1
  <2> HIDE DEF to
  <2>3. after \in to..Len(line)
    BY <1>1, <2>2, EndIs
  <2>4. before \in 0..from
    BY <1>2, StartIs
  <2> HIDE DEF after, before
  <2>5. after \in Nat /\ from <= after /\ before \in Nat /\ before <= to /\ before <= Len(line) /\ from <= Len(line)
    BY <1>1, <1>2, <1>4, <2>2, <2>3, <2>4
  <2>6. /\ Objects(line, Interval(from, to)) /\ Objects(line, Interval(from, after))
        /\ Objects(line, Interval(before, to))
    BY <1>2, <2>2, <2>5, IntervalIs
  <2>7. WordRange(m, line, col) \in {Interval(from, to), Interval(from, after), Interval(before, to)}
    BY <1>4 DEF WordRange, from, to, after, before
  <2> QED
    BY <2>6, <2>7
<1> QED
  BY <1>3, <1>4

LEMMA QuoteRangeIs ==
  ASSUME NEW line \in EdLine, NEW m, NEW col \in Nat
  PROVE  Objects(line, QuoteRange(m, line, col))
<1> DEFINE quotes == Places(line, "q")
           before == {i \in quotes : i <= col}
           first == IF before # {} THEN Max(before) ELSE Min(quotes)
           second == {i \in quotes : i > first}
<1>1. Len(line) \in Nat /\ quotes \subseteq 0..Len(line) - 1
  <2>1. Len(line) \in Nat
    BY PartIs
  <2> QED
    BY <2>1 DEF Places
<1> HIDE DEF quotes
<1>2. CASE quotes = {} \/ second = {}
  <2>1. QuoteRange(m, line, col) = {}
    BY <1>2 DEF QuoteRange, quotes
  <2> QED
    BY <2>1 DEF Objects
<1>3. CASE ~(quotes = {} \/ second = {})
  <2>1. first \in quotes
    <3>0. \A i \in quotes : i \in Nat /\ i \in 0..Len(line)
      BY <1>1
    <3>1. quotes \subseteq Nat /\ before \subseteq 0..Len(line)
      BY <3>0
    <3>2. Min(quotes) \in quotes
      BY <1>3, <3>1, MinIs
    <3>3. before # {} => Max(before) \in before
      BY <1>1, <3>1, MaxIs
    <3> QED
      BY <3>2, <3>3
  <2> HIDE DEF before, first
  <2>0. \A i \in quotes : i \in Nat
    BY <1>1
  <2>2. second \subseteq Nat /\ second # {}
    BY <1>3, <2>0
  <2>3. Min(second) \in second
    BY <2>2, MinIs
  <2>4. Min(second) \in quotes /\ Min(second) > first
    BY <2>3
  <2> HIDE DEF second
  <2>5. Objects(line, Delimited(m, first, Min(second)))
    <3>1. first \in 0..Len(line) - 1 /\ Min(second) \in 0..Len(line) - 1 /\ first < Min(second)
      BY <1>1, <2>1, <2>4
    <3> QED
      BY <3>1, DelimitedIs
  <2>6. QuoteRange(m, line, col) = Delimited(m, first, Min(second))
    BY <1>3 DEF QuoteRange, quotes, second, first, before
  <2> QED
    BY <2>5, <2>6
<1> QED
  BY <1>2, <1>3

LEMMA BracketRangeIs ==
  ASSUME NEW line \in EdLine, NEW m, NEW col \in Nat
  PROVE  Objects(line, BracketRange(m, line, col))
<1> DEFINE bound == IF col \in Places(line, ")") THEN col ELSE col + 1
           opens == IF col \in Places(line, "(") THEN {col}
                    ELSE {i \in Places(line, "(") : i < bound /\ Balanced(line, i, bound)}
           open == Max(opens)
           closes == {i \in Places(line, ")") : i > open /\ Balanced(line, open, i)}
<1>1. /\ Len(line) \in Nat /\ opens \subseteq 0..Len(line) - 1
      /\ closes \subseteq 0..Len(line) - 1 /\ \A i \in closes : i > open
  <2>1. Len(line) \in Nat
    BY PartIs
  <2>2. \A c : Places(line, c) \subseteq 0..Len(line) - 1
    BY DEF Places
  <2>3. opens \subseteq 0..Len(line) - 1
    BY <2>2
  <2> HIDE DEF opens
  <2> QED
    BY <2>1, <2>2, <2>3
<1> HIDE DEF opens
<1>2. CASE opens = {} \/ closes = {}
  <2>1. BracketRange(m, line, col) = {}
    BY <1>2 DEF BracketRange, opens
  <2> QED
    BY <2>1 DEF Objects
<1>3. CASE ~(opens = {} \/ closes = {})
  <2>1. open \in opens
    <3>1. opens \subseteq 0..Len(line)
      BY <1>1
    <3> QED
      BY <1>1, <1>3, <3>1, MaxIs
  <2> HIDE DEF open, closes
  <2>2. closes \subseteq Nat
    BY <1>1
  <2>3. Min(closes) \in closes
    BY <1>3, <2>2, MinIs
  <2>4. open \in 0..Len(line) - 1 /\ Min(closes) \in 0..Len(line) - 1 /\ open < Min(closes)
    BY <1>1, <2>1, <2>3
  <2>5. Objects(line, Delimited(m, open, Min(closes)))
    BY <2>4, DelimitedIs
  <2>6. BracketRange(m, line, col) = Delimited(m, open, Min(closes))
    BY <1>3 DEF BracketRange, opens, open, closes
  <2> QED
    BY <2>5, <2>6
<1> QED
  BY <1>2, <1>3

\* deleteTextObject and yankTextObject.
LEMMA TextObjectsIs ==
  ASSUME NEW b \in EdBuffers, NEW m, NEW target
  PROVE  /\ Good(b, DeleteTextObject(b, m, target)) /\ Took(b, DeleteTextObject(b, m, target))
         /\ Good(b, YankTextObject(b, m, target))
<1> DEFINE line == LineOf(b)
           found == TextObject(b, m, target)
           object == CHOOSE r \in found : TRUE
<1>1. /\ line \in EdLine /\ Len(line) \in Nat /\ b.col \in Nat /\ b.row \in 1..Len(b.lines)
      /\ b.kills \in Seq(EditorText)
  BY BufferParts
<1>2. Objects(line, found)
  <2>1. Objects(line, WordRange(m, line, b.col)) /\ Objects(line, QuoteRange(m, line, b.col))
        /\ Objects(line, BracketRange(m, line, b.col)) /\ Objects(line, {})
    BY <1>1, WordRangeIs, QuoteRangeIs, BracketRangeIs DEF Objects
  <2>2. found \in {WordRange(m, line, b.col), QuoteRange(m, line, b.col), BracketRange(m, line, b.col), {}}
    BY DEF TextObject
  <2> QED
    BY <2>1, <2>2
<1> HIDE DEF found
<1>3. CASE found = {}
  BY <1>3, SameGood DEF DeleteTextObject, YankTextObject, found, Took
<1>4. CASE found # {}
  <2>1. object \in found
    BY <1>4
  <2>2. Object(line, object)
    BY <1>2, <2>1 DEF Objects
  <2> HIDE DEF object
  <2> DEFINE from == object.from
             to == object.to
  <2>3. from \in Nat /\ to \in Nat /\ from <= to /\ from <= Len(line)
    BY <2>2 DEF Object
  <2>4. DeleteTextObject(b, m, target) = Move(Cut(b, from, to, TRUE), b.row, from)
    BY <1>4 DEF DeleteTextObject, found, object
  <2>5. YankTextObject(b, m, target) = Move(PushKill(b, CutText(b, from, to)), b.row, from)
    BY <1>4 DEF YankTextObject, found, object, CutText
  <2> HIDE DEF from, to
  <2>6. Good(b, Move(Cut(b, from, to, TRUE), b.row, from)) /\ Took(b, Move(Cut(b, from, to, TRUE), b.row, from))
    BY <2>3, CutGood, CutTook DEF line
  <2>7. Killed(b, CutText(b, from, to)) \in Seq(EditorText)
    BY <2>3, CutIs
  <2>8. PushKill(b, CutText(b, from, to)) = Kept(b, b.lines, b.row, b.col, Killed(b, CutText(b, from, to)))
    BY OfBuffers
  <2>9. Move(PushKill(b, CutText(b, from, to)), b.row, from)
          = Kept(b, b.lines, b.row, from, Killed(b, CutText(b, from, to)))
    BY <2>8, OfKept
  <2>10. Good(b, Move(PushKill(b, CutText(b, from, to)), b.row, from))
    BY <1>1, <2>3, <2>7, <2>9, KeptGood
  <2> QED
    BY <2>4, <2>5, <2>6, <2>10
<1> QED
  BY <1>3, <1>4

-----------------------------------------------------------------------------
(* The line editor: the calls a key ends in                                *)

InLineKills == {"killToStart", "deleteWordForward", "deleteToEndOfLine", "changeWord"}

\* The methods that take no argument: each leaves a buffer, and all but an undo record once.
LEMMA PlainGood ==
  ASSUME NEW b \in EdBuffers, NEW method
  PROVE  /\ Plain(b, method) \in EdBuffers
         /\ method # "undo" => Good(b, Plain(b, method))
<1>1. b.row \in Nat /\ b.row - 1 \in Int /\ b.row + 1 \in Int
  BY BufferParts
<1>2. /\ Good(b, CursorLeft(b)) /\ Good(b, CursorRight(b)) /\ Good(b, Home(b)) /\ Good(b, End(b))
      /\ Good(b, Move(b, 1, 0)) /\ Good(b, Move(b, Len(b.lines), 0))
      /\ Good(b, CursorToRow(b, b.row - 1)) /\ Good(b, CursorToRow(b, b.row + 1))
  BY <1>1, MovesGood
<1>3. Good(b, WordLeft(b)) /\ Good(b, WordRight(b)) /\ Good(b, WordEndForward(b))
  BY WordsGood, WordEndGood
<1>4. Good(b, InsertText(b, NewLine))
  BY TextIs, InsertTextIs
<1>5. Good(b, Backspace(b)) /\ Good(b, DeleteWordBackward(b)) /\ Good(b, ToggleCase(b))
      /\ \A style : Good(b, TransformWord(b, style))
  BY BackspaceGood, DeleteWordBackwardGood, ToggleCaseGood, TransformWordGood
<1>6. /\ Good(b, DeleteToEndOfLine(b)) /\ Good(b, KillToStart(b)) /\ Good(b, DeleteChar(b))
      /\ Good(b, DeleteWordForward(b)) /\ Good(b, ChangeWord(b)) /\ Good(b, KillLine(b))
  BY LineKills, KillLineIs
<1>7. /\ Good(b, Yank(b)) /\ Good(b, Paste(b, b.row)) /\ Good(b, Paste(b, b.row + 1))
      /\ Good(b, OpenLine(b, b.row)) /\ Good(b, OpenLine(b, b.row + 1))
  BY PutGood
<1>8. /\ Good(b, ChangeLine(b)) /\ Good(b, YankLine(b)) /\ Good(b, DeleteLine(b))
      /\ Good(b, JoinLines(b)) /\ Good(b, b)
  BY ChangeLineGood, DeleteLineGood, JoinLinesGood, SameGood
<1>9. method # "undo" => Good(b, Plain(b, method))
  BY <1>2, <1>3, <1>4, <1>5, <1>6, <1>7, <1>8 DEF Plain
<1>10. method = "undo" => Plain(b, method) = Undo(b)
  BY DEF Plain
<1> QED
  BY <1>9, <1>10, UndoIs DEF Good

\* Of these, what the kills take one yank puts back.
LEMMA PlainTook ==
  ASSUME NEW b \in EdBuffers
  PROVE  /\ \A method \in InLineKills : Took(b, Plain(b, method))
         /\ CursorInside(b) => Took(b, Plain(b, "killLine"))
<1>1. Plain(b, "killLine") = KillLine(b)
  BY DEF Plain
<1>2. /\ Plain(b, "killToStart") = KillToStart(b) /\ Plain(b, "deleteWordForward") = DeleteWordForward(b)
      /\ Plain(b, "deleteToEndOfLine") = DeleteToEndOfLine(b) /\ Plain(b, "changeWord") = ChangeWord(b)
  BY DEF Plain
<1>3. CursorInside(b) => Took(b, KillLine(b))
  BY KillLineIs
<1>4. /\ Took(b, KillToStart(b)) /\ Took(b, DeleteWordForward(b))
      /\ Took(b, DeleteToEndOfLine(b)) /\ Took(b, ChangeWord(b))
  BY LineKills
<1>5. \A method \in InLineKills : Took(b, Plain(b, method))
  BY <1>2, <1>4 DEF InLineKills
<1> QED
  BY <1>1, <1>3, <1>5

\* Where the values of a table of keys are.
Into(f, S) == \A x \in DOMAIN f : f[x] \in S
CommandMethods ==
  {"cursorLeft", "cursorDown", "cursorUp", "cursorRight", "wordRight", "wordEndForward", "wordLeft",
   "home", "end", "gotoBottom", "pasteAfter", "pasteBefore", "deleteChar", "undo", "toggleCase",
   "deleteToEndOfLine", "joinLines", "noop", "appendNewlineBelow", "newlineAbove"}
SelectionMethods ==
  {"deleteSelectionLines", "deleteSelection", "yankSelectionLines", "yankSelection"}
OtherMethods ==
  {"gotoTop", "yankTextObject", "deleteTextObject", "replaceChar", "deleteLine", "deleteWordForward",
   "yankLine", "changeLine", "changeWord"}
VimMethods == CommandMethods \cup OtherMethods \cup SelectionMethods
VimModes == {"off", "normal", "insert", "visual", "visual-line"}
Visual == {"visual", "visual-line"}

\* A selection has an anchor.
VimStates ==
  {v \in [mode : VimModes, op : Operators \cup {""}, object : {"", "i", "a"}, anchor : Place] :
     v.mode \in Visual => v.anchor.row # 0}

\* The methods that the keys of vim stand for.
LEMMA TablesAre ==
  /\ Into(Motion, CommandMethods)
  /\ Into(NormalCommand, CommandMethods)
  /\ Into(InsertCommand, CommandMethods)
<1>1. Into(Motion, CommandMethods)
  BY DEF Into, Motion, CommandMethods
<1>2. Into(NormalCommand, CommandMethods)
  <2>1. ASSUME NEW key \in DOMAIN NormalCommand, key \in DOMAIN Motion
        PROVE  NormalCommand[key] \in CommandMethods
    <3>1. NormalCommand[key] = Motion[key]
      BY <2>1 DEF NormalCommand, Motion
    <3> QED
      BY <1>1, <2>1, <3>1 DEF Into
  <2>2. ASSUME NEW key \in {"p", "P", "x", "u", "~", "D", "J"}
        PROVE  NormalCommand[key] \in CommandMethods
    BY DEF NormalCommand, Motion, CommandMethods
  <2>3. \A key \in DOMAIN NormalCommand : key \in DOMAIN Motion \/ key \in {"p", "P", "x", "u", "~", "D", "J"}
    BY DEF NormalCommand
  <2> QED
    BY <2>1, <2>2, <2>3 DEF Into
<1>3. Into(InsertCommand, CommandMethods)
  BY DEF Into, InsertCommand, CommandMethods
<1> QED
  BY <1>1, <1>2, <1>3

\* What a key makes of vim's state: the next one, whose anchor is the last one's,
\* the cursor or none, and a method, which takes a selection only if there is one.
Handled(vim, cursor, h) ==
  /\ h.vim \in VimStates /\ h.method \in VimMethods
  /\ h.method \in SelectionMethods => vim.anchor.row # 0
  /\ h.vim.anchor \in {vim.anchor, cursor, Cursor(0, 0)}

\* vim's state with nothing pending.
LEMMA VimIs ==
  /\ \A mode \in {"off", "normal", "insert"} : Vim(mode) \in VimStates
  /\ \A mode : Vim(mode).anchor = Cursor(0, 0)
  /\ Cursor(0, 0) \in Place
<1>1. Cursor(0, 0) \in Place
  BY DEF Cursor, Place
<1>2. \A mode : Vim(mode).anchor = Cursor(0, 0) /\ Vim(mode).mode = mode
  BY DEF Vim
<1>3. \A mode \in {"off", "normal", "insert"} : Vim(mode) \in VimStates
  BY <1>1 DEF Vim, VimStates, VimModes, Visual
<1> QED
  BY <1>1, <1>2, <1>3

LEMMA ResultIs ==
  ASSUME NEW vim, NEW cursor, NEW v \in VimStates, NEW m \in VimMethods \ SelectionMethods,
         v.anchor \in {vim.anchor, cursor, Cursor(0, 0)}
  PROVE  Handled(vim, cursor, VimResult(v, m))
BY DEF Handled, VimResult

\* A key with nothing pending, one in a visual mode, and any key.
LEMMA FreshKeyIs ==
  ASSUME NEW vim, NEW v \in VimStates, v.anchor \in {vim.anchor, Cursor(0, 0)}, NEW key,
         NEW cursor \in Place, cursor.row # 0
  PROVE  Handled(vim, cursor, FreshKey(v, key, cursor))
<1>1. \A m \in CommandMethods : m \in VimMethods \ SelectionMethods
  BY DEF CommandMethods, VimMethods, SelectionMethods
<1>2. "noop" \in VimMethods \ SelectionMethods
  BY DEF CommandMethods, VimMethods, SelectionMethods
<1>3. CASE key \in DOMAIN NormalCommand
  <2>1. NormalCommand[key] \in CommandMethods
    BY <1>3, TablesAre DEF Into
  <2>2. FreshKey(v, key, cursor) = VimResult(v, NormalCommand[key])
    BY <1>3 DEF FreshKey
  <2> QED
    BY <1>1, <2>1, <2>2, ResultIs
<1>4. CASE key \notin DOMAIN NormalCommand /\ key \in DOMAIN InsertCommand
  <2>1. InsertCommand[key] \in CommandMethods
    BY <1>4, TablesAre DEF Into
  <2>2. FreshKey(v, key, cursor) = VimResult(Vim("insert"), InsertCommand[key])
    BY <1>4 DEF FreshKey
  <2> QED
    BY <1>1, <2>1, <2>2, VimIs, ResultIs
<1>5. CASE key \notin DOMAIN NormalCommand /\ key \notin DOMAIN InsertCommand /\ key \in Operators
  <2> DEFINE w == [Vim("normal") EXCEPT !.op = key]
  <2>1. w \in VimStates /\ w.anchor = Cursor(0, 0)
    BY <1>5, VimIs DEF Vim, VimStates, VimModes, Visual
  <2>2. FreshKey(v, key, cursor) = VimResult(w, "noop")
    BY <1>5 DEF FreshKey
  <2> HIDE DEF w
  <2> QED
    BY <1>2, <2>1, <2>2, ResultIs
<1>6. CASE /\ key \notin DOMAIN NormalCommand /\ key \notin DOMAIN InsertCommand /\ key \notin Operators
  <2> DEFINE w(mode) == [Vim(mode) EXCEPT !.anchor = cursor]
  <2>1. ASSUME NEW mode \in Visual PROVE w(mode) \in VimStates /\ w(mode).anchor = cursor
    BY VimIs DEF Vim, VimStates, VimModes, Visual
  <2>2. "visual" \in Visual /\ "visual-line" \in Visual
    BY DEF Visual
  <2>3. FreshKey(v, key, cursor) = IF key = "v" THEN VimResult(w("visual"), "noop")
          ELSE IF key = "V" THEN VimResult(w("visual-line"), "noop") ELSE VimResult(v, "noop")
    BY <1>6 DEF FreshKey
  <2> HIDE DEF w
  <2>4. /\ Handled(vim, cursor, VimResult(w("visual"), "noop"))
        /\ Handled(vim, cursor, VimResult(w("visual-line"), "noop"))
    BY <1>2, <2>1, <2>2, ResultIs
  <2>5. Handled(vim, cursor, VimResult(v, "noop"))
    BY <1>2, ResultIs
  <2> QED
    BY <2>3, <2>4, <2>5
<1> QED
  BY <1>3, <1>4, <1>5, <1>6

LEMMA VisualKeyIs ==
  ASSUME NEW vim \in VimStates, vim.mode \in Visual, NEW key, NEW cursor
  PROVE  Handled(vim, cursor, VisualKey(vim, key))
<1> DEFINE stay == [vim EXCEPT !.op = ""]
           going == [stay EXCEPT !.op = "g"]
<1>1. vim.anchor.row # 0
  BY DEF VimStates
<1>2. stay \in VimStates /\ stay.anchor = vim.anchor
  BY DEF VimStates
<1>3. going \in VimStates /\ going.anchor = vim.anchor
  <2> HIDE DEF stay
  <2> QED
    BY <1>2 DEF VimStates, Operators
<1> HIDE DEF going, stay
<1>4. \A m \in SelectionMethods : Handled(vim, cursor, VimResult(Vim("normal"), m))
  BY <1>1, VimIs DEF Handled, VimResult, VimMethods
<1>5. \A m \in CommandMethods \cup {"gotoTop"} : m \in VimMethods \ SelectionMethods
  BY DEF CommandMethods, VimMethods, OtherMethods, SelectionMethods
<1>6. "noop" \in CommandMethods
  BY DEF CommandMethods
<1>7. key \in DOMAIN Motion => Handled(vim, cursor, VimResult(stay, Motion[key]))
  BY <1>2, <1>5, TablesAre, ResultIs DEF Into
<1>8. Handled(vim, cursor, VimResult(stay, "gotoTop"))
  BY <1>2, <1>5, ResultIs
<1>9. Handled(vim, cursor, VimResult(going, "noop"))
  BY <1>3, <1>5, <1>6, ResultIs
<1>10. Handled(vim, cursor, VimResult(vim, "noop"))
  BY <1>5, <1>6, ResultIs
<1>11. /\ Handled(vim, cursor, VimResult(Vim("normal"), "deleteSelectionLines"))
       /\ Handled(vim, cursor, VimResult(Vim("normal"), "deleteSelection"))
       /\ Handled(vim, cursor, VimResult(Vim("normal"), "yankSelectionLines"))
       /\ Handled(vim, cursor, VimResult(Vim("normal"), "yankSelection"))
  BY <1>4 DEF SelectionMethods
<1> HIDE DEF stay, going
<1> QED
  BY <1>7, <1>8, <1>9, <1>10, <1>11 DEF VisualKey, stay, going

LEMMA HandledIs ==
  ASSUME NEW vim \in VimStates, NEW key, NEW cursor \in Place, cursor.row # 0
  PROVE  Handled(vim, cursor, HandleVimKey(vim, key, cursor))
<1>1. CASE vim.mode \in Visual
  BY <1>1, VisualKeyIs DEF HandleVimKey, Visual
<1> DEFINE fresh == FreshKey(Vim("normal"), key, cursor)
<1>2. Handled(vim, cursor, fresh)
  BY VimIs, FreshKeyIs
<1>3. \A m \in OtherMethods \cup {"noop"} : m \in VimMethods \ SelectionMethods
  BY DEF CommandMethods, VimMethods, OtherMethods, SelectionMethods
<1>4. \A mode \in {"insert", "normal"}, m \in OtherMethods : Handled(vim, cursor, VimResult(Vim(mode), m))
  BY <1>3, VimIs, ResultIs
<1> HIDE DEF fresh
<1>5. CASE vim.mode \notin Visual /\ vim.object # ""
  <2> DEFINE done == VimResult(Vim(IF vim.op = "c" THEN "insert" ELSE "normal"),
                               IF vim.op = "y" THEN "yankTextObject" ELSE "deleteTextObject")
  <2>1. Handled(vim, cursor, done)
    BY <1>4 DEF OtherMethods
  <2>2. HandleVimKey(vim, key, cursor) = IF key \in Targets THEN done ELSE fresh
    BY <1>5 DEF HandleVimKey, Visual, fresh
  <2> HIDE DEF done
  <2> QED
    BY <1>2, <2>1, <2>2
<1>6. CASE vim.mode \notin Visual /\ vim.object = "" /\ vim.op = "r"
  <2>1. HandleVimKey(vim, key, cursor) = VimResult(Vim("normal"), "replaceChar")
    BY <1>6 DEF HandleVimKey, Visual
  <2> QED
    BY <1>4, <2>1 DEF OtherMethods
<1>7. CASE vim.mode \notin Visual /\ vim.object = "" /\ vim.op # "r" /\ Operated(vim.op, key) # {}
  <2> DEFINE done == CHOOSE o \in Operated(vim.op, key) : TRUE
  <2>1. done \in Operated(vim.op, key)
    BY <1>7
  <2>2. HandleVimKey(vim, key, cursor) = VimResult(Vim(done.mode), done.method)
    BY <1>7 DEF HandleVimKey, Visual
  <2> HIDE DEF done
  <2>3. done.mode \in {"insert", "normal"} /\ done.method \in OtherMethods
    BY <2>1 DEF Operated, OtherMethods
  <2> QED
    BY <1>4, <2>2, <2>3
<1>8. CASE vim.mode \notin Visual /\ vim.object = "" /\ vim.op # "r" /\ Operated(vim.op, key) = {}
  <2> DEFINE w == [vim EXCEPT !.object = key]
  <2>1. ASSUME key \in {"i", "a"} PROVE Handled(vim, cursor, VimResult(w, "noop"))
    <3>1. w \in VimStates /\ w.anchor = vim.anchor
      BY <2>1 DEF VimStates
    <3> HIDE DEF w
    <3> QED
      BY <1>3, <3>1, ResultIs
  <2>2. HandleVimKey(vim, key, cursor)
          = IF vim.op \in {"d", "y", "c"} /\ key \in {"i", "a"} THEN VimResult(w, "noop") ELSE fresh
    BY <1>8 DEF HandleVimKey, Visual, fresh
  <2> HIDE DEF w
  <2> QED
    BY <1>2, <2>1, <2>2
<1> QED
  BY <1>1, <1>5, <1>6, <1>7, <1>8

\* What a method that vim asks for does: every change but an undo's records, and
\* a kill can be put back.
LEMMA ApplyIs ==
  ASSUME NEW b \in EdBuffers, NEW vim \in VimStates, NEW key, NEW m \in VimMethods,
         m \in SelectionMethods => vim.anchor.row # 0
  PROVE  /\ ApplyVim(b, m, vim, key) \in EdBuffers
         /\ m # "undo" => Good(b, ApplyVim(b, m, vim, key))
         /\ m \in CharacterKills /\ AnchorInside(b, vim.anchor) /\ CursorInside(b)
              => Took(b, ApplyVim(b, m, vim, key))
         /\ m = "noop" => ApplyVim(b, m, vim, key) = b
<1> DEFINE c == ApplyVim(b, m, vim, key)
<1>1. vim.anchor \in Place
  BY DEF VimStates
<1>2. CASE m \in {"deleteSelection", "yankSelection"}
  <2>1. c = IF m = "deleteSelection" THEN DeleteSelection(b, vim.anchor) ELSE YankSelection(b, vim.anchor)
    BY <1>2 DEF ApplyVim
  <2>2. vim.anchor.row # 0
    BY <1>2 DEF SelectionMethods
  <2>3. /\ Good(b, DeleteSelection(b, vim.anchor)) /\ Good(b, YankSelection(b, vim.anchor))
        /\ AnchorInside(b, vim.anchor) /\ CursorInside(b) => Took(b, DeleteSelection(b, vim.anchor))
    BY <1>1, <2>2, DeleteSelectionIs, YankSelectionGood
  <2>4. "yankSelection" \notin CharacterKills
    BY DEF CharacterKills
  <2> HIDE DEF c
  <2>5. Good(b, c) /\ (m \in CharacterKills /\ AnchorInside(b, vim.anchor) /\ CursorInside(b) => Took(b, c))
    BY <1>2, <2>1, <2>3, <2>4
  <2>6. c \in EdBuffers /\ m # "noop"
    BY <1>2, <2>5 DEF Good
  <2> QED
    BY <2>5, <2>6 DEF c
<1>3. CASE m \in {"deleteSelectionLines", "yankSelectionLines"}
  <2>1. c = IF m = "deleteSelectionLines" THEN DeleteSelectionLines(b, vim.anchor)
                                          ELSE YankSelectionLines(b, vim.anchor)
    BY <1>3 DEF ApplyVim
  <2>2. vim.anchor.row # 0
    BY <1>3 DEF SelectionMethods
  <2>3. Good(b, DeleteSelectionLines(b, vim.anchor)) /\ Good(b, YankSelectionLines(b, vim.anchor))
    BY <1>1, <2>2, RowsGood
  <2>4. m \notin CharacterKills /\ m # "noop"
    BY <1>3 DEF CharacterKills
  <2> HIDE DEF c
  <2>5. Good(b, c)
    BY <2>1, <2>3
  <2>6. c \in EdBuffers
    BY <2>5 DEF Good
  <2> QED
    BY <2>4, <2>5, <2>6 DEF c
<1>4. CASE m \in {"deleteTextObject", "yankTextObject"}
  <2>1. c = IF m = "deleteTextObject" THEN DeleteTextObject(b, vim.object, key)
                                      ELSE YankTextObject(b, vim.object, key)
    BY <1>4 DEF ApplyVim
  <2>2. /\ Good(b, DeleteTextObject(b, vim.object, key)) /\ Took(b, DeleteTextObject(b, vim.object, key))
        /\ Good(b, YankTextObject(b, vim.object, key))
    BY TextObjectsIs
  <2>3. m # "noop" /\ "yankTextObject" \notin CharacterKills
    BY <1>4 DEF CharacterKills
  <2> HIDE DEF c
  <2>4. Good(b, c) /\ (m \in CharacterKills => Took(b, c))
    BY <1>4, <2>1, <2>2, <2>3
  <2>5. c \in EdBuffers
    BY <2>4 DEF Good
  <2> QED
    BY <2>3, <2>4, <2>5 DEF c
<1>5. CASE m = "replaceChar"
  <2> DEFINE char == IF key \in {"q", "("} THEN key ELSE "a"
  <2>1. char \in Grapheme
    BY DEF Grapheme
  <2>2. c = ReplaceChar(b, char) /\ m \notin CharacterKills /\ m # "noop"
    BY <1>5 DEF ApplyVim, CharacterKills
  <2> HIDE DEF char, c
  <2>3. Good(b, c)
    BY <2>1, <2>2, ReplaceGood
  <2>4. c \in EdBuffers
    BY <2>3 DEF Good
  <2> QED
    BY <2>2, <2>3, <2>4 DEF c
<1>6. CASE m \notin {"deleteSelection", "yankSelection", "deleteSelectionLines", "yankSelectionLines",
                     "deleteTextObject", "yankTextObject", "replaceChar"}
  <2>1. c = Plain(b, m)
    BY <1>6 DEF ApplyVim
  <2>2. m \in CharacterKills => m \in InLineKills \/ m = "killLine"
    BY <1>6 DEF CharacterKills, InLineKills
  <2>3. Plain(b, "noop") = b
    BY DEF Plain
  <2> HIDE DEF c
  <2>4. c \in EdBuffers /\ (m # "undo" => Good(b, c))
    BY <2>1, PlainGood
  <2>5. m \in CharacterKills /\ CursorInside(b) => Took(b, c)
    BY <2>1, <2>2, PlainTook
  <2> QED
    BY <2>1, <2>3, <2>4, <2>5 DEF c
<1> QED
  BY <1>2, <1>3, <1>4, <1>5, <1>6

-----------------------------------------------------------------------------
(* The line editor: a sequence of keys through vim                         *)

FedStates == [vim : VimStates, buffer : EdBuffers, did : Seq(VimMethods)]

\* What is known of the buffer after the keys fed so far: the first one's while no
\* method has been called, and what the only method made of it after one.
Sound(b, v, fed) ==
  LET inside == AnchorInside(b, v.anchor) /\ CursorInside(b)
  IN  /\ fed.did = <<>> => fed.buffer = b /\ (inside => AnchorInside(b, fed.vim.anchor))
      /\ Len(fed.did) = 1 =>
           /\ fed.did[1] # "undo" => Good(b, fed.buffer)
           /\ fed.did[1] \in CharacterKills /\ inside => Took(b, fed.buffer)

\* One key more.
LEMMA FedKeyIs ==
  ASSUME NEW b \in EdBuffers, NEW v \in VimStates, NEW fed \in FedStates, Sound(b, v, fed), NEW key
  PROVE  FedKey(fed, key) \in FedStates /\ Sound(b, v, FedKey(fed, key))
<1> DEFINE cursor == Cursor(fed.buffer.row, fed.buffer.col)
           h == HandleVimKey(fed.vim, key, cursor)
           c == ApplyVim(fed.buffer, h.method, fed.vim, key)
           did == IF h.method = "noop" THEN fed.did ELSE Append(fed.did, h.method)
           next == FedKey(fed, key)
           inside == AnchorInside(b, v.anchor) /\ CursorInside(b)
<1>1. fed.vim \in VimStates /\ fed.buffer \in EdBuffers /\ fed.did \in Seq(VimMethods)
  BY DEF FedStates
<1>2. /\ cursor \in Place /\ cursor.row # 0
      /\ cursor.row = fed.buffer.row /\ cursor.col = fed.buffer.col
  BY <1>1, BufferParts DEF Cursor, Place
<1>3. next = [vim |-> h.vim, buffer |-> c, did |-> did]
  BY DEF FedKey
<1> HIDE DEF next, cursor
<1>4. Handled(fed.vim, cursor, h)
  BY <1>1, <1>2, HandledIs
<1> HIDE DEF h
<1>5. /\ h.vim \in VimStates /\ h.method \in VimMethods
      /\ h.method \in SelectionMethods => fed.vim.anchor.row # 0
      /\ h.vim.anchor \in {fed.vim.anchor, cursor, Cursor(0, 0)}
  BY <1>4 DEF Handled
<1>6. /\ c \in EdBuffers
      /\ h.method # "undo" => Good(fed.buffer, c)
      /\ h.method \in CharacterKills /\ AnchorInside(fed.buffer, fed.vim.anchor) /\ CursorInside(fed.buffer)
           => Took(fed.buffer, c)
      /\ h.method = "noop" => c = fed.buffer
  BY <1>1, <1>5, ApplyIs
<1>7. did \in Seq(VimMethods)
  BY <1>1, <1>5
<1>8. /\ fed.did = <<>> => fed.buffer = b /\ (inside => AnchorInside(b, fed.vim.anchor))
      /\ Len(fed.did) = 1 => /\ fed.did[1] # "undo" => Good(b, fed.buffer)
                             /\ fed.did[1] \in CharacterKills /\ inside => Took(b, fed.buffer)
  BY DEF Sound
<1>9. CASE h.method = "noop"
  <2>1. did = fed.did /\ c = fed.buffer
    BY <1>6, <1>9
  <2>2. ASSUME fed.did = <<>>, inside PROVE AnchorInside(b, h.vim.anchor)
    <3>1. fed.buffer = b /\ AnchorInside(b, fed.vim.anchor)
      BY <1>8, <2>2
    <3>2. cursor.row \in DOMAIN b.lines /\ cursor.col <= Len(b.lines[cursor.row])
      BY <1>2, <2>2, <3>1, BufferParts DEF CursorInside, LineOf
    <3>3. AnchorInside(b, cursor)
      BY <3>2 DEF AnchorInside
    <3>4. AnchorInside(b, Cursor(0, 0))
      BY DEF AnchorInside, Cursor
    <3> QED
      BY <1>5, <3>1, <3>3, <3>4
  <2> HIDE DEF inside, did, c
  <2>3. /\ next.vim = h.vim /\ next.buffer = fed.buffer /\ next.did = fed.did
    BY <1>3, <2>1
  <2>4. Sound(b, v, next)
    BY <1>8, <2>2, <2>3 DEF Sound, inside
  <2>5. next \in FedStates
    BY <1>3, <1>5, <1>6, <1>7 DEF FedStates
  <2> QED
    BY <2>4, <2>5 DEF next
<1>10. CASE h.method # "noop"
  <2>1. did = Append(fed.did, h.method) /\ Len(did) = Len(fed.did) + 1 /\ did # <<>> /\ Len(fed.did) \in Nat
    BY <1>1, <1>5, <1>10
  <2>2. Len(fed.did) = 0 => fed.did = <<>> /\ did[1] = h.method
    BY <1>1, <1>5, <1>10
  <2> HIDE DEF inside, did, c
  <2>3. next.vim = h.vim /\ next.buffer = c /\ next.did = did
    BY <1>3
  <2>4. ASSUME Len(did) = 1
        PROVE  /\ did[1] # "undo" => Good(b, c)
               /\ did[1] \in CharacterKills /\ inside => Took(b, c)
    <3>1. Len(fed.did) = 0
      BY <2>1, <2>4
    <3>2. fed.did = <<>> /\ did[1] = h.method /\ fed.buffer = b /\ (inside => AnchorInside(b, fed.vim.anchor))
      BY <1>8, <2>2, <3>1
    <3>3. inside => CursorInside(b)
      BY DEF inside
    <3> QED
      BY <1>6, <3>2, <3>3
  <2>5. Sound(b, v, next)
    BY <2>1, <2>3, <2>4 DEF Sound, inside
  <2>6. next \in FedStates
    BY <1>3, <1>5, <1>6, <1>7 DEF FedStates
  <2> QED
    BY <2>5, <2>6 DEF next
<1> QED
  BY <1>9, <1>10

\* A function on 0..n may be given by its value at 0 and the step to each next one.
Stepwise(f, n, init, step) == \A i \in 0..n : f[i] = IF i = 0 THEN init ELSE step[<<i, f[i - 1]>>]
LEMMA Recursion ==
  ASSUME NEW n \in Nat, NEW S, NEW init \in S, NEW step \in [(1..n) \X S -> S]
  PROVE  \E f \in [0..n -> S] : Stepwise(f, n, init, step)
<1> DEFINE Obeys(f, k) == Stepwise(f, k, init, step)
           P == {k \in 0..n : \E f \in [0..k -> S] : Obeys(f, k)}
<1>1. 0 \in P
  <2>1. [i \in 0..0 |-> init] \in [0..0 -> S] /\ Obeys([i \in 0..0 |-> init], 0)
    BY DEF Stepwise
  <2> HIDE DEF Obeys
  <2>2. 0 \in 0..n
    OBVIOUS
  <2>3. \E f \in [0..0 -> S] : Obeys(f, 0)
    BY <2>1
  <2> QED
    BY <2>2, <2>3
<1>2. ASSUME NEW k \in 1..n, k - 1 \in P PROVE k \in P
  <2>1. PICK f \in [0..(k - 1) -> S] : Obeys(f, k - 1)
    BY <1>2
  <2> DEFINE g == [i \in 0..k |-> IF i = k THEN step[<<k, f[k - 1]>>] ELSE f[i]]
  <2>2. k - 1 \in 0..(k - 1) /\ f[k - 1] \in S
    OBVIOUS
  <2>3. step[<<k, f[k - 1]>>] \in S
    BY <2>2
  <2>4. \A i \in 0..k : i # k => i \in 0..(k - 1)
    OBVIOUS
  <2>5. g \in [0..k -> S]
    BY <2>3, <2>4
  <2>6. \A i \in 0..(k - 1) : g[i] = f[i]
    OBVIOUS
  <2>7. g[k] = step[<<k, f[k - 1]>>] /\ g[k - 1] = f[k - 1]
    BY <2>2, <2>6
  <2>8. ASSUME NEW i \in 0..k PROVE g[i] = IF i = 0 THEN init ELSE step[<<i, g[i - 1]>>]
    <3>1. CASE i = k
      <4>1. k # 0
        OBVIOUS
      <4> HIDE DEF g
      <4> QED
        BY <2>7, <3>1, <4>1
    <3>2. CASE i # k
      <4>1. i \in 0..(k - 1) /\ g[i] = f[i]
        BY <3>2
      <4>2. f[i] = IF i = 0 THEN init ELSE step[<<i, f[i - 1]>>]
        BY <2>1, <4>1 DEF Stepwise
      <4>3. i # 0 => i - 1 \in 0..(k - 1) /\ g[i - 1] = f[i - 1]
        BY <2>6, <4>1
      <4> HIDE DEF g
      <4> QED
        BY <4>1, <4>2, <4>3
    <3> QED
      BY <3>1, <3>2
  <2> HIDE DEF g
  <2>9. Obeys(g, k)
    BY <2>8 DEF Stepwise
  <2> HIDE DEF Obeys
  <2> QED
    BY <2>5, <2>9
<1> HIDE DEF P
<1>3. n \in P
  BY <1>1, <1>2, UpTo
<1> QED
  BY <1>3 DEF P

\* Before the first key.
LEMMA SoundFirst ==
  ASSUME NEW b \in EdBuffers, NEW v \in VimStates
  PROVE  LET start == [vim |-> v, buffer |-> b, did |-> <<>>]
         IN  start \in FedStates /\ Sound(b, v, start)
BY DEF FedStates, Sound

\* What holds of the start and of each key more holds of all keys.  FoldLeft stands on
\* a recursive function over sets of positions: f[k] is its value on those up to k,
\* so there is one.
LEMMA FedIn ==
  ASSUME NEW n \in Nat, NEW keys, DOMAIN keys = 1..n, NEW S, NEW start \in S,
         \A x \in S : \A key : FedKey(x, key) \in S
  PROVE  FoldLeft(FedKey, start, keys) \in S
<1> DEFINE D == SUBSET (1..n)
           Next1(g, s) == IF s = {} THEN start ELSE FedKey(g[s \ {Max(s)}], keys[Max(s)])
           Is(g) == g = [s \in D |-> Next1(g, s)]
           one == [s \in D |-> start]
           T == [D -> S]
           step == [x \in (1..n) \X T |->
                      [s \in D |-> IF x[1] \in s THEN FedKey(x[2][s \ {x[1]}], keys[x[1]]) ELSE x[2][s]]]
<1>1. one \in T
  OBVIOUS
<1>2. step \in [(1..n) \X T -> T]
  <2>1. ASSUME NEW x \in (1..n) \X T, NEW s \in D
        PROVE  (IF x[1] \in s THEN FedKey(x[2][s \ {x[1]}], keys[x[1]]) ELSE x[2][s]) \in S
    <3>1. s \ {x[1]} \in D /\ x[2] \in T
      OBVIOUS
    <3>2. x[2][s] \in S /\ x[2][s \ {x[1]}] \in S
      BY <3>1
    <3> QED
      BY <3>2
  <2>2. \A x \in (1..n) \X T : step[x] \in T
    BY <2>1
  <2> QED
    BY <2>2
<1>3. PICK f \in [0..n -> T] : Stepwise(f, n, one, step)
  <2> HIDE DEF step, T, one, D
  <2>1. \E f \in [0..n -> T] : Stepwise(f, n, one, step)
    BY ONLY n \in Nat, <1>1, <1>2, Recursion
  <2> QED
    BY <2>1
<1>4. \A s \in D : f[0][s] = start
  <2>1. f[0] = one
    <3> HIDE DEF step, T, one, D
    <3>1. 0 \in 0..n
      OBVIOUS
    <3> QED
      BY <1>3, <3>1 DEF Stepwise
  <2> QED
    BY <2>1
<1>5. ASSUME NEW k \in 1..n, NEW s \in D
      PROVE  f[k][s] = IF k \in s THEN FedKey(f[k - 1][s \ {k}], keys[k]) ELSE f[k - 1][s]
  <2>1. k \in 0..n /\ k # 0 /\ k - 1 \in 0..n
    OBVIOUS
  <2>2. f[k - 1] \in T
    <3> HIDE DEF T
    <3> QED
      BY <2>1
  <2>3. f[k] = step[<<k, f[k - 1]>>]
    <3> HIDE DEF step, T, one, D
    <3> QED
      BY <1>3, <2>1 DEF Stepwise
  <2>4. <<k, f[k - 1]>> \in (1..n) \X T
    BY <2>2
  <2> QED
    BY <2>3, <2>4
<1> HIDE DEF step, one
<1> DEFINE P == {k \in 0..n : \A m \in 0..k : \A s \in D : s \subseteq 1..m => f[k][s] = f[m][s]}
<1>6. 0 \in P
  OBVIOUS
<1>7. ASSUME NEW k \in 1..n, k - 1 \in P PROVE k \in P
  <2>1. ASSUME NEW m \in 0..k, NEW s \in D, s \subseteq 1..m PROVE f[k][s] = f[m][s]
    <3>1. CASE m = k
      BY <3>1
    <3>2. CASE m # k
      <4>1. m \in 0..(k - 1) /\ k \notin s
        BY <2>1, <3>2
      <4>2. f[k][s] = f[k - 1][s]
        BY <1>5, <4>1
      <4>3. f[k - 1][s] = f[m][s]
        BY <1>7, <2>1, <4>1
      <4> QED
        BY <4>2, <4>3
    <3> QED
      BY <3>1, <3>2
  <2>2. k \in 0..n
    OBVIOUS
  <2> QED
    BY <2>1, <2>2
<1>8. n \in P
  <2> HIDE DEF P
  <2>1. \A i \in 0..n : i \in P
    BY <1>6, <1>7, UpTo
  <2> QED
    BY <2>1
<1>8a. \A k \in 0..n : k \in P
  <2> HIDE DEF P
  <2> QED
    BY <1>6, <1>7, UpTo
<1>9. \A m \in 0..n : \A s \in D : s \subseteq 1..m => f[n][s] = f[m][s]
  BY <1>8
<1> HIDE DEF P
<1> DEFINE g == f[n]
<1>10. ASSUME NEW s \in D, s # {} PROVE Max(s) \in s /\ Max(s) \in 1..n /\ s \subseteq 1..Max(s)
                                       /\ s \ {Max(s)} \subseteq 1..(Max(s) - 1)
  <2>1. s \subseteq 0..n
    OBVIOUS
  <2>2. Max(s) \in s /\ \A y \in s : y <= Max(s)
    BY <1>10, <2>1, MaxIs
  <2> DEFINE x == Max(s)
  <2> HIDE DEF x
  <2>3. x \in s /\ \A y \in s : y <= x
    BY <2>2 DEF x
  <2>4. x \in 1..n /\ s \subseteq 1..x /\ s \ {x} \subseteq 1..(x - 1)
    BY <2>3
  <2> QED
    BY <2>3, <2>4 DEF x
<1>11. ASSUME NEW s \in D PROVE g[s] = Next1(g, s)
  <2>1. CASE s = {}
    <3>1. f[n][s] = f[0][s]
      BY <1>9, <2>1
    <3> QED
      BY <1>4, <2>1, <3>1
  <2>2. CASE s # {}
    <3> DEFINE x == Max(s)
               rest == s \ {x}
    <3>1. x \in s /\ x \in 1..n /\ s \subseteq 1..x /\ rest \subseteq 1..(x - 1)
      BY <1>10, <2>2
    <3> HIDE DEF x
    <3>2. x \in 0..n /\ x - 1 \in 0..n /\ rest \in D
      BY <3>1
    <3>3. f[n][s] = f[x][s] /\ f[n][rest] = f[x - 1][rest]
      BY <1>9, <3>1, <3>2
    <3>4. f[x][s] = FedKey(f[x - 1][rest], keys[x])
      BY <1>5, <3>1
    <3>5. g[s] = FedKey(g[rest], keys[x])
      BY <3>3, <3>4
    <3> QED
      BY <2>2, <3>5 DEF x
  <2> QED
    BY <2>1, <2>2
<1>12. Is(g)
  <2>1. g \in T
    <3> HIDE DEF T
    <3> QED
      BY n \in 0..n
  <2>2. g = [s \in D |-> g[s]]
    BY <2>1
  <2> HIDE DEF g, Next1
  <2> QED
    BY <1>11, <2>2
<1> DEFINE iter == CHOOSE h : Is(h)
<1>13. Is(iter)
  <2> HIDE DEF Is
  <2> QED
    BY <1>12
<1>15. FoldLeft(FedKey, start, keys) = iter[1..n]
  BY DEF FoldLeft, MapThenFoldSet
<1> HIDE DEF iter, g
<1>16. \A s \in D : iter[s] = Next1(iter, s)
  <2> HIDE DEF Next1
  <2> QED
    BY <1>13
<1> DEFINE Q == {i \in 0..n : iter[1..i] \in S}
<1>17. 0 \in Q
  <2>1. 1..0 = {} /\ {} \in D
    OBVIOUS
  <2>2. iter[{}] = start
    BY <1>16, <2>1
  <2> QED
    BY <2>1, <2>2
<1>18. ASSUME NEW i \in 1..n, i - 1 \in Q PROVE i \in Q
  <2> DEFINE s == 1..i
  <2>1. s \in D /\ s # {}
    <3>1. i \in s /\ \A y \in s : y \in 1..n
      OBVIOUS
    <3> HIDE DEF s
    <3> QED
      BY <3>1
  <2>2. Max(s) = i
    <3>1. Max(s) \in s /\ s \subseteq 1..Max(s)
      BY <1>10, <2>1
    <3> QED
      BY <3>1
  <2>3. s \ {i} = 1..(i - 1)
    OBVIOUS
  <2>4. iter[s] = FedKey(iter[s \ {Max(s)}], keys[Max(s)])
    BY <1>16, <2>1
  <2> HIDE DEF s
  <2>5. iter[s] = FedKey(iter[1..(i - 1)], keys[i])
    BY <2>2, <2>3, <2>4
  <2>6. iter[s] \in S
    BY <1>18, <2>5
  <2> QED
    BY <2>6 DEF s
<1>19. n \in Q
  <2> HIDE DEF Q
  <2>1. \A i \in 0..n : i \in Q
    BY <1>17, <1>18, UpTo
  <2> QED
    BY <2>1
<1> QED
  BY <1>15, <1>19

\* Keys after each other.
LEMMA FedIs ==
  ASSUME NEW keys, Len(keys) \in Nat, DOMAIN keys = 1..Len(keys), edBuffer \in EdBuffers, edVim \in VimStates
  PROVE  Fed(keys) \in FedStates /\ Sound(edBuffer, edVim, Fed(keys))
<1> DEFINE start == [vim |-> edVim, buffer |-> edBuffer, did |-> <<>>]
           S == {fed \in FedStates : Sound(edBuffer, edVim, fed)}
<1>1. start \in S
  BY SoundFirst
<1>2. \A x \in S : \A key : FedKey(x, key) \in S
  BY FedKeyIs
<1>3. Fed(keys) \in {start, FoldLeft(FedKey, start, keys)}
  BY DEF Fed
<1> HIDE DEF start, S
<1>4. FoldLeft(FedKey, start, keys) \in S
  BY <1>1, <1>2, FedIn
<1>5. Fed(keys) \in S
  BY <1>1, <1>3, <1>4
<1> QED
  BY <1>5 DEF S

-----------------------------------------------------------------------------
(* The line editor: its steps                                              *)

EdInv ==
  /\ edBuffer \in EdBuffers /\ edVim \in VimStates
  /\ edHistory \in Seq(EditorText) /\ edRecalled \in Nat

\* What a key must do: the editor stays well-formed and no text is lost.
EdStep == EdInv' /\ UndoTakesBack /\ KillsComeBack

\* The start.
LEMMA EditorStartsWell ==
  ASSUME EditorInit
  PROVE  EdInv
<1>1. PICK start \in EditorStarts :
        edBuffer = [lines |-> start.lines, row |-> start.row, col |-> start.col,
                    undo |-> <<>>, kills |-> <<>>]
  BY DEF EditorInit
<1>2. /\ start.lines \in EditorText /\ start.row \in Nat /\ start.col \in Nat
      /\ start.row \in DOMAIN start.lines
  BY EditorAssumption
<1>3. edBuffer \in EdBuffers
  BY <1>1, <1>2 DEF EdBuffers
<1>4. edVim \in VimStates
  BY VimIs DEF EditorInit
<1> QED
  BY <1>3, <1>4 DEF EdInv, EditorInit

\* What a good method changed, one undo takes back.
LEMMA GoodTakesBack ==
  ASSUME EdInv, Good(edBuffer, edBuffer')
  PROVE  UndoTakesBack
<1>1. edBuffer \in EdBuffers
  BY DEF EdInv
<1>2. edBuffer' \in EdBuffers /\ (edBuffer'.lines # edBuffer.lines => edBuffer'.undo = Pushed(edBuffer))
  BY DEF Good, Records
<1>3. edBuffer'.undo = Pushed(edBuffer) => Snapshot(Undo(edBuffer')) = Snapshot(edBuffer)
  BY <1>1, <1>2, UndoIs
<1> QED
  BY <1>2, <1>3 DEF UndoTakesBack

\* A key that leaves the buffer alone loses nothing.
LEMMA TextsKept ==
  ASSUME edBuffer' = edBuffer
  PROVE  UndoTakesBack /\ KillsComeBack
BY DEF UndoTakesBack, KillsComeBack

\* The text a walk through the history shows.
LEMMA RecallIs ==
  ASSUME EdInv, NEW method
  PROVE  /\ RecallIndex(method) \in Nat
         /\ \A i \in Nat : HistoryText(i) \in EditorText
<1>1. edHistory \in Seq(EditorText) /\ edRecalled \in Nat /\ Len(edHistory) \in Nat
  BY DEF EdInv
<1>2. edRecalled - 1 \in Int /\ edRecalled + 1 \in Int /\ 0 \in Int /\ Len(edHistory) \in Int
  BY <1>1
<1>3. Max({0, edRecalled - 1}) = IF 0 <= edRecalled - 1 THEN edRecalled - 1 ELSE 0
  BY <1>2, MaxOfTwo
<1>4. Min({Len(edHistory), edRecalled + 1})
        = IF Len(edHistory) <= edRecalled + 1 THEN Len(edHistory) ELSE edRecalled + 1
  <2>1. edRecalled + 1 \in Nat
    BY <1>1
  <2> QED
    BY <1>1, <2>1, MinOfTwo
<1>5. Max({0, edRecalled - 1}) \in Nat
  BY <1>1, <1>3
<1>6. Min({Len(edHistory), edRecalled + 1}) \in Nat
  BY <1>1, <1>4
<1>7. RecallIndex(method) \in Nat
  BY <1>5, <1>6 DEF RecallIndex
<1>8. ASSUME NEW i \in Nat PROVE HistoryText(i) \in EditorText
  <2>1. i < Len(edHistory) => i + 1 \in 1..Len(edHistory)
    BY <1>1
  <2>2. i < Len(edHistory) => edHistory[i + 1] \in EditorText
    BY <1>1, <2>1
  <2> QED
    BY <2>2, TextIs DEF HistoryText
<1> QED
  BY <1>7, <1>8

\* What is sent through vim and the decoder: one change, or several.
LEMMA SendIs ==
  ASSUME EdInv, NEW keys, Len(keys) \in Nat, DOMAIN keys = 1..Len(keys), NEW method,
         Send(keys, method)
  PROVE  EdStep
<1> DEFINE fed == Fed(keys)
           did == fed.did \o (IF method = "noop" THEN <<>> ELSE <<method>>)
           inside == AnchorInside(edBuffer, edVim.anchor) /\ CursorInside(edBuffer)
<1>1. /\ edVim' = fed.vim
      /\ edRecalled' = IF Recalls(method) THEN RecallIndex(method) ELSE edRecalled
      /\ edBuffer' = IF Recalls(method) THEN SetText(fed.buffer, HistoryText(edRecalled'))
                                        ELSE Plain(fed.buffer, method)
      /\ edDid' = IF did = <<>> THEN "noop" ELSE IF Len(did) = 1 THEN Head(did) ELSE "several"
      /\ edHistory' = edHistory
  BY DEF Send
<1>2. edBuffer \in EdBuffers /\ edVim \in VimStates /\ edRecalled \in Nat /\ edHistory \in Seq(EditorText)
  BY DEF EdInv
<1>3. fed \in FedStates /\ Sound(edBuffer, edVim, fed)
  BY <1>2, FedIs
<1>4. fed.vim \in VimStates /\ fed.buffer \in EdBuffers /\ fed.did \in Seq(VimMethods)
  BY <1>3 DEF FedStates
<1> HIDE DEF fed
<1>5. edRecalled' \in Nat
  BY <1>1, <1>2, RecallIs
<1>6. HistoryText(edRecalled') \in EditorText
  BY <1>5, RecallIs
<1>7. edBuffer' \in EdBuffers /\ (method # "undo" => Good(fed.buffer, edBuffer'))
  <2>1. CASE Recalls(method)
    <3>1. Good(fed.buffer, edBuffer')
      BY <1>1, <1>4, <1>6, <2>1, SetTextGood
    <3> QED
      BY <3>1 DEF Good
  <2>2. CASE ~Recalls(method)
    BY <1>1, <1>4, <2>2, PlainGood
  <2> QED
    BY <2>1, <2>2
<1>8. EdInv'
  BY <1>1, <1>2, <1>4, <1>5, <1>7 DEF EdInv
<1>9. /\ fed.did = <<>> => fed.buffer = edBuffer
      /\ Len(fed.did) = 1 => /\ fed.did[1] # "undo" => Good(edBuffer, fed.buffer)
                             /\ fed.did[1] \in CharacterKills /\ inside => Took(edBuffer, fed.buffer)
  BY <1>3 DEF Sound
<1>10. (edDid' \in CharacterKills /\ inside => Took(edBuffer, edBuffer')) => KillsComeBack
  BY DEF KillsComeBack, Took
<1>11. "undo" \notin CharacterKills /\ "noop" \notin CharacterKills /\ "several" \notin CharacterKills
  BY DEF CharacterKills
<1> HIDE DEF inside
<1>12. CASE method = "noop"
  <2>1. ~Recalls(method) /\ Plain(fed.buffer, method) = fed.buffer
    BY <1>12 DEF Recalls, Plain
  <2>2. edBuffer' = fed.buffer /\ did = fed.did
    BY <1>1, <1>4, <1>12, <2>1
  <2> HIDE DEF did
  <2>3. CASE fed.did = <<>>
    <3>1. edBuffer' = edBuffer
      BY <1>9, <2>2, <2>3
    <3> QED
      BY <1>8, <3>1, TextsKept DEF EdStep
  <2>4. CASE fed.did # <<>> /\ Len(fed.did) = 1
    <3>1. edDid' = fed.did[1]
      BY <1>1, <1>4, <2>2, <2>4
    <3>2. fed.did[1] # "undo" => UndoTakesBack
      BY <1>9, <2>2, <2>4, GoodTakesBack
    <3>3. fed.did[1] = "undo" => UndoTakesBack
      BY <3>1 DEF UndoTakesBack
    <3>4. KillsComeBack
      BY <1>9, <1>10, <2>2, <2>4, <3>1
    <3> QED
      BY <1>8, <3>2, <3>3, <3>4 DEF EdStep
  <2>5. CASE fed.did # <<>> /\ Len(fed.did) # 1
    <3>1. edDid' = "several"
      BY <1>1, <2>2, <2>5
    <3> QED
      BY <1>8, <1>11, <3>1 DEF EdStep, UndoTakesBack, KillsComeBack
  <2> QED
    BY <2>3, <2>4, <2>5
<1>13. CASE method # "noop"
  <2>1. did = fed.did \o <<method>>
    BY <1>13
  <2> HIDE DEF did
  <2>2. CASE fed.did = <<>>
    <3>1. did = <<method>>
      BY <1>4, <2>1, <2>2
    <3>2. edDid' = method
      BY <1>1, <3>1
    <3>3. fed.buffer = edBuffer
      BY <1>9, <2>2
    <3>4. method # "undo" => UndoTakesBack
      BY <1>7, <3>3, GoodTakesBack
    <3>5. method = "undo" => UndoTakesBack
      BY <3>2 DEF UndoTakesBack
    <3>6. ASSUME method \in CharacterKills, inside PROVE Took(edBuffer, edBuffer')
      <4>1. ~Recalls(method)
        BY <3>6 DEF Recalls, CharacterKills
      <4>2. edBuffer' = Plain(edBuffer, method)
        BY <1>1, <3>3, <4>1
      <4>3. CASE method \in {"deleteSelection", "deleteTextObject"}
        <5>1. Plain(edBuffer, method) = edBuffer
          BY <4>3 DEF Plain
        <5> QED
          BY <4>2, <5>1 DEF Took
      <4>4. CASE method \notin {"deleteSelection", "deleteTextObject"}
        <5>1. method \in InLineKills \/ method = "killLine"
          BY <3>6, <4>4 DEF CharacterKills, InLineKills
        <5>2. CursorInside(edBuffer)
          BY <3>6 DEF inside
        <5> QED
          BY <1>2, <4>2, <5>1, <5>2, PlainTook
      <4> QED
        BY <4>3, <4>4
    <3>7. KillsComeBack
      BY <1>10, <3>2, <3>6
    <3> QED
      BY <1>8, <3>4, <3>5, <3>7 DEF EdStep
  <2>3. CASE fed.did # <<>>
    <3>2. Len(fed.did) \in Nat /\ Len(fed.did) # 0 /\ fed.did \in Seq(VimMethods \cup {method})
      BY <1>4, <2>3
    <3>3. <<method>> \in Seq(VimMethods \cup {method}) /\ Len(<<method>>) = 1
      OBVIOUS
    <3>4. Len(did) = Len(fed.did) + 1
      BY <2>1, <3>2, <3>3, ConcatProperties
    <3>5. did # <<>> /\ Len(did) # 1
      BY <3>2, <3>4
    <3>6. edDid' = "several"
      BY <1>1, <3>5
    <3> QED
      BY <1>8, <1>11, <3>6 DEF EdStep, UndoTakesBack, KillsComeBack
  <2> QED
    BY <2>2, <2>3
<1> QED
  BY <1>12, <1>13

\* Typing, pasting and completing.
LEMMA TypeTextIs ==
  ASSUME EdInv, NEW text \in PastedTexts, TypeText(text) \/ Complete(text)
  PROVE  EdStep
<1>1. text \in EditorText /\ edBuffer \in EdBuffers
  BY EditorAssumption DEF EdInv
<1>2. Good(edBuffer, edBuffer') /\ edDid' \in {"insertText", "applyCompletion"}
  BY <1>1, InsertTextIs, ApplyCompletionGood DEF TypeText, Complete
<1>3. edBuffer' \in EdBuffers
  BY <1>2 DEF Good
<1>4. EdInv'
  BY <1>3 DEF EdInv, TypeText, Complete
<1>5. edDid' \notin CharacterKills
  BY <1>2 DEF CharacterKills
<1> QED
  BY <1>2, <1>4, <1>5, GoodTakesBack DEF EdStep, KillsComeBack

\* What is submitted is a text.
LEMMA TrimmedIs ==
  ASSUME EdInv, Filled # {}
  PROVE  Trimmed \in EditorText
<1> DEFINE first == Min(Filled)
           last == Max(Filled)
           line(r) == edBuffer.lines[first + r - 1]
           from(r) == IF r = 1 THEN EndOfSpace(line(r), 0) ELSE 0
           to(r) == IF first + r - 1 = last THEN StartOfSpace(line(r), Len(line(r))) ELSE Len(line(r))
           n == last - first + 1
<1>1. edBuffer \in EdBuffers
  BY DEF EdInv
<1>2. Len(edBuffer.lines) \in Nat /\ edBuffer.lines \in Seq(EdLine)
  BY <1>1, BufferParts
<1>3. Filled \subseteq 1..Len(edBuffer.lines)
  BY <1>2 DEF Filled
<1>4. Filled \subseteq Nat /\ Filled \subseteq 0..Len(edBuffer.lines)
  BY <1>2, <1>3
<1>5. first \in Filled /\ \A y \in Filled : first <= y
  BY <1>4, MinIs
<1>6. last \in Filled
  BY <1>2, <1>4, MaxIs
<1>7. Trimmed = [r \in 1..n |-> Part(line(r), from(r), to(r))]
  BY DEF Trimmed
<1> HIDE DEF first, last
<1>8. first \in 1..Len(edBuffer.lines) /\ last \in 1..Len(edBuffer.lines) /\ first <= last
  BY <1>3, <1>5, <1>6
<1>9. n \in Nat \ {0}
  BY <1>2, <1>8
<1>10. ASSUME NEW r \in 1..n PROVE Part(line(r), from(r), to(r)) \in EdLine
  <2>1. first + r - 1 \in 1..Len(edBuffer.lines)
    BY <1>2, <1>8
  <2>2. line(r) \in EdLine /\ Len(line(r)) \in Nat
    BY <1>1, <2>1, LineIs
  <2> HIDE DEF line
  <2>3. EndOfSpace(line(r), 0) \in Nat
    <3>1. EndOfSpace(line(r), 0) \in 0..(IF 0 <= Len(line(r)) THEN Len(line(r)) ELSE 0)
      BY <2>2, EndIs
    <3> QED
      BY <2>2, <3>1
  <2>4. StartOfSpace(line(r), Len(line(r))) \in Nat
    BY <2>2, StartIs
  <2>5. from(r) \in Nat /\ to(r) \in Nat
    BY <2>2, <2>3, <2>4
  <2> HIDE DEF from, to
  <2> QED
    BY <2>2, <2>5, PartTypes
<1> HIDE DEF line, from, to, n
<1>11. Trimmed \in [1..n -> EdLine]
  BY <1>7, <1>10
<1>12. Trimmed \in Seq(EdLine) /\ Len(Trimmed) = n
  BY <1>9, <1>11
<1> QED
  BY <1>9, <1>12, TextIs

\* Enter: the text goes to the history, and one undo brings it back.
LEMMA SubmitLineIs ==
  ASSUME EdInv, SubmitLine
  PROVE  EdStep
<1>1. edBuffer \in EdBuffers /\ edHistory \in Seq(EditorText) /\ edVim \in VimStates
  BY DEF EdInv
<1>2. Trimmed \in EditorText /\ HistoryLimit \in Nat \ {0}
  BY TrimmedIs, EditorAssumption DEF SubmitLine
<1>3. edHistory' = Latest(edHistory, Trimmed, HistoryLimit)
  BY DEF SubmitLine, Latest
<1>4. edHistory' \in Seq(EditorText)
  <2> DEFINE S == EditorText
  <2>1. edHistory \in Seq(S) /\ Trimmed \in S
    BY <1>1, <1>2
  <2> HIDE DEF S
  <2>2. edHistory' \in Seq(S)
    BY <1>2, <1>3, <2>1, LastFew
  <2> QED
    BY <2>2 DEF S
<1>5. edRecalled' \in Nat
  BY <1>4 DEF SubmitLine
<1>6. edBuffer' = SetText(edBuffer, NoText)
  BY DEF SubmitLine, Clear
<1>7. Good(edBuffer, edBuffer')
  BY <1>1, <1>6, TextIs, SetTextGood
<1>8. edBuffer' \in EdBuffers
  BY <1>7 DEF Good
<1>9. EdInv'
  BY <1>1, <1>4, <1>5, <1>8 DEF EdInv, SubmitLine
<1>10. edDid' \notin CharacterKills
  BY DEF SubmitLine, CharacterKills
<1> QED
  BY <1>7, <1>9, <1>10, GoodTakesBack DEF EdStep, KillsComeBack

\* Esc and vim on or off.
LEMMA QuietIs ==
  ASSUME EdInv, Escape \/ ToggleVim \/ UNCHANGED editorVars
  PROVE  EdStep
<1>1. edBuffer' = edBuffer /\ edHistory' = edHistory /\ edRecalled' = edRecalled
  BY DEF Escape, ToggleVim, editorVars
<1>2. edVim' \in VimStates
  BY VimIs DEF EdInv, Escape, ToggleVim, editorVars
<1>3. EdInv'
  BY <1>1, <1>2 DEF EdInv
<1> QED
  BY <1>1, <1>3, TextsKept DEF EdStep

\* Every step.
LEMMA EditorSteps ==
  ASSUME EdInv, [EditorNext]_editorVars
  PROVE  EdStep
<1> DEFINE Sent(keys) == Len(keys) \in Nat /\ DOMAIN keys = 1..Len(keys)
<1>1. /\ Sent(<<>>) /\ \A key : Sent(<<key>>) /\ Sent(<<"[", key>>)
      /\ Sent(<<"[", "3", "~">>)
  OBVIOUS
<1>2. ASSUME NEW text \in PastedTexts, TypeText(text) \/ Complete(text) PROVE EdStep
  BY <1>2, TypeTextIs
<1>3. ASSUME NEW key \in VimKeys, VimKey(key) PROVE EdStep
  BY <1>1, <1>3, SendIs DEF VimKey
<1>4. ASSUME NEW key \in DOMAIN AltMethod, AltKey(key) PROVE EdStep
  BY <1>1, <1>4, SendIs DEF AltKey
<1>5. ASSUME NEW key \in DOMAIN ArrowMethod, ArrowKey(key) PROVE EdStep
  BY <1>1, <1>5, SendIs DEF ArrowKey
<1>6. ASSUME NEW method \in ControlMethods, ControlKey(method) PROVE EdStep
  BY <1>1, <1>6, SendIs DEF ControlKey
<1>7. CASE DeleteKey
  BY <1>1, <1>7, SendIs DEF DeleteKey
<1>8. CASE SubmitLine
  BY <1>8, SubmitLineIs
<1>9. CASE Escape \/ ToggleVim \/ UNCHANGED editorVars
  BY <1>9, QuietIs
<1> QED
  BY <1>2, <1>3, <1>4, <1>5, <1>6, <1>7, <1>8, <1>9 DEF EditorNext

\* One undo takes back what a key changed, and one yank brings back what it
\* killed, whatever the keys before it, for every text and every limit of the
\* stacks (editor.ts:83-655, app.ts:1320-1421).
THEOREM TextIsNotLost == EditorSpec => NoTextLost
<1>1. EditorInit => EdInv
  BY EditorStartsWell
<1>2. EdInv /\ [EditorNext]_editorVars => EdInv'
  BY EditorSteps DEF EdStep
<1>3. EdInv /\ [EditorNext]_editorVars => [UndoTakesBack /\ KillsComeBack]_editorVars
  BY EditorSteps DEF EdStep
<1> QED
  BY <1>1, <1>2, <1>3, PTL DEF EditorSpec, NoTextLost
=============================================================================
