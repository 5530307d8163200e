----------------------------- MODULE StoreProofs ------------------------------
(***************************************************************************)
(* Theorems about what several processes or callers share, for every value *)
(* of the constants: the session store, for any number of processes,       *)
(* mutations and deaths, until a lock is removed as dead under its holder; *)
(* shared sessions, for any users, commands, requests and orders of steps; *)
(* the tools that change and search the same files, for any calls of any   *)
(* number of callers; and the client chain the agents of a process share,  *)
(* for any callers, chain, threshold and limit.                            *)
(***************************************************************************)
EXTENDS SessionStore, Shares, FileTools, Resilience,
        SequenceTheorems, FiniteSetTheorems, WellFoundedInduction, TLAPS

-----------------------------------------------------------------------------
(* The session store: its lock excludes, and what was appended stays       *)

ProcPcs ==
  {"idle", "open", "judge", "preempt", "stamp", "repair", "truncate", "load", "write", "leaf",
   "release"}

Procs == [pc : ProcPcs, op : {"none", "append", "move", "meta", "failed"}, try : Nat,
          cut : Nat, id : Nat]
Locks == [owner : SessionProc \cup {Nobody}, stamped : BOOLEAN, dead : BOOLEAN]
Lines == [event : [type : {"entry", "leaf", "meta"}, id : Nat], whole : BOOLEAN, newline : BOOLEAN]

SessionTypeOK ==
  /\ sessProc \in [SessionProc -> Procs]
  /\ sessLock \in Locks
  /\ sessMutations \in Nat
  /\ sessFile \in Seq(Lines)

\* Without a theft, whoever is inside owns the lock file.
HoldersOwn == ~sessStolen => \A p \in Holders : sessLock.owner = p

SessionInv == SessionTypeOK /\ HoldersOwn

\* The invariant holds of the session as it is created.
LEMMA SessionInitInv == SessionInit => SessionInv
BY DEF SessionInit, SessionInv, SessionTypeOK, HoldersOwn, Holders, IdleProc, NoLock, EmptyLock,
       MetaEvent, Procs, ProcPcs, Locks, Lines

\* What an append leaves is a file of lines.
LEMMA AppendLineType ==
  ASSUME sessFile \in Seq(Lines), NEW event \in [type : {"entry", "leaf", "meta"}, id : Nat],
         NEW whole \in BOOLEAN, NEW newline \in BOOLEAN, AppendLine(event, whole, newline)
  PROVE  sessFile' \in Seq(Lines)
<1>1. CASE sessFile = <<>> \/ sessFile[Len(sessFile)].newline
  <2> DEFINE line == [event |-> event, whole |-> whole, newline |-> newline]
  <2>1. line \in Lines
    BY DEF Lines
  <2>2. sessFile' = Append(sessFile, line)
    BY <1>1 DEF AppendLine
  <2> HIDE DEF line
  <2> QED
    BY <2>1, <2>2
<1>2. CASE ~(sessFile = <<>> \/ sessFile[Len(sessFile)].newline)
  <2>1. Len(sessFile) \in 1..Len(sessFile) /\ sessFile[Len(sessFile)] \in Lines
    BY <1>2
  <2> DEFINE line == [[sessFile[Len(sessFile)] EXCEPT !.whole = FALSE] EXCEPT !.newline = newline]
  <2>2. line \in Lines
    BY <2>1 DEF Lines
  <2>3. sessFile' = [sessFile EXCEPT ![Len(sessFile)] = line]
    BY <1>2, <2>1 DEF AppendLine, Lines
  <2> HIDE DEF line
  <2> QED
    BY <2>1, <2>2, <2>3
<1> QED
  BY <1>1, <1>2

\* A first part of a file of lines is one, too.
LEMMA PrefixType ==
  ASSUME NEW lines \in Seq(Lines), NEW n \in Nat, n <= Len(lines)
  PROVE  SubSeq(lines, 1, n) \in Seq(Lines)
BY SubSeqProperties

\* What a process appends is an event.
LEMMA NextEventType ==
  ASSUME SessionTypeOK, NEW p \in SessionProc
  PROVE  NextEvent(p) \in [type : {"entry", "leaf", "meta"}, id : Nat]
BY DEF SessionTypeOK, NextEvent, LeafEvent, EntryEvent, MetaEvent, Procs

\* The ids of the entries are numbers.
LEMMA EntriesType ==
  ASSUME SessionTypeOK PROVE Entries \subseteq Nat
<1>1. \A i \in DOMAIN sessFile : sessFile[i] \in Lines
  BY DEF SessionTypeOK
<1>2. \A i \in DOMAIN sessFile : sessFile[i].event.id \in Nat
  BY <1>1 DEF Lines
<1>3. \A event \in SessionEvents : event.id \in Nat
  BY <1>2 DEF SessionEvents
<1> QED
  BY <1>3 DEF Entries

\* The records a process goes through.
LEMMA ProcUpdates ==
  ASSUME NEW proc \in Procs, NEW point \in ProcPcs, NEW n \in Nat
  PROVE  /\ proc.id \in Nat /\ proc.cut \in Nat /\ proc.try \in Nat
         /\ [proc EXCEPT !.pc = point, !.cut = n] \in Procs
         /\ [proc EXCEPT !.pc = point, !.id = n] \in Procs
         /\ [proc EXCEPT !.pc = point, !.op = "failed"] \in Procs
BY DEF Procs

\* A process that begins a mutation.
LEMMA NewMutation ==
  ASSUME NEW op \in {"append", "move", "meta"}, NEW n \in Nat
  PROVE  [IdleProc EXCEPT !.pc = "open", !.op = op, !.id = n] \in Procs
BY DEF IdleProc, Procs, ProcPcs

\* Whatever a process becomes, the others stay what they are.
LEMMA BecomeMoves ==
  ASSUME SessionTypeOK, NEW p \in SessionProc, NEW proc \in Procs, Become(p, proc)
  PROVE  /\ sessProc' \in [SessionProc -> Procs]
         /\ sessProc'[p] = proc
         /\ \A q \in SessionProc \ {p} : sessProc'[q] = sessProc[q]
BY DEF SessionTypeOK, Become

\* A process that only moves on to another point of its course.
LEMMA GotoMoves ==
  ASSUME SessionTypeOK, NEW p \in SessionProc, NEW point \in ProcPcs, Goto(p, point)
  PROVE  /\ sessProc' \in [SessionProc -> Procs]
         /\ sessProc'[p].pc = point
         /\ \A q \in SessionProc \ {p} : sessProc'[q] = sessProc[q]
<1>1. sessProc[p] \in Procs
  BY DEF SessionTypeOK
<1>2. [sessProc[p] EXCEPT !.pc = point] \in Procs /\ [sessProc[p] EXCEPT !.pc = point].pc = point
  BY <1>1 DEF Procs
<1> QED
  BY <1>2, BecomeMoves DEF Goto

\* A process that tries again, or returns.
LEMMA LeavingMoves ==
  ASSUME SessionTypeOK, NEW p \in SessionProc, Retry(p) \/ Return(p)
  PROVE  /\ sessProc' \in [SessionProc -> Procs]
         /\ sessProc'[p].pc \in {"open", "idle"}
         /\ \A q \in SessionProc \ {p} : sessProc'[q] = sessProc[q]
<1>1. sessProc[p] \in Procs /\ sessProc[p].try + 1 \in Nat
  BY DEF SessionTypeOK, Procs
<1> DEFINE again == [sessProc[p] EXCEPT !.pc = "open", !.try = @ + 1]
<1>2. again \in Procs /\ again.pc = "open"
  BY <1>1 DEF Procs, ProcPcs
<1>3. IdleProc \in Procs /\ IdleProc.pc = "idle"
  BY DEF IdleProc, Procs, ProcPcs
<1> HIDE DEF again
<1>4. CASE Become(p, again)
  BY <1>2, <1>4, BecomeMoves
<1>5. CASE Become(p, IdleProc)
  BY <1>3, <1>5, BecomeMoves
<1> QED
  BY <1>4, <1>5 DEF Retry, Return, again

\* Every mutation, every step of its lock and every death keeps the types, and the
\* lock file the property of whoever is inside it.
THEOREM SessionInvariance == SessionSpec => []SessionInv
<1> USE SessionAssumption DEF At
<1>1. ASSUME SessionInv, [SessionNext]_sessVars PROVE SessionInv'
  <2> USE <1>1 DEF SessionInv, SessionTypeOK, HoldersOwn, Holders, sessBounds, sessHistory
  <2>1. ASSUME NEW p \in SessionProc, NEW op \in {"append", "move", "meta"}, Mutate(p, op)
        PROVE  SessionInv'
    <3> DEFINE proc == [IdleProc EXCEPT !.pc = "open", !.op = op, !.id = sessMutations']
    <3>1. sessMutations' \in Nat /\ Become(p, proc)
      BY <2>1 DEF Mutate
    <3>2. proc \in Procs
      BY <3>1, NewMutation
    <3>3. proc.pc = "open"
      BY DEF IdleProc
    <3> HIDE DEF proc
    <3>4. /\ sessProc' \in [SessionProc -> Procs]
          /\ sessProc'[p].pc = "open"
          /\ \A q \in SessionProc \ {p} : sessProc'[q] = sessProc[q]
      BY <3>1, <3>2, <3>3, BecomeMoves
    <3> QED
      BY <2>1, <3>1, <3>4 DEF Mutate
  <2>2. ASSUME NEW p \in SessionProc, OpenLock(p) PROVE SessionInv'
    <3>1. CASE sessLock = NoLock
      <4>1. sessLock' = EmptyLock(p) /\ Goto(p, "stamp") /\ sessStolen' = sessStolen
        BY <2>2, <3>1 DEF OpenLock
      <4>2. ~sessStolen => Holders = {}
        BY <3>1 DEF NoLock, EmptyLock
      <4> QED
        BY <2>2, <4>1, <4>2, GotoMoves DEF OpenLock, EmptyLock, Locks, ProcPcs
    <3>2. CASE sessLock # NoLock
      BY <2>2, <3>2, GotoMoves DEF OpenLock, ProcPcs
    <3> QED
      BY <3>1, <3>2
  <2>3. ASSUME NEW p \in SessionProc, GiveUp(p) PROVE SessionInv'
    BY <2>3, LeavingMoves DEF GiveUp
  <2>4. ASSUME NEW p \in SessionProc, Judge(p) PROVE SessionInv'
    <3>1. CASE Retry(p) \/ Return(p)
      BY <2>4, <3>1, LeavingMoves DEF Judge
    <3>2. CASE Goto(p, "preempt")
      BY <2>4, <3>2, GotoMoves DEF Judge, ProcPcs
    <3> QED
      BY <2>4, <3>1, <3>2 DEF Judge
  <2>5. ASSUME NEW p \in SessionProc, Preempt(p) PROVE SessionInv'
    <3>1. ~sessStolen' => Holders = {}
      BY <2>5 DEF Preempt
    <3> QED
      BY <2>5, <3>1, LeavingMoves DEF Preempt, NoLock, EmptyLock, Locks
  <2>6. ASSUME NEW p \in SessionProc, Stamp(p) PROVE SessionInv'
    <3>1. p \in Holders /\ Goto(p, "repair") /\ sessLock'.owner = sessLock.owner /\ sessLock' \in Locks
      BY <2>6 DEF Stamp, Locks
    <3> QED
      BY <2>6, <3>1, GotoMoves DEF Stamp, ProcPcs
  <2>7. ASSUME NEW p \in SessionProc, Repair(p) PROVE SessionInv'
    <3>1. p \in Holders
      BY <2>7 DEF Repair
    <3>2. /\ sessProc' \in [SessionProc -> Procs]
          /\ \A q \in SessionProc \ {p} : sessProc'[q] = sessProc[q]
      <4> DEFINE torn == sessFile # <<>> /\ ~sessFile[Len(sessFile)].whole
                 next == [sessProc[p] EXCEPT !.pc = IF torn THEN "truncate" ELSE "load",
                                             !.cut = IF torn THEN Len(sessFile) - 1 ELSE 0]
      <4>1. (IF torn THEN Len(sessFile) - 1 ELSE 0) \in Nat
        OBVIOUS
      <4>2. next \in Procs
        BY <4>1, ProcUpdates DEF ProcPcs
      <4>3. Become(p, next)
        BY <2>7 DEF Repair
      <4> HIDE DEF next
      <4> QED
        BY <4>2, <4>3, BecomeMoves
    <3> QED
      BY <2>7, <3>1, <3>2 DEF Repair
  <2>8. ASSUME NEW p \in SessionProc, Truncate(p) PROVE SessionInv'
    <3>1. p \in Holders /\ Goto(p, "load")
      BY <2>8 DEF Truncate
    <3>2. ASSUME sessProc[p].cut <= Len(sessFile) PROVE sessFile' \in Seq(Lines)
      <4>1. sessFile' = SubSeq(sessFile, 1, sessProc[p].cut) /\ sessProc[p].cut \in Nat
        BY <2>8, <3>2 DEF Truncate, Procs
      <4> QED
        BY <3>2, <4>1, PrefixType
    <3>3. ASSUME ~(sessProc[p].cut <= Len(sessFile)) PROVE sessFile' \in Seq(Lines)
      <4>1. AppendLine(MetaEvent, FALSE, FALSE)
        BY <2>8, <3>3 DEF Truncate
      <4>2. MetaEvent \in [type : {"entry", "leaf", "meta"}, id : Nat]
        BY DEF MetaEvent
      <4> QED
        BY <4>1, <4>2, AppendLineType
    <3>4. sessFile' \in Seq(Lines)
      BY <3>2, <3>3
    <3> QED
      BY <2>8, <3>1, <3>4, GotoMoves DEF Truncate, ProcPcs
  <2>9. ASSUME NEW p \in SessionProc, LoadSession(p) PROVE SessionInv'
    <3>1. p \in Holders
      BY <2>9 DEF LoadSession
    <3>2. /\ sessProc' \in [SessionProc -> Procs]
          /\ \A q \in SessionProc \ {p} : sessProc'[q] = sessProc[q]
      <4>1. Entries \subseteq Nat /\ {sessProc[p].id} \subseteq Nat
        BY EntriesType, ProcUpdates DEF ProcPcs
      <4>2. \/ \E id \in Nat : Become(p, [sessProc[p] EXCEPT !.pc = "write", !.id = id])
            \/ Become(p, [sessProc[p] EXCEPT !.pc = "release", !.op = "failed"])
        BY <2>9, <4>1 DEF LoadSession
      <4>3. \A id \in Nat : [sessProc[p] EXCEPT !.pc = "write", !.id = id] \in Procs
        BY ProcUpdates DEF ProcPcs
      <4>4. [sessProc[p] EXCEPT !.pc = "release", !.op = "failed"] \in Procs
        BY ProcUpdates DEF ProcPcs
      <4> QED
        BY <4>2, <4>3, <4>4, BecomeMoves
    <3> QED
      BY <2>9, <3>1, <3>2 DEF LoadSession
  <2>10. ASSUME NEW p \in SessionProc, WriteEvent(p) PROVE SessionInv'
    <3>1. p \in Holders
      BY <2>10 DEF WriteEvent
    <3>2. sessFile' \in Seq(Lines)
      BY <2>10, AppendLineType, NextEventType DEF WriteEvent, AppendEvent
    <3>3. PICK point \in {"leaf", "release"} : Goto(p, point)
      BY <2>10 DEF WriteEvent
    <3> QED
      BY <2>10, <3>1, <3>2, <3>3, GotoMoves DEF WriteEvent, ProcPcs
  <2>11. ASSUME NEW p \in SessionProc, ReleaseLock(p) PROVE SessionInv'
    <3>1. p \in Holders
      BY <2>11 DEF ReleaseLock
    <3>2. ~sessStolen => \A q \in Holders : q = p
      BY <3>1
    <3> QED
      BY <2>11, <3>2, LeavingMoves DEF ReleaseLock, NoLock, EmptyLock, Locks
  <2>12. ASSUME NEW p \in SessionProc, Kill(p) PROVE SessionInv'
    <3>1. Return(p) /\ sessStolen' = sessStolen /\ sessMutations' = sessMutations
      BY <2>12 DEF Kill
    <3>2. sessLock' \in Locks /\ sessLock'.owner = sessLock.owner
      BY <2>12 DEF Kill, Locks
    <3>3. sessFile' \in Seq(Lines)
      BY <2>12, AppendLineType, NextEventType DEF Kill, AppendEvent
    <3> QED
      BY <3>1, <3>2, <3>3, LeavingMoves
  <2>13. CASE Overstay
    BY <2>13 DEF Overstay, Locks
  <2>14. CASE UNCHANGED sessVars
    BY <2>14 DEF sessVars
  <2> QED
    BY <1>1, <2>1, <2>2, <2>3, <2>4, <2>5, <2>6, <2>7, <2>8, <2>9, <2>10, <2>11, <2>12, <2>13,
       <2>14 DEF SessionNext
<1> QED
  BY SessionInitInv, <1>1, PTL DEF SessionSpec

\* As long as no lock was removed as dead while its holder was inside, one process
\* at a time repairs, reads and appends to the session (session-store.ts,
\* withSessionLock), whatever dies and however often the attempts run out.
THEOREM SessionExclusion == SessionSpec => []WritersExclusive
<1>1. SessionInv => WritersExclusive
  BY DEF SessionInv, HoldersOwn, WritersExclusive
<1> QED
  BY <1>1, SessionInvariance, PTL
-----------------------------------------------------------------------------
(* What was committed *)

Steady == ~sessStolen /\ ~sessGlued
Clean == \A i \in DOMAIN sessFile : sessFile[i].whole

\* A line is whole when it is ended, and only the last may not be.
LinesEnded ==
  Steady => \A i \in DOMAIN sessFile :
    /\ sessFile[i].newline => sessFile[i].whole
    /\ i # Len(sessFile) => sessFile[i].newline

\* Who truncates cuts the torn line off, and nothing else; who loads the file and
\* appends to it has it without one.
RepairedFirst ==
  Steady => \A p \in SessionProc :
    /\ sessProc[p].pc = "truncate" =>
         /\ sessFile # <<>> /\ ~sessFile[Len(sessFile)].whole
         /\ sessProc[p].cut = Len(sessFile) - 1
    /\ sessProc[p].pc \in {"load", "write", "leaf"} => Clean

\* The entry a process has written, or moves the leaf to.
HasEntry(p) ==
  \/ sessProc[p].pc = "leaf"
  \/ sessProc[p].pc = "release" /\ sessProc[p].op = "append"
  \/ sessProc[p].pc = "write" /\ sessProc[p].op = "move"

EntriesKept ==
  Steady =>
    /\ sessAcked \subseteq Entries
    /\ \A p \in SessionProc : HasEntry(p) => sessProc[p].id \in Entries
    /\ \A i \in DOMAIN sessFile :
         sessFile[i].whole /\ sessFile[i].event.type = "leaf" => sessFile[i].event.id \in Entries

Committed == LinesEnded /\ RepairedFirst /\ EntriesKept
CommitInv == SessionInv /\ Committed

\* A set of natural numbers has a least one.
LEMMA LeastNatural ==
  ASSUME NEW T, T \subseteq Nat, T # {}
  PROVE  \E x \in T : \A y \in T : x <= y
<1> DEFINE R == OpToRel(<, Nat)
<1>1. IsWellFoundedOn(R, Nat)
  BY NatLessThanWellFounded
<1>2. \A x, y \in Nat : y < x => <<y, x>> \in R
  BY DEF OpToRel
<1> HIDE DEF R
<1>3. PICK x \in T : \A y \in T : ~(<<y, x>> \in R)
  BY <1>1, WFMin
<1>4. \A y \in T : ~(y < x)
  BY <1>2, <1>3
<1>5. \A y \in T : x <= y
  BY <1>4
<1> QED
  BY <1>5

\* A set of positions of a file has a last one.
LEMMA LastPosition ==
  ASSUME NEW n \in Nat, NEW T, T \subseteq 1..n, T # {}
  PROVE  \E x \in T : \A y \in T : y <= x
<1> DEFINE U == {n - x : x \in T}
<1>1. \A x \in T : x \in Nat /\ n - x \in Nat
  OBVIOUS
<1>2. U \subseteq Nat /\ U # {}
  BY <1>1
<1>3. PICK u \in U : \A v \in U : u <= v
  BY <1>2, LeastNatural
<1>4. PICK x \in T : u = n - x
  OBVIOUS
<1>5. \A y \in T : n - x <= n - y
  BY <1>3, <1>4
<1>6. \A y \in T : y <= x
  BY <1>1, <1>5
<1> QED
  BY <1>6

\* An entry of the session is the event of a whole line.
LEMMA EntryLines ==
  ASSUME NEW x
  PROVE  x \in Entries <=> \E i \in DOMAIN sessFile :
           sessFile[i].whole /\ sessFile[i].event.type = "entry" /\ sessFile[i].event.id = x
BY DEF Entries, SessionEvents

\* The same of the file a step leaves.
LEMMA EntryLinesAfter ==
  ASSUME NEW x
  PROVE  x \in Entries' <=> \E i \in DOMAIN sessFile' :
           sessFile'[i].whole /\ sessFile'[i].event.type = "entry" /\ sessFile'[i].event.id = x
BY DEF Entries, SessionEvents

\* The active leaf is that of a whole line.
LEMMA LeafLine ==
  ASSUME SessionTypeOK
  PROVE  \/ ActiveLeaf = 0
         \/ \E i \in DOMAIN sessFile : /\ sessFile[i].whole /\ sessFile[i].event.type = "leaf"
                                       /\ ActiveLeaf = sessFile[i].event.id
<1> DEFINE leaves == {i \in DOMAIN sessFile : sessFile[i].whole /\ sessFile[i].event.type = "leaf"}
<1>1. Len(sessFile) \in Nat /\ leaves \subseteq 1..Len(sessFile)
  BY DEF SessionTypeOK
<1>2. CASE leaves = {}
  BY <1>2 DEF ActiveLeaf
<1>3. CASE leaves # {}
  <2>1. \E x \in leaves : \A y \in leaves : y <= x
    BY <1>1, <1>3, LastPosition
  <2>2. (CHOOSE i \in leaves : \A j \in leaves : j <= i) \in leaves
    BY <2>1
  <2>3. ActiveLeaf = sessFile[CHOOSE i \in leaves : \A j \in leaves : j <= i].event.id
    BY <1>3 DEF ActiveLeaf
  <2> QED
    BY <2>2, <2>3
<1> QED
  BY <1>2, <1>3

\* What the invariant says of the file of a session nobody is in the middle of.
LEMMA CommittedIsReadable == CommitInv => CommittedUnderLock
<1> SUFFICES ASSUME CommitInv, Steady PROVE CommittedUnderLock
  BY DEF CommittedUnderLock, Steady
<1> USE DEF CommitInv, Committed, LinesEnded, EntriesKept, SessionInv
<1>1. Loadable
  <2>1. sessFile \in Seq(Lines)
    BY DEF SessionTypeOK
  <2>2. \A i \in 1..Len(sessFile) - 1 : i \in DOMAIN sessFile /\ i # Len(sessFile)
    BY <2>1
  <2> QED
    BY <2>2 DEF Loadable
<1>2. ActiveLeaf \in Entries \cup {0}
  BY LeafLine
<1> QED
  BY <1>1, <1>2 DEF CommittedUnderLock, Readable

\* A line that is appended to a file whose last line is ended comes behind all others.
LEMMA CleanAppend ==
  ASSUME sessFile \in Seq(Lines), sessFile = <<>> \/ sessFile[Len(sessFile)].newline,
         NEW event \in [type : {"entry", "leaf", "meta"}, id : Nat],
         NEW whole \in BOOLEAN, NEW newline \in BOOLEAN, AppendLine(event, whole, newline)
  PROVE  /\ Len(sessFile') = Len(sessFile) + 1 /\ DOMAIN sessFile' = 1..Len(sessFile')
         /\ \A i \in DOMAIN sessFile : i \in DOMAIN sessFile' /\ sessFile'[i] = sessFile[i]
         /\ \A i \in DOMAIN sessFile' : i \in DOMAIN sessFile \/ i = Len(sessFile')
         /\ sessFile'[Len(sessFile')] = [event |-> event, whole |-> whole, newline |-> newline]
         /\ Len(sessFile') \in DOMAIN sessFile'
         /\ Entries \subseteq Entries'
         /\ whole /\ event.type = "entry" => event.id \in Entries'
<1> DEFINE line == [event |-> event, whole |-> whole, newline |-> newline]
<1>1. line \in Lines
  BY DEF Lines
<1>3. sessFile' = Append(sessFile, line)
  BY DEF AppendLine
<1>4. line.event = event /\ line.whole = whole /\ line.newline = newline
  OBVIOUS
<1> HIDE DEF line
<1>5. /\ Len(sessFile') = Len(sessFile) + 1 /\ DOMAIN sessFile' = 1..Len(sessFile')
      /\ \A i \in DOMAIN sessFile : i \in DOMAIN sessFile' /\ sessFile'[i] = sessFile[i]
      /\ \A i \in DOMAIN sessFile' : i \in DOMAIN sessFile \/ i = Len(sessFile')
      /\ sessFile'[Len(sessFile')] = line
      /\ Len(sessFile') \in DOMAIN sessFile'
  BY <1>1, <1>3, AppendProperties
<1>6. Entries \subseteq Entries'
  BY <1>5, EntryLines, EntryLinesAfter
<1>7. whole /\ event.type = "entry" => event.id \in Entries'
  BY <1>4, <1>5, EntryLinesAfter
<1> QED
  BY <1>5, <1>6, <1>7 DEF line

\* An append that leaves the session steady finds a file of ended lines, if it has
\* no torn one.
LEMMA SteadyAppend ==
  ASSUME SessionInv, LinesEnded, Steady => Clean, sessStolen' = sessStolen,
         sessGlued' = (sessGlued \/ Unended), Steady'
  PROVE  /\ Steady /\ Clean /\ sessFile \in Seq(Lines)
         /\ sessFile = <<>> \/ sessFile[Len(sessFile)].newline
         /\ \A i \in DOMAIN sessFile : sessFile[i].newline
<1>1. Steady /\ ~Unended
  BY DEF Steady
<1>2. Clean /\ sessFile \in Seq(Lines)
  BY <1>1 DEF SessionInv, SessionTypeOK
<1>3. sessFile # <<>> => Len(sessFile) \in DOMAIN sessFile
  BY <1>2
<1>4. sessFile = <<>> \/ sessFile[Len(sessFile)].newline
  BY <1>1, <1>2, <1>3 DEF Unended, Clean
<1>5. \A i \in DOMAIN sessFile : sessFile # <<>>
  BY <1>2
<1>6. \A i \in DOMAIN sessFile : sessFile[i].newline
  BY <1>1, <1>4, <1>5 DEF LinesEnded
<1> QED
  BY <1>1, <1>2, <1>4, <1>6

\* A step that leaves the file as it is, of processes that are not past the repair,
\* disturbs nothing.
LEMMA OutsideKeeps ==
  ASSUME Committed, UNCHANGED <<sessFile, sessAcked>>, Steady' => Steady,
         \A q \in SessionProc :
           sessProc'[q] = sessProc[q]
           \/ sessProc'[q].pc \in {"idle", "open", "judge", "preempt", "stamp", "repair"}
  PROVE  Committed'
<1> SUFFICES ASSUME Steady' PROVE Committed'
  BY DEF Committed, LinesEnded, RepairedFirst, EntriesKept
<1> USE DEF Committed
<1>1. Steady /\ Clean' = Clean /\ Entries' = Entries /\ sessFile' = sessFile
  BY DEF Clean, Entries, SessionEvents
<1>2. LinesEnded'
  BY <1>1 DEF LinesEnded
<1>3. RepairedFirst'
  BY <1>1 DEF RepairedFirst
<1>4. EntriesKept'
  BY <1>1 DEF EntriesKept, HasEntry
<1> QED
  BY <1>2, <1>3, <1>4

\* While one process is inside the lock, the others are outside.
LEMMA OthersOutside ==
  ASSUME SessionInv, Steady, NEW p \in Holders, NEW q \in SessionProc \ {p}
  PROVE  sessProc[q].pc \in {"idle", "open", "judge", "preempt"}
<1>1. q \notin Holders
  BY DEF SessionInv, HoldersOwn, Steady
<1>2. sessProc[q].pc \in ProcPcs
  BY DEF SessionInv, SessionTypeOK, Procs
<1> QED
  BY <1>1, <1>2 DEF Holders, ProcPcs

\* So what the one inside does need only be right for itself and the file.
LEMMA InsideKeeps ==
  ASSUME SessionInv, Steady' => Steady, NEW p \in Holders,
         \A q \in SessionProc \ {p} : sessProc'[q] = sessProc[q],
         LinesEnded',
         Steady' =>
           /\ sessProc'[p].pc = "truncate" =>
                /\ sessFile' # <<>> /\ ~sessFile'[Len(sessFile')].whole
                /\ sessProc'[p].cut = Len(sessFile') - 1
           /\ sessProc'[p].pc \in {"load", "write", "leaf"} => Clean'
           /\ sessAcked' \subseteq Entries'
           /\ HasEntry(p)' => sessProc'[p].id \in Entries'
           /\ \A i \in DOMAIN sessFile' :
                sessFile'[i].whole /\ sessFile'[i].event.type = "leaf"
                  => sessFile'[i].event.id \in Entries'
  PROVE  Committed'
<1> SUFFICES ASSUME Steady' PROVE Committed'
  BY DEF Committed, LinesEnded, RepairedFirst, EntriesKept
<1>1. \A q \in SessionProc \ {p} : sessProc'[q].pc \in {"idle", "open", "judge", "preempt"}
  BY OthersOutside
<1>2. RepairedFirst'
  BY <1>1 DEF RepairedFirst
<1>3. EntriesKept'
  BY <1>1 DEF EntriesKept, HasEntry
<1> QED
  BY <1>2, <1>3 DEF Committed

\* A step under the lock that leaves the file as it is.
LEMMA ReadingKeeps ==
  ASSUME SessionInv, Committed, UNCHANGED <<sessFile, sessHistory>>, NEW p \in Holders,
         \A q \in SessionProc \ {p} : sessProc'[q] = sessProc[q],
         Steady =>
           /\ sessProc'[p].pc = "truncate" =>
                /\ sessFile # <<>> /\ ~sessFile[Len(sessFile)].whole
                /\ sessProc'[p].cut = Len(sessFile) - 1
           /\ sessProc'[p].pc \in {"load", "write", "leaf"} => Clean
           /\ HasEntry(p)' => sessProc'[p].id \in Entries
  PROVE  Committed'
<1>1. /\ sessFile' = sessFile /\ sessAcked' = sessAcked
      /\ (Steady' <=> Steady) /\ (Clean' <=> Clean) /\ Entries' = Entries
  BY DEF Clean, Entries, SessionEvents, Steady, sessHistory
<1>2. LinesEnded'
  BY <1>1 DEF Committed, LinesEnded
<1> QED
  BY <1>1, <1>2, InsideKeeps DEF Committed, EntriesKept

\* The session as it is created.
LEMMA CommitInitInv == SessionInit => Committed
<1> SUFFICES ASSUME SessionInit PROVE Committed
  OBVIOUS
<1>1. sessFile \in Seq(Lines) /\ Len(sessFile) = 1 /\ sessFile[1].event.type = "meta"
      /\ sessFile[1].whole /\ sessFile[1].newline
  BY DEF SessionInit, Lines, MetaEvent
<1>2. \A p \in SessionProc : sessProc[p].pc = "idle"
  BY DEF SessionInit, IdleProc
<1>3. sessAcked = {}
  BY DEF SessionInit
<1> QED
  BY <1>1, <1>2, <1>3 DEF Committed, LinesEnded, RepairedFirst, EntriesKept, HasEntry

\* Truncating takes the torn line off and no entry with it.
LEMMA TruncateKeeps ==
  ASSUME SessionInv, Committed, NEW p \in SessionProc, Truncate(p)
  PROVE  Committed'
<1> USE DEF At
<1>1. p \in Holders /\ Goto(p, "load") /\ UNCHANGED sessHistory
  BY DEF Truncate, Holders
<1>2. /\ sessProc'[p].pc = "load"
      /\ \A q \in SessionProc \ {p} : sessProc'[q] = sessProc[q]
  BY <1>1, GotoMoves DEF ProcPcs, SessionInv
<1>3. (Steady' <=> Steady) /\ sessAcked' = sessAcked
  BY <1>1 DEF Steady, sessHistory
<1>4. ASSUME Steady
      PROVE  /\ Clean' /\ Entries \subseteq Entries'
             /\ \A i \in DOMAIN sessFile' : sessFile'[i].newline
             /\ \A i \in DOMAIN sessFile' : i \in DOMAIN sessFile /\ sessFile'[i] = sessFile[i]
  <2> DEFINE n == Len(sessFile) - 1
  <2>1. sessFile \in Seq(Lines) /\ sessFile # <<>> /\ ~sessFile[Len(sessFile)].whole
        /\ sessProc[p].cut = n /\ n \in Nat /\ n <= Len(sessFile)
    BY <1>4 DEF SessionInv, SessionTypeOK, Committed, RepairedFirst, Truncate
  <2>2. sessFile' = SubSeq(sessFile, 1, n)
    BY <2>1 DEF Truncate
  <2> HIDE DEF n
  <2>3. Len(sessFile') = n /\ DOMAIN sessFile' = 1..n /\ \A i \in 1..n : sessFile'[i] = sessFile[i]
    BY <2>1, <2>2, SubSeqProperties
  <2>4. \A i \in DOMAIN sessFile : sessFile[i].whole => i \in 1..n
    BY <2>1 DEF n
  <2>5. \A i \in 1..n : i \in DOMAIN sessFile /\ i # Len(sessFile)
    BY <2>1 DEF n
  <2>6. /\ Clean' /\ \A i \in DOMAIN sessFile' : sessFile'[i].newline
    BY <1>4, <2>3, <2>5 DEF Clean, Committed, LinesEnded
  <2>7. Entries \subseteq Entries'
    BY <2>3, <2>4, EntryLines, EntryLinesAfter
  <2> QED
    BY <2>3, <2>5, <2>6, <2>7
<1>5. LinesEnded'
  BY <1>3, <1>4 DEF LinesEnded, Clean
<1> QED
  BY <1>1, <1>2, <1>3, <1>4, <1>5, InsideKeeps DEF Committed, EntriesKept, HasEntry

\* A process that appends its event in full.
LEMMA WriteEventKeeps ==
  ASSUME SessionInv, Committed, NEW p \in SessionProc, WriteEvent(p)
  PROVE  Committed'
<1> USE DEF At
<1> DEFINE next == IF At(p, "write") /\ sessProc[p].op = "append" THEN "leaf" ELSE "release"
           event == NextEvent(p)
<1>1. p \in Holders /\ Goto(p, next) /\ AppendLine(event, TRUE, TRUE)
      /\ UNCHANGED <<sessAcked, sessStolen>> /\ sessGlued' = (sessGlued \/ Unended)
      /\ sessProc[p].pc \in {"write", "leaf"} /\ event \in [type : {"entry", "leaf", "meta"}, id : Nat]
  BY NextEventType DEF WriteEvent, AppendEvent, Holders, SessionInv
<1>2. /\ sessProc'[p].pc = next
      /\ \A q \in SessionProc \ {p} : sessProc'[q] = sessProc[q]
  BY <1>1, GotoMoves DEF ProcPcs, SessionInv
<1>3. sessProc'[p].op = sessProc[p].op /\ sessProc'[p].id = sessProc[p].id
  BY <1>1 DEF Goto, Become, SessionInv, SessionTypeOK, Procs
<1>4. (Steady' => Steady) /\ sessAcked' = sessAcked
  BY <1>1 DEF Steady
<1>5. ASSUME Steady'
      PROVE  /\ Clean' /\ Entries \subseteq Entries'
             /\ \A i \in DOMAIN sessFile' : sessFile'[i].newline
             /\ (event.type = "entry" => event.id \in Entries')
             /\ \A i \in DOMAIN sessFile' :
                  \/ i \in DOMAIN sessFile /\ sessFile'[i] = sessFile[i]
                  \/ sessFile'[i].event = event
  <2>0. LinesEnded /\ (Steady => Clean)
    BY <1>1 DEF Committed, RepairedFirst, Holders
  <2>1. /\ sessFile \in Seq(Lines) /\ Clean
        /\ sessFile = <<>> \/ sessFile[Len(sessFile)].newline
        /\ \A i \in DOMAIN sessFile : sessFile[i].newline
    BY <1>1, <1>5, <2>0, SteadyAppend
  <2>2. event \in [type : {"entry", "leaf", "meta"}, id : Nat] /\ AppendLine(event, TRUE, TRUE)
    BY <1>1
  <2> HIDE DEF event
  <2>3. /\ \A i \in DOMAIN sessFile : i \in DOMAIN sessFile' /\ sessFile'[i] = sessFile[i]
        /\ \A i \in DOMAIN sessFile' : i \in DOMAIN sessFile \/ i = Len(sessFile')
        /\ sessFile'[Len(sessFile')] = [event |-> event, whole |-> TRUE, newline |-> TRUE]
        /\ Entries \subseteq Entries'
        /\ (event.type = "entry" => event.id \in Entries')
    BY <2>1, <2>2, CleanAppend
  <2>4. Clean' /\ \A i \in DOMAIN sessFile' : sessFile'[i].newline
    BY <2>1, <2>3 DEF Clean
  <2> QED
    BY <2>3, <2>4
<1>6. event.type = "leaf" /\ Steady => event.id \in Entries
  BY <1>1 DEF NextEvent, LeafEvent, EntryEvent, MetaEvent, Committed, EntriesKept, HasEntry
<1>7. sessProc[p].pc = "write" /\ sessProc[p].op = "append"
        => event.type = "entry" /\ event.id = sessProc[p].id
  BY DEF NextEvent, EntryEvent
<1>8. ASSUME HasEntry(p)'
      PROVE  HasEntry(p) \/ (event.type = "entry" /\ event.id = sessProc[p].id)
  <2> HIDE DEF event
  <2>1. sessProc'[p].pc = "leaf" \/ (sessProc'[p].pc = "release" /\ sessProc[p].op = "append")
    BY <1>2, <1>3, <1>8 DEF HasEntry
  <2>2. CASE sessProc[p].pc = "leaf"
    BY <2>2 DEF HasEntry
  <2>3. CASE sessProc[p].pc = "write"
    BY <1>2, <1>7, <2>1, <2>3
  <2> QED
    BY <1>1, <2>2, <2>3
<1>9. LinesEnded'
  BY <1>4, <1>5 DEF LinesEnded, Clean
<1> HIDE DEF event, next
<1>10. ASSUME Steady'
       PROVE  \A i \in DOMAIN sessFile' :
                sessFile'[i].whole /\ sessFile'[i].event.type = "leaf" => sessFile'[i].event.id \in Entries'
  BY <1>4, <1>5, <1>6, <1>10 DEF Committed, EntriesKept
<1>11. ASSUME Steady', HasEntry(p)' PROVE sessProc'[p].id \in Entries'
  BY <1>3, <1>4, <1>5, <1>8, <1>11 DEF Committed, EntriesKept
<1>12. sessProc'[p].pc # "truncate"
  BY <1>2 DEF next
<1> QED
  BY <1>1, <1>2, <1>4, <1>5, <1>9, <1>10, <1>11, <1>12, InsideKeeps DEF Committed, EntriesKept

\* A process that dies while it appends leaves a torn line, or a whole one.
LEMMA KillKeeps ==
  ASSUME SessionInv, Committed, NEW p \in SessionProc, Kill(p)
  PROVE  Committed'
<1> USE DEF At
<1>1. Return(p) /\ sessAcked' = sessAcked /\ sessStolen' = sessStolen
  BY DEF Kill
<1>2. /\ sessProc'[p].pc = "idle"
      /\ \A q \in SessionProc \ {p} : sessProc'[q] = sessProc[q]
  BY <1>1 DEF Return, Become, IdleProc, SessionInv, SessionTypeOK
<1>3. CASE UNCHANGED <<sessFile, sessGlued>>
  BY <1>1, <1>2, <1>3, OutsideKeeps DEF Steady
<1>4. ASSUME NEW whole \in BOOLEAN, NEW newline \in BOOLEAN, newline => whole,
             sessProc[p].pc \in {"write", "leaf"}, AppendLine(NextEvent(p), whole, newline),
             sessGlued' = (sessGlued \/ Unended)
      PROVE  Committed'
  <2> DEFINE event == NextEvent(p)
  <2>1. p \in Holders /\ event \in [type : {"entry", "leaf", "meta"}, id : Nat]
    BY <1>4, NextEventType DEF Holders, SessionInv
  <2>2. Steady' => Steady
    BY <1>1, <1>4 DEF Steady
  <2>3. event.type = "leaf" /\ Steady => event.id \in Entries
    BY <1>4 DEF NextEvent, LeafEvent, EntryEvent, MetaEvent, Committed, EntriesKept, HasEntry
  <2>4. ASSUME Steady'
        PROVE  /\ LinesEnded' /\ Entries \subseteq Entries'
               /\ \A i \in DOMAIN sessFile' :
                    \/ i \in DOMAIN sessFile /\ sessFile'[i] = sessFile[i]
                  \/ sessFile'[i].event = event
    <3>0. LinesEnded /\ (Steady => Clean)
      BY <1>4, <2>1 DEF Committed, RepairedFirst, Holders
    <3>1. /\ sessFile \in Seq(Lines) /\ Clean
          /\ sessFile = <<>> \/ sessFile[Len(sessFile)].newline
          /\ \A i \in DOMAIN sessFile : sessFile[i].newline
      BY <1>1, <1>4, <2>4, <3>0, SteadyAppend
    <3> HIDE DEF event
    <3>2. /\ \A i \in DOMAIN sessFile : i \in DOMAIN sessFile' /\ sessFile'[i] = sessFile[i]
          /\ \A i \in DOMAIN sessFile' : i \in DOMAIN sessFile \/ i = Len(sessFile')
          /\ sessFile'[Len(sessFile')] = [event |-> event, whole |-> whole, newline |-> newline]
          /\ Entries \subseteq Entries'
      BY <1>4, <2>1, <3>1, CleanAppend DEF event
    <3>3. LinesEnded'
      BY <1>4, <3>1, <3>2 DEF LinesEnded, Clean
    <3> QED
      BY <3>2, <3>3
  <2> HIDE DEF event
  <2>5. LinesEnded'
    BY <2>4 DEF LinesEnded
  <2>6. ~HasEntry(p)'
    BY <1>2 DEF HasEntry
  <2>7. ASSUME Steady'
        PROVE  \A i \in DOMAIN sessFile' :
                 sessFile'[i].whole /\ sessFile'[i].event.type = "leaf" => sessFile'[i].event.id \in Entries'
    BY <2>2, <2>3, <2>4, <2>7 DEF Committed, EntriesKept
  <2> QED
    BY <1>1, <1>2, <2>1, <2>2, <2>4, <2>5, <2>6, <2>7, InsideKeeps DEF Committed, EntriesKept
<1> QED
  BY <1>3, <1>4 DEF Kill, AppendEvent

\* Every mutation, every step of its lock and every death keeps what is committed.
LEMMA CommitStep ==
  ASSUME SessionInv, Committed, [SessionNext]_sessVars
  PROVE  Committed'
<1> USE DEF SessionInv, At, sessBounds, sessHistory
<1>1. ASSUME NEW p \in SessionProc, NEW op \in {"append", "move", "meta"}, Mutate(p, op)
      PROVE  Committed'
  <2>1. \A q \in SessionProc : sessProc'[q] = sessProc[q] \/ sessProc'[q].pc = "open"
    BY <1>1 DEF Mutate, Become, IdleProc, SessionTypeOK
  <2> QED
    BY <1>1, <2>1, OutsideKeeps DEF Mutate, Steady
<1>2. ASSUME NEW p \in SessionProc, OpenLock(p) PROVE Committed'
  <2>1. \A q \in SessionProc : sessProc'[q] = sessProc[q] \/ sessProc'[q].pc \in {"stamp", "judge"}
    BY <1>2, GotoMoves DEF OpenLock, ProcPcs
  <2> QED
    BY <1>2, <2>1, OutsideKeeps DEF OpenLock, Steady
<1>3. ASSUME NEW p \in SessionProc, GiveUp(p) PROVE Committed'
  <2>1. \A q \in SessionProc : sessProc'[q] = sessProc[q] \/ sessProc'[q].pc \in {"open", "idle"}
    BY <1>3, LeavingMoves DEF GiveUp
  <2> QED
    BY <1>3, <2>1, OutsideKeeps DEF GiveUp, Steady
<1>4. ASSUME NEW p \in SessionProc, Judge(p) PROVE Committed'
  <2>1. \A q \in SessionProc : sessProc'[q] = sessProc[q] \/ sessProc'[q].pc \in {"open", "idle", "preempt"}
    BY <1>4, LeavingMoves, GotoMoves DEF Judge, ProcPcs
  <2> QED
    BY <1>4, <2>1, OutsideKeeps DEF Judge, Steady
<1>5. ASSUME NEW p \in SessionProc, Preempt(p) PROVE Committed'
  <2>1. \A q \in SessionProc : sessProc'[q] = sessProc[q] \/ sessProc'[q].pc \in {"open", "idle"}
    BY <1>5, LeavingMoves DEF Preempt
  <2> QED
    BY <1>5, <2>1, OutsideKeeps DEF Preempt, Steady
<1>6. ASSUME NEW p \in SessionProc, Stamp(p) PROVE Committed'
  <2>1. \A q \in SessionProc : sessProc'[q] = sessProc[q] \/ sessProc'[q].pc = "repair"
    BY <1>6, GotoMoves DEF Stamp, ProcPcs
  <2> QED
    BY <1>6, <2>1, OutsideKeeps DEF Stamp, Steady
<1>7. ASSUME NEW p \in SessionProc, Repair(p) PROVE Committed'
  <2> DEFINE torn == sessFile # <<>> /\ ~sessFile[Len(sessFile)].whole
             next == [sessProc[p] EXCEPT !.pc = IF torn THEN "truncate" ELSE "load",
                                         !.cut = IF torn THEN Len(sessFile) - 1 ELSE 0]
  <2>1. p \in Holders /\ Become(p, next) /\ UNCHANGED <<sessFile, sessHistory>>
    BY <1>7 DEF Repair, Holders
  <2>2. /\ sessProc'[p] = next
        /\ \A q \in SessionProc \ {p} : sessProc'[q] = sessProc[q]
    BY <2>1 DEF Become, SessionTypeOK
  <2>3. sessProc[p] \in Procs
    BY DEF SessionTypeOK
  <2>4. next.pc = (IF torn THEN "truncate" ELSE "load") /\ (torn => next.cut = Len(sessFile) - 1)
    BY <2>3 DEF Procs
  <2>5. Steady /\ ~torn => Clean
    BY DEF Committed, LinesEnded, Clean, SessionTypeOK
  <2> HIDE DEF next
  <2>6. ~HasEntry(p)'
    BY <2>2, <2>4 DEF HasEntry
  <2> QED
    BY <2>1, <2>2, <2>4, <2>5, <2>6, ReadingKeeps
<1>8. ASSUME NEW p \in SessionProc, LoadSession(p) PROVE Committed'
  <2>1. p \in Holders /\ UNCHANGED <<sessFile, sessHistory>> /\ sessProc[p] \in Procs
    BY <1>8 DEF LoadSession, Holders, SessionTypeOK
  <2>2. Steady => Clean
    BY <1>8 DEF LoadSession, Committed, RepairedFirst
  <2>3. ASSUME NEW id \in IF sessProc[p].op = "move" THEN Entries ELSE {sessProc[p].id},
               Become(p, [sessProc[p] EXCEPT !.pc = "write", !.id = id])
        PROVE  Committed'
    <3>1. /\ sessProc'[p].pc = "write" /\ sessProc'[p].op = sessProc[p].op /\ sessProc'[p].id = id
          /\ \A q \in SessionProc \ {p} : sessProc'[q] = sessProc[q]
      BY <2>1, <2>3 DEF Become, SessionTypeOK, Procs
    <3>2. HasEntry(p)' => sessProc'[p].id \in Entries
      BY <2>3, <3>1 DEF HasEntry
    <3> QED
      BY <2>1, <2>2, <3>1, <3>2, ReadingKeeps
  <2>4. ASSUME Become(p, [sessProc[p] EXCEPT !.pc = "release", !.op = "failed"])
        PROVE  Committed'
    <3>1. /\ sessProc'[p].pc = "release" /\ sessProc'[p].op = "failed"
          /\ \A q \in SessionProc \ {p} : sessProc'[q] = sessProc[q]
      BY <2>1, <2>4 DEF Become, SessionTypeOK, Procs
    <3>2. ~HasEntry(p)'
      BY <3>1 DEF HasEntry
    <3> QED
      BY <2>1, <3>1, <3>2, ReadingKeeps
  <2> QED
    BY <1>8, <2>3, <2>4 DEF LoadSession
<1>9. ASSUME NEW p \in SessionProc, ReleaseLock(p) PROVE Committed'
  <2>1. /\ p \in Holders /\ UNCHANGED sessFile /\ (Steady' <=> Steady) /\ Return(p)
        /\ sessAcked' = (IF sessProc[p].op = "append" THEN sessAcked \cup {sessProc[p].id} ELSE sessAcked)
        /\ sessProc[p].pc = "release"
    BY <1>9 DEF ReleaseLock, Holders, Steady
  <2>2. /\ sessProc'[p].pc = "idle"
        /\ \A q \in SessionProc \ {p} : sessProc'[q] = sessProc[q]
    BY <2>1 DEF Return, Become, IdleProc, SessionTypeOK
  <2>3. Entries' = Entries
    BY <2>1 DEF Entries, SessionEvents
  <2>4. Steady => sessAcked' \subseteq Entries
    BY <2>1 DEF Committed, EntriesKept, HasEntry
  <2>5. LinesEnded'
    BY <2>1 DEF Committed, LinesEnded
  <2>6. ~HasEntry(p)'
    BY <2>2 DEF HasEntry
  <2> QED
    BY <2>1, <2>2, <2>3, <2>4, <2>5, <2>6, InsideKeeps DEF Committed, EntriesKept
<1>10. CASE Overstay
  <2>1. UNCHANGED <<sessFile, sessProc, sessHistory>>
    BY <1>10 DEF Overstay
  <2> QED
    BY <2>1, OutsideKeeps DEF Steady
<1>11. CASE UNCHANGED sessVars
  <2>1. UNCHANGED <<sessFile, sessProc, sessHistory>>
    BY <1>11 DEF sessVars
  <2> QED
    BY <2>1, OutsideKeeps DEF Steady
<1> QED
  BY <1>1, <1>2, <1>3, <1>4, <1>5, <1>6, <1>7, <1>8, <1>9, <1>10, <1>11, TruncateKeeps, WriteEventKeeps,
     KillKeeps DEF SessionNext

\* As long as no lock was stolen from a process inside and no append went on in a
\* line whose newline a death had lost, the session loads, every entry whose append returned is in it and its
\* leaf is one of its entries (session-store.ts): any number of processes,
\* mutations, deaths, torn tails and repairs.
THEOREM SessionCommits == SessionSpec => []CommittedUnderLock
<1>1. SessionInv /\ Committed => CommittedUnderLock
  BY CommittedIsReadable DEF CommitInv
<1>2. SessionInv /\ Committed /\ [SessionNext]_sessVars => Committed'
  BY CommitStep
<1> QED
  BY <1>1, <1>2, CommitInitInv, SessionInvariance, PTL DEF SessionSpec

-----------------------------------------------------------------------------
(* Shared sessions                                                         *)

KeyFile == {NoKey, HalfKey} \cup ShCommand
KeyPair == [private : KeyFile, public : KeyFile]
Bundle == [id : Nat, key : KeyFile, public : KeyFile, created : Nat]
CommandPoints ==
  {"idle", "makePrivate", "fillPrivate", "makePublic", "fillPublic", "readPrivate", "readPublic",
   "sign", "post", "get", "got"}
Command == [pc : CommandPoints, pair : KeyPair, bundle : Bundle]
RequestPoints == {"free", "post", "get", "body", "read", "exists", "open", "fill"}
ShareRequest == [pc : RequestPoints, by : Nat, bundle : Bundle]
HeldBundle == [held : {"nothing", "half", "whole"}, bundle : Bundle]

\* The private key of a user is of the command that made it, which has the public key
\* to make; any other that goes on has read it, and the public key or half of it.
HasKeys(c, keys, command) ==
  /\ command.pc = "fillPrivate" => keys.private = HalfKey /\ keys.public = NoKey
  /\ command.pc = "makePublic" => keys.private = c /\ keys.public = NoKey
  /\ command.pc = "fillPublic" => keys.private = c /\ keys.public = HalfKey
  /\ command.pc \in {"makePublic", "fillPublic"} => command.pair.private = c
  /\ command.pc \in {"readPublic", "sign"} =>
       keys.private \in ShCommand /\ command.pair.private = keys.private
  /\ command.pc = "sign" => command.pair.public \in {HalfKey, command.pair.private}

GoodDownload(command) ==
  command.pc = "got" => Verifies(command.bundle) /\ command.bundle.id \in 1..MaxShares

\* There is a public key only for a private one, and it is that one's.
KeysPaired(keys) ==
  keys.public # NoKey => keys.private \in ShCommand /\ keys.public \in {HalfKey, keys.private}

OneMaker ==
  \A c, d \in ShCommand :
    UserOf(c) = UserOf(d) /\ ShAt(c, "fillPrivate") /\ ShAt(d, "fillPrivate") => c = d

ClientInv ==
  /\ shSetup.of \in [ShCommand -> ShUser]
  /\ shKeys \in [ShUser -> KeyPair]
  /\ shCommands \in [ShCommand -> Command]
  /\ \A u \in ShUser : KeysPaired(shKeys[u])
  /\ \A c \in ShCommand : HasKeys(c, shKeys[UserOf(c)], shCommands[c]) /\ GoodDownload(shCommands[c])
  /\ OneMaker

Numbered == {b \in Bundle : b.id \in 1..MaxShares}

\* A file that is half there is filled by one request at most, and by its own.
OneFiller ==
  /\ \A r \in ShRequest : shRequests[r].pc = "fill" => HeldFile(r) = "half"
  /\ \A r, q \in ShRequest :
       /\ shRequests[r].pc = "fill" /\ shRequests[q].pc = "fill"
       /\ shRequests[r].bundle.id = shRequests[q].bundle.id
       => r = q

ServerInv ==
  /\ shMade \in 0..MaxShares /\ shNow \in Nat
  /\ shRequests \in [ShRequest -> ShareRequest]
  /\ shStore \in [1..MaxShares -> HeldBundle]
  /\ shExported \subseteq Numbered /\ shPublished \subseteq Numbered
  /\ \A r \in ShRequest : shRequests[r].pc # "free" => shRequests[r].bundle \in Numbered
  /\ \A i \in 1..MaxShares : shStore[i].held = "whole" => shStore[i].bundle \in Numbered
  /\ OneFiller

SharesInv == ClientInv /\ ServerInv /\ SharesSound

-----------------------------------------------------------------------------
\* What there is before anything happens.
LEMMA Nothing ==
  /\ NoPair \in KeyPair /\ NoBundle \in Bundle /\ NoCommand \in Command /\ NoRequest \in ShareRequest
  /\ NoCommand.pc = "idle" /\ NoRequest.pc = "free" /\ NoPair.public = NoKey
<1>1. NoPair \in KeyPair /\ NoPair.public = NoKey
  BY DEF NoPair, KeyPair, KeyFile
<1>2. NoBundle \in Bundle
  BY DEF NoBundle, Bundle, KeyFile, NoKey
<1>3. NoCommand \in Command /\ NoCommand.pc = "idle"
  BY <1>1, <1>2 DEF NoCommand, Command, CommandPoints
<1>4. NoRequest \in ShareRequest /\ NoRequest.pc = "free"
  BY <1>2 DEF NoRequest, ShareRequest, RequestPoints
<1> QED
  BY <1>1, <1>2, <1>3, <1>4

LEMMA SharesStart == SharesInit => SharesInv
<1> SUFFICES ASSUME SharesInit PROVE SharesInv
  OBVIOUS
<1>1. ClientInv
  BY Nothing, SharesAssumption DEF SharesInit, ClientInv, HasKeys, GoodDownload, KeysPaired, OneMaker, ShAt
<1>2. [held |-> "nothing", bundle |-> NoBundle] \in HeldBundle
  BY Nothing DEF HeldBundle
<1>3. ServerInv
  BY <1>2, Nothing, SharesAssumption DEF SharesInit, ServerInv, OneFiller
<1>4. SharesSound
  BY DEF SharesInit, SharesSound, PublishedIsKept, ExportedVerifies
<1> QED
  BY <1>1, <1>3, <1>4 DEF SharesInv

\* A command moves, and with it the keys of its user.
LEMMA CommandMoves ==
  ASSUME ClientInv, UNCHANGED shSetup, NEW c \in ShCommand, NEW command \in Command,
         NEW keys \in KeyPair, shCommands' = [shCommands EXCEPT ![c] = command],
         shKeys' = [shKeys EXCEPT ![UserOf(c)] = keys],
         KeysPaired(keys), HasKeys(c, keys, command), GoodDownload(command),
         \A d \in ShCommand \ {c} : UserOf(d) = UserOf(c) =>
           /\ HasKeys(d, keys, shCommands[d])
           /\ command.pc = "fillPrivate" => shCommands[d].pc # "fillPrivate"
  PROVE  ClientInv'
<1>1. shSetup'.of \in [ShCommand -> ShUser] /\ \A d \in ShCommand : UserOf(d) \in ShUser /\ UserOf(d)' = UserOf(d)
  BY DEF ClientInv, UserOf
<1>2. shKeys' \in [ShUser -> KeyPair] /\ shCommands' \in [ShCommand -> Command]
  BY <1>1 DEF ClientInv
<1>3. \A u \in ShUser : KeysPaired(shKeys'[u])
  BY <1>1 DEF ClientInv
<1>4. \A d \in ShCommand : HasKeys(d, shKeys'[UserOf(d)], shCommands'[d]) /\ GoodDownload(shCommands'[d])
  <2> SUFFICES ASSUME NEW d \in ShCommand
               PROVE  HasKeys(d, shKeys'[UserOf(d)], shCommands'[d]) /\ GoodDownload(shCommands'[d])
    OBVIOUS
  <2>1. CASE d = c
    BY <1>1, <2>1 DEF ClientInv
  <2>2. CASE d # c /\ UserOf(d) = UserOf(c)
    BY <1>1, <2>2 DEF ClientInv
  <2>3. CASE d # c /\ UserOf(d) # UserOf(c)
    BY <1>1, <2>3 DEF ClientInv
  <2> QED
    BY <2>1, <2>2, <2>3
<1>5. OneMaker'
  BY <1>1 DEF ClientInv, OneMaker, ShAt
<1> QED
  BY <1>1, <1>2, <1>3, <1>4, <1>5 DEF ClientInv, HasKeys, GoodDownload, KeysPaired, Verifies

\* Commands that end, or ask the server, have no more to do with the keys.
LEMMA CommandsLeave ==
  ASSUME ClientInv, UNCHANGED <<shSetup, shKeys>>, shCommands' \in [ShCommand -> Command],
         \A c \in ShCommand : \/ shCommands'[c] = shCommands[c]
                              \/ /\ shCommands'[c].pc \in {"idle", "post", "get", "got"}
                                 /\ GoodDownload(shCommands'[c])
  PROVE  ClientInv'
<1>1. \A d \in ShCommand : UserOf(d)' = UserOf(d)
  BY DEF UserOf
<1>2. \A d \in ShCommand : HasKeys(d, shKeys[UserOf(d)], shCommands'[d]) /\ GoodDownload(shCommands'[d])
  BY DEF ClientInv, HasKeys
<1>3. OneMaker'
  BY <1>1 DEF ClientInv, OneMaker, ShAt
<1> QED
  BY <1>1, <1>2, <1>3 DEF ClientInv, HasKeys, GoodDownload, KeysPaired, Verifies

\* What a command is before it moves.
LEMMA CommandBefore ==
  ASSUME ClientInv, NEW c \in ShCommand
  PROVE  /\ shCommands[c] \in Command /\ shKeys[UserOf(c)] \in KeyPair
         /\ UserOf(c) \in ShUser /\ KeysPaired(shKeys[UserOf(c)])
         /\ HasKeys(c, shKeys[UserOf(c)], shCommands[c])
         /\ shCommands \in [ShCommand -> Command] /\ shKeys \in [ShUser -> KeyPair]
         /\ c \in Nat /\ c # NoKey /\ c # HalfKey
  BY SharesAssumption DEF ClientInv, UserOf, NoKey, HalfKey

\* A command goes from one point to another that the keys do not matter at.
LEMMA CommandGoes ==
  ASSUME ClientInv, UNCHANGED <<shSetup, shKeys>>, NEW c \in ShCommand, NEW command \in Command,
         shCommands' = [shCommands EXCEPT ![c] = command],
         HasKeys(c, shKeys[UserOf(c)], command), GoodDownload(command),
         command.pc # "fillPrivate"
  PROVE  ClientInv'
<1>1. /\ shKeys[UserOf(c)] \in KeyPair /\ KeysPaired(shKeys[UserOf(c)])
      /\ shKeys' = [shKeys EXCEPT ![UserOf(c)] = shKeys[UserOf(c)]]
  BY CommandBefore
<1>2. \A d \in ShCommand \ {c} : UserOf(d) = UserOf(c) => HasKeys(d, shKeys[UserOf(c)], shCommands[d])
  BY CommandBefore
<1> QED
  BY <1>1, <1>2, CommandMoves

LEMMA EndKeeps ==
  ASSUME ClientInv, UNCHANGED <<shSetup, shKeys>>, NEW c \in ShCommand, ShEnds(c)
  PROVE  ClientInv'
<1>1. shCommands' = [shCommands EXCEPT ![c] = NoCommand]
  BY DEF ShEnds
<1>2. HasKeys(c, shKeys[UserOf(c)], NoCommand) /\ GoodDownload(NoCommand)
  BY Nothing DEF HasKeys, GoodDownload
<1> QED
  BY <1>1, <1>2, Nothing, CommandGoes

LEMMA ExportKeeps == ASSUME ClientInv, NEW c \in ShCommand, Export(c) PROVE ClientInv'
<1> DEFINE point == IF shKeys[UserOf(c)].private = NoKey THEN "makePrivate" ELSE "readPrivate"
           command == [shCommands[c] EXCEPT !.pc = point]
<1>1. /\ shCommands' = [shCommands EXCEPT ![c] = command] /\ command \in Command
      /\ command.pc \in {"makePrivate", "readPrivate"} /\ UNCHANGED <<shSetup, shKeys>>
  BY CommandBefore DEF Export, ShGoto, ShServerKept, Command, CommandPoints
<1> HIDE DEF command
<1>2. HasKeys(c, shKeys[UserOf(c)], command) /\ GoodDownload(command)
  BY <1>1 DEF HasKeys, GoodDownload
<1> QED
  BY <1>1, <1>2, CommandGoes

\* What a command reads is the user's private key, and then its public key or half of it.
LEMMA ReadKeeps ==
  ASSUME ClientInv, NEW c \in ShCommand, ReadKey(c, "private") \/ ReadKey(c, "public")
  PROVE  ClientInv'
<1>0. UNCHANGED <<shSetup, shKeys>>
  BY DEF ReadKey, ShServerKept
<1>1. CASE ShEnds(c)
  BY <1>0, <1>1, EndKeeps
<1>2. CASE /\ shKeys[UserOf(c)].private \notin {NoKey, HalfKey}
           /\ shCommands' = [shCommands EXCEPT ![c].pair["private"] = shKeys[UserOf(c)].private,
                               ![c].pc = "readPublic"]
  <2> DEFINE command == [shCommands[c] EXCEPT !.pair.private = shKeys[UserOf(c)].private,
                           !.pc = "readPublic"]
  <2>1. shKeys[UserOf(c)].private \in ShCommand
    BY <1>2, CommandBefore DEF KeyPair, KeyFile
  <2>2. /\ shCommands' = [shCommands EXCEPT ![c] = command] /\ command \in Command
        /\ command.pc = "readPublic" /\ command.pair.private = shKeys[UserOf(c)].private
    BY <1>2, CommandBefore DEF Command, CommandPoints, KeyPair
  <2> HIDE DEF command
  <2>3. HasKeys(c, shKeys[UserOf(c)], command) /\ GoodDownload(command)
    BY <2>1, <2>2 DEF HasKeys, GoodDownload
  <2> QED
    BY <1>0, <2>2, <2>3, CommandGoes
<1>3. CASE /\ ShAt(c, "readPublic") /\ shKeys[UserOf(c)].public # NoKey
           /\ shCommands' = [shCommands EXCEPT ![c].pair["public"] = shKeys[UserOf(c)].public,
                               ![c].pc = "sign"]
  <2> DEFINE command == [shCommands[c] EXCEPT !.pair.public = shKeys[UserOf(c)].public,
                           !.pc = "sign"]
  <2>1. /\ shKeys[UserOf(c)].private \in ShCommand
        /\ shCommands[c].pair.private = shKeys[UserOf(c)].private
        /\ shKeys[UserOf(c)].public \in {HalfKey, shKeys[UserOf(c)].private}
    BY <1>3, CommandBefore DEF HasKeys, KeysPaired, ShAt
  <2>2. /\ shCommands' = [shCommands EXCEPT ![c] = command] /\ command \in Command
        /\ command.pc = "sign" /\ command.pair.private = shCommands[c].pair.private
        /\ command.pair.public = shKeys[UserOf(c)].public
    BY <1>3, CommandBefore DEF Command, CommandPoints, KeyPair
  <2> HIDE DEF command
  <2>3. HasKeys(c, shKeys[UserOf(c)], command) /\ GoodDownload(command)
    BY <2>1, <2>2 DEF HasKeys, GoodDownload
  <2> QED
    BY <1>0, <2>2, <2>3, CommandGoes
<1> QED
  BY <1>1, <1>2, <1>3 DEF ReadKey

\* A key file is opened: the private one only where there was none, and so no public one.
LEMMA MakeKeeps ==
  ASSUME ClientInv, NEW c \in ShCommand, MakeKey(c, "private") \/ MakeKey(c, "public")
  PROVE  ClientInv'
<1>0. UNCHANGED shSetup
  BY DEF MakeKey, ShServerKept
<1>1. CASE ShEnds(c) /\ UNCHANGED shKeys
  BY <1>0, <1>1, EndKeeps
<1>2. CASE /\ shKeys[UserOf(c)].private = NoKey
           /\ shKeys' = [shKeys EXCEPT ![UserOf(c)]["private"] = HalfKey]
           /\ ShGoto(c, "fillPrivate")
  <2> DEFINE command == [shCommands[c] EXCEPT !.pc = "fillPrivate"]
             keys == [shKeys[UserOf(c)] EXCEPT !.private = HalfKey]
  <2>1. shKeys[UserOf(c)].public = NoKey
    BY <1>2, CommandBefore DEF KeysPaired
  <2>2. /\ shCommands' = [shCommands EXCEPT ![c] = command] /\ command \in Command
        /\ command.pc = "fillPrivate"
    BY <1>2, CommandBefore DEF Command, CommandPoints, ShGoto
  <2>3. /\ shKeys' = [shKeys EXCEPT ![UserOf(c)] = keys] /\ keys \in KeyPair
        /\ keys.private = HalfKey /\ keys.public = NoKey
    BY <1>2, <2>1, CommandBefore DEF KeyPair, KeyFile
  <2> HIDE DEF command, keys
  <2>4. \A d \in ShCommand : UserOf(d) = UserOf(c) =>
          shCommands[d].pc \notin {"fillPrivate", "makePublic", "fillPublic", "readPublic", "sign"}
    <3> SUFFICES ASSUME NEW d \in ShCommand, UserOf(d) = UserOf(c)
        PROVE shCommands[d].pc \notin {"fillPrivate", "makePublic", "fillPublic", "readPublic", "sign"}
      OBVIOUS
    <3>1. NoKey \notin ShCommand /\ HalfKey # NoKey /\ d # NoKey
      BY SharesAssumption DEF NoKey, HalfKey
    <3> QED
      BY <1>2, <3>1, CommandBefore DEF HasKeys
  <2>5. /\ KeysPaired(keys) /\ HasKeys(c, keys, command) /\ GoodDownload(command)
        /\ \A d \in ShCommand \ {c} : UserOf(d) = UserOf(c) =>
             HasKeys(d, keys, shCommands[d]) /\ shCommands[d].pc # "fillPrivate"
    BY <2>2, <2>3, <2>4 DEF KeysPaired, HasKeys, GoodDownload
  <2> QED
    BY <1>0, <2>2, <2>3, <2>5, CommandMoves
<1>3. CASE /\ ShAt(c, "makePublic")
           /\ shKeys' = [shKeys EXCEPT ![UserOf(c)]["public"] = HalfKey]
           /\ ShGoto(c, "fillPublic")
  <2> DEFINE command == [shCommands[c] EXCEPT !.pc = "fillPublic"]
             keys == [shKeys[UserOf(c)] EXCEPT !.public = HalfKey]
  <2>1. shKeys[UserOf(c)].private = c /\ shCommands[c].pair.private = c
    BY <1>3, CommandBefore DEF HasKeys, ShAt
  <2>2. /\ shCommands' = [shCommands EXCEPT ![c] = command] /\ command \in Command
        /\ command.pc = "fillPublic" /\ command.pair = shCommands[c].pair
    BY <1>3, CommandBefore DEF Command, CommandPoints, ShGoto
  <2>3. /\ shKeys' = [shKeys EXCEPT ![UserOf(c)] = keys] /\ keys \in KeyPair
        /\ keys.private = c /\ keys.public = HalfKey
    BY <1>3, <2>1, CommandBefore DEF KeyPair, KeyFile
  <2> HIDE DEF command, keys
  <2>4. \A d \in ShCommand \ {c} : UserOf(d) = UserOf(c) => HasKeys(d, keys, shCommands[d])
    BY <2>1, <2>3, CommandBefore DEF HasKeys
  <2>5. KeysPaired(keys) /\ HasKeys(c, keys, command) /\ GoodDownload(command)
    BY <2>1, <2>2, <2>3 DEF KeysPaired, HasKeys, GoodDownload
  <2> QED
    BY <1>0, <2>2, <2>3, <2>4, <2>5, CommandMoves
<1> QED
  BY <1>1, <1>2, <1>3 DEF MakeKey

\* A key file is filled by the command that has opened it.
LEMMA FillKeeps ==
  ASSUME ClientInv, NEW c \in ShCommand, FillKey(c, "private") \/ FillKey(c, "public")
  PROVE  ClientInv'
<1>0. UNCHANGED shSetup
  BY DEF FillKey, ShServerKept
<1>1. CASE FillKey(c, "private")
  <2> DEFINE command == [shCommands[c] EXCEPT !.pair.private = c, !.pc = "makePublic"]
             keys == [shKeys[UserOf(c)] EXCEPT !.private = c]
  <2>1. /\ shKeys[UserOf(c)].private = HalfKey /\ shKeys[UserOf(c)].public = NoKey
        /\ shCommands[c].pc = "fillPrivate"
    BY <1>1, CommandBefore DEF HasKeys, ShAt, FillKey
  <2>2. /\ shCommands' = [shCommands EXCEPT ![c] = command] /\ command \in Command
        /\ command.pc = "makePublic" /\ command.pair.private = c
    <3>1. /\ shCommands' = [shCommands EXCEPT ![c].pair["private"] = c, ![c].pc = "makePublic"]
          /\ c \in KeyFile
      BY <1>1 DEF FillKey, KeyFile
    <3> QED
      BY <3>1, CommandBefore DEF Command, CommandPoints, KeyPair
  <2>3. /\ shKeys' = [shKeys EXCEPT ![UserOf(c)] = keys] /\ keys \in KeyPair
        /\ keys.private = c /\ keys.public = NoKey
    <3>1. shKeys' = [shKeys EXCEPT ![UserOf(c)]["private"] = c] /\ c \in KeyFile
      BY <1>1 DEF FillKey, KeyFile
    <3> QED
      BY <2>1, <3>1, CommandBefore DEF KeyPair
  <2> HIDE DEF command, keys
  <2>4. \A d \in ShCommand \ {c} : UserOf(d) = UserOf(c) => HasKeys(d, keys, shCommands[d])
    <3> SUFFICES ASSUME NEW d \in ShCommand \ {c}, UserOf(d) = UserOf(c)
                 PROVE  HasKeys(d, keys, shCommands[d])
      OBVIOUS
    <3>1. HalfKey \notin ShCommand /\ d # HalfKey
      BY SharesAssumption DEF HalfKey
    <3>2. shCommands[d].pc # "fillPrivate"
      BY <2>1 DEF ClientInv, OneMaker, ShAt
    <3> QED
      BY <2>1, <3>1, <3>2, CommandBefore DEF HasKeys
  <2>5. KeysPaired(keys) /\ HasKeys(c, keys, command) /\ GoodDownload(command)
    BY <2>2, <2>3 DEF KeysPaired, HasKeys, GoodDownload
  <2> QED
    BY <1>0, <2>2, <2>3, <2>4, <2>5, CommandMoves
<1>2. CASE FillKey(c, "public")
  <2> DEFINE command == [shCommands[c] EXCEPT !.pair.public = c, !.pc = "sign"]
             keys == [shKeys[UserOf(c)] EXCEPT !.public = c]
  <2>1. /\ shKeys[UserOf(c)].private = c /\ shKeys[UserOf(c)].public = HalfKey
        /\ shCommands[c].pair.private = c
    BY <1>2, CommandBefore DEF HasKeys, ShAt, FillKey
  <2>2. /\ shCommands' = [shCommands EXCEPT ![c] = command] /\ command \in Command
        /\ command.pc = "sign" /\ command.pair.private = c /\ command.pair.public = c
    <3>1. /\ shCommands' = [shCommands EXCEPT ![c].pair["public"] = c, ![c].pc = "sign"]
          /\ c \in KeyFile
      BY <1>2 DEF FillKey, KeyFile
    <3> QED
      BY <2>1, <3>1, CommandBefore DEF Command, CommandPoints, KeyPair
  <2>3. /\ shKeys' = [shKeys EXCEPT ![UserOf(c)] = keys] /\ keys \in KeyPair
        /\ keys.private = c /\ keys.public = c
    <3>1. shKeys' = [shKeys EXCEPT ![UserOf(c)]["public"] = c] /\ c \in KeyFile
      BY <1>2 DEF FillKey, KeyFile
    <3> QED
      BY <2>1, <3>1, CommandBefore DEF KeyPair
  <2> HIDE DEF command, keys
  <2>4. \A d \in ShCommand \ {c} : UserOf(d) = UserOf(c) => HasKeys(d, keys, shCommands[d])
    <3> SUFFICES ASSUME NEW d \in ShCommand \ {c}, UserOf(d) = UserOf(c)
                 PROVE  HasKeys(d, keys, shCommands[d])
      OBVIOUS
    <3>1. c # HalfKey /\ c # NoKey
      BY CommandBefore
    <3> QED
      BY <2>1, <2>3, <3>1, CommandBefore DEF HasKeys
  <2>5. KeysPaired(keys) /\ HasKeys(c, keys, command) /\ GoodDownload(command)
    BY <2>2, <2>3 DEF KeysPaired, HasKeys, GoodDownload
  <2> QED
    BY <1>0, <2>2, <2>3, <2>4, <2>5, CommandMoves
<1> QED
  BY <1>1, <1>2

\* What ends, or is told, is idle.
LEMMA ClientEnds ==
  ASSUME ClientInv, UNCHANGED <<shSetup, shKeys>>,
         \/ UNCHANGED shCommands
         \/ \E c \in ShCommand : ShEnds(c)
         \/ \E r \in ShRequest : ShTold(r)
         \/ shCommands' = [c \in ShCommand |->
              IF shCommands[c].pc \in {"post", "get"} THEN NoCommand ELSE shCommands[c]]
  PROVE  ClientInv'
<1>1. CASE UNCHANGED shCommands
  BY <1>1, CommandsLeave DEF ClientInv
<1>2. CASE \E c \in ShCommand : ShEnds(c)
  BY <1>2, EndKeeps
<1>3. CASE \/ \E r \in ShRequest : ShTold(r)
           \/ shCommands' = [c \in ShCommand |->
                IF shCommands[c].pc \in {"post", "get"} THEN NoCommand ELSE shCommands[c]]
  <2>1. /\ shCommands' \in [ShCommand -> Command]
        /\ \A c \in ShCommand : shCommands'[c] \in {shCommands[c], NoCommand}
    BY <1>3, Nothing DEF ShTold, ClientInv
  <2>2. GoodDownload(NoCommand) /\ NoCommand.pc = "idle"
    BY Nothing DEF GoodDownload
  <2> QED
    BY <2>1, <2>2, CommandsLeave
<1> QED
  BY <1>1, <1>2, <1>3

-----------------------------------------------------------------------------
\* The server's side is not touched by a command that only works on its keys.
LEMMA ServerRests ==
  ASSUME ServerInv, SharesSound,
         UNCHANGED <<shRequests, shStore, shNow, shPublished, shExported, shMade>>
  PROVE  ServerInv' /\ SharesSound'
  BY DEF ServerInv, OneFiller, HeldFile, SharesSound, PublishedIsKept, ExportedVerifies, Verifies

\* Requests that are over, or move to a point before the file is filled.
LEMMA RequestsMove ==
  ASSUME ServerInv, SharesSound,
         UNCHANGED <<shStore, shPublished, shExported, shMade>>, shNow' \in Nat,
         shRequests' \in [ShRequest -> ShareRequest],
         \A r \in ShRequest :
           \/ shRequests'[r].pc = "free"
           \/ /\ shRequests'[r].pc # "fill" \/ shRequests[r].pc = "fill"
              /\ shRequests'[r].bundle = shRequests[r].bundle /\ shRequests[r].pc # "free"
           \/ shRequests'[r].pc # "fill" /\ shRequests'[r].bundle \in Numbered
  PROVE  ServerInv' /\ SharesSound'
<1>1. \A r \in ShRequest : shRequests'[r].pc # "free" => shRequests'[r].bundle \in Numbered
  BY DEF ServerInv
<1>2. \A r \in ShRequest : shRequests'[r].pc = "fill" =>
        shRequests[r].pc = "fill" /\ shRequests'[r].bundle = shRequests[r].bundle
  OBVIOUS
<1>3. OneFiller'
  BY <1>2 DEF ServerInv, OneFiller, HeldFile
<1> QED
  BY <1>1, <1>3 DEF ServerInv, SharesSound, PublishedIsKept, ExportedVerifies, Verifies

\* What a request is before it moves.
LEMMA RequestBefore ==
  ASSUME ServerInv, NEW r \in ShRequest
  PROVE  /\ shRequests[r] \in ShareRequest /\ shRequests \in [ShRequest -> ShareRequest]
         /\ shRequests[r].pc # "free" => shRequests[r].bundle \in Numbered
         /\ shNow \in Nat
  BY DEF ServerInv

LEMMA AnswerKeeps ==
  ASSUME ServerInv, SharesSound, NEW r \in ShRequest, ShAnswer(r),
         UNCHANGED <<shStore, shNow, shPublished, shExported, shMade>>
  PROVE  ServerInv' /\ SharesSound'
<1>1. shRequests' = [shRequests EXCEPT ![r] = NoRequest]
  BY DEF ShAnswer
<1>2. /\ shRequests' \in [ShRequest -> ShareRequest] /\ shRequests'[r].pc = "free"
      /\ \A q \in ShRequest : q # r => shRequests'[q] = shRequests[q]
  BY <1>1, Nothing, RequestBefore
<1>3. \A q \in ShRequest : shRequests[q].pc = "free" \/ shRequests[q].pc # "free"
  OBVIOUS
<1> QED
  BY <1>2, <1>3, RequestBefore, RequestsMove

LEMMA NextKeeps ==
  ASSUME ServerInv, SharesSound, NEW r \in ShRequest, NEW point \in RequestPoints \ {"fill"},
         ShNext(r, point), shRequests[r].pc # "free",
         UNCHANGED <<shStore, shNow, shPublished, shExported, shMade>>
  PROVE  ServerInv' /\ SharesSound'
<1> DEFINE request == [shRequests[r] EXCEPT !.pc = point]
<1>1. /\ shRequests' = [shRequests EXCEPT ![r] = request] /\ request \in ShareRequest
      /\ request.pc = point /\ request.bundle = shRequests[r].bundle
  BY RequestBefore DEF ShNext, ShareRequest
<1> HIDE DEF request
<1>2. /\ shRequests' \in [ShRequest -> ShareRequest] /\ shRequests'[r] = request
      /\ \A q \in ShRequest : q # r => shRequests'[q] = shRequests[q]
  BY <1>1, RequestBefore
<1> QED
  BY <1>1, <1>2, RequestBefore, RequestsMove

\* A command signs, or keeps what it has downloaded.
LEMMA ExportedKeeps ==
  ASSUME ServerInv, SharesSound, NEW b \in Numbered, Verifies(b) \/ b.public = HalfKey,
         shExported' = shExported \cup {b}, shMade' \in 0..MaxShares,
         UNCHANGED <<shRequests, shStore, shNow, shPublished>>
  PROVE  ServerInv' /\ SharesSound'
  BY DEF ServerInv, OneFiller, HeldFile, SharesSound, PublishedIsKept, ExportedVerifies, Verifies

LEMMA SignKeeps == ASSUME SharesInv, NEW c \in ShCommand, Sign(c) PROVE SharesInv'
<1> DEFINE b == [id |-> shMade + 1, key |-> shCommands[c].pair.private,
                 public |-> shCommands[c].pair.public, created |-> shNow]
<1>0. ClientInv /\ ServerInv /\ SharesSound
  BY DEF SharesInv
<1>1. shCommands[c].pair.private \in KeyFile /\ shCommands[c].pair.public \in KeyFile
  BY <1>0, CommandBefore DEF Command, KeyPair
<1>2. b \in Numbered /\ shMade + 1 \in 0..MaxShares
  BY <1>0, <1>1, SharesAssumption DEF Numbered, Bundle, ServerInv, Sign
<1>3. Verifies(b) \/ b.public = HalfKey
  BY <1>0, CommandBefore DEF HasKeys, Sign, ShAt, Verifies
<1>4. /\ shExported' = shExported \cup {b} /\ shMade' = shMade + 1 /\ ShEnds(c)
      /\ UNCHANGED <<shRequests, shStore, shNow, shPublished, shSetup, shKeys>>
  BY DEF Sign, ShServerKept
<1> HIDE DEF b
<1>5. ServerInv' /\ SharesSound'
  BY <1>0, <1>2, <1>3, <1>4, ExportedKeeps
<1>6. ClientInv'
  BY <1>0, <1>4, EndKeeps
<1> QED
  BY <1>5, <1>6 DEF SharesInv

LEMMA GotKeeps == ASSUME SharesInv, NEW c \in ShCommand, Got(c) PROVE SharesInv'
<1>0. ClientInv /\ ServerInv /\ SharesSound
  BY DEF SharesInv
<1>1. /\ shExported' = shExported \cup {shCommands[c].bundle} /\ ShEnds(c)
      /\ UNCHANGED <<shRequests, shStore, shNow, shPublished, shSetup, shKeys, shMade>>
  BY DEF Got, ShServerKept
<1>2. Verifies(shCommands[c].bundle) /\ shCommands[c].bundle \in Numbered
  <2>1. shCommands[c].bundle \in Bundle
    BY <1>0, CommandBefore DEF Command
  <2> QED
    BY <1>0, <2>1 DEF Got, ShAt, ClientInv, GoodDownload, Numbered
<1>3. shMade' \in 0..MaxShares
  BY <1>0, <1>1 DEF ServerInv
<1>4. ServerInv' /\ SharesSound'
  BY <1>0, <1>1, <1>2, <1>3, ExportedKeeps
<1>5. ClientInv'
  BY <1>0, <1>1, EndKeeps
<1> QED
  BY <1>4, <1>5 DEF SharesInv

\* A request is sent.
LEMMA AskKeeps ==
  ASSUME SharesInv, NEW c \in ShCommand, Publish(c) \/ Download(c) PROVE SharesInv'
<1>0. ClientInv /\ ServerInv /\ SharesSound
  BY DEF SharesInv
<1>1. PICK kind \in {"post", "get"}, b \in Numbered : Ask(c, kind, b)
  <2>1. CASE Publish(c)
    BY <1>0, <2>1 DEF Publish, ServerInv
  <2>2. CASE Download(c)
    <3>1. PICK i \in 1..shMade : Ask(c, "get", [NoBundle EXCEPT !.id = i])
      BY <2>2 DEF Download
    <3>2. [NoBundle EXCEPT !.id = i] \in Numbered
      <4>1. i \in Nat /\ i \in 1..MaxShares
        BY <1>0, SharesAssumption DEF ServerInv
      <4>2. NoBundle \in Bundle
        BY Nothing
      <4> QED
        BY <4>1, <4>2 DEF Numbered, Bundle
    <3> QED
      BY <3>1, <3>2
  <2> QED
    BY <2>1, <2>2
<1>2. PICK r \in ShRequest :
        /\ shRequests[r].pc = "free"
        /\ shRequests' = [shRequests EXCEPT ![r] = [pc |-> kind, by |-> c, bundle |-> b]]
        /\ shCommands' = [shCommands EXCEPT ![c].pc = kind]
        /\ UNCHANGED <<shKeys, shExported, shMade, shSetup, shNow, shStore, shPublished>>
  BY <1>1 DEF Ask, ShClientKept
<1> DEFINE request == [pc |-> kind, by |-> c, bundle |-> b]
           command == [shCommands[c] EXCEPT !.pc = kind]
<1>3. request \in ShareRequest /\ request.pc = kind /\ request.bundle = b
  BY SharesAssumption DEF ShareRequest, RequestPoints, Numbered
<1>4. /\ shCommands' = [shCommands EXCEPT ![c] = command] /\ command \in Command /\ command.pc = kind
  BY <1>0, <1>2, CommandBefore DEF Command, CommandPoints
<1>5. shRequests' = [shRequests EXCEPT ![r] = request]
  BY <1>2
<1> HIDE DEF request, command
<1>6. /\ shRequests' \in [ShRequest -> ShareRequest] /\ shRequests'[r] = request
      /\ \A q \in ShRequest : q # r => shRequests'[q] = shRequests[q]
  BY <1>0, <1>3, <1>5, RequestBefore
<1>7. shNow' \in Nat /\ kind # "fill"
  BY <1>0, <1>2 DEF ServerInv
<1>8. ServerInv' /\ SharesSound'
  BY <1>0, <1>2, <1>3, <1>6, <1>7, RequestBefore, RequestsMove
<1>9. HasKeys(c, shKeys[UserOf(c)], command) /\ GoodDownload(command) /\ command.pc # "fillPrivate"
  BY <1>4 DEF HasKeys, GoodDownload
<1>10. ClientInv'
  BY <1>0, <1>2, <1>4, <1>9, CommandGoes
<1> QED
  BY <1>8, <1>10 DEF SharesInv

\* A command is gone; what the server has received it goes on with.
LEMMA HangupKeeps == ASSUME SharesInv, NEW c \in ShCommand, Hangup(c) PROVE SharesInv'
<1>0. ClientInv /\ ServerInv /\ SharesSound
  BY DEF SharesInv
<1>1. /\ shRequests' = [r \in ShRequest |->
           IF shRequests[r].by # c THEN shRequests[r]
           ELSE IF shRequests[r].pc \in {"post", "get"} THEN NoRequest
           ELSE [shRequests[r] EXCEPT !.by = 0]]
      /\ ShEnds(c)
      /\ UNCHANGED <<shSetup, shKeys, shExported, shStore, shNow, shMade, shPublished>>
  BY DEF Hangup
<1>2. \A r \in ShRequest :
        LET less == [shRequests[r] EXCEPT !.by = 0] IN
        less \in ShareRequest /\ less.pc = shRequests[r].pc /\ less.bundle = shRequests[r].bundle
  BY <1>0, RequestBefore DEF ShareRequest
<1>3. /\ shRequests' \in [ShRequest -> ShareRequest]
      /\ \A r \in ShRequest : \/ shRequests'[r].pc = "free"
                              \/ /\ shRequests'[r].pc = shRequests[r].pc
                                 /\ shRequests'[r].bundle = shRequests[r].bundle
  BY <1>0, <1>1, <1>2, RequestBefore, Nothing
<1>4. shNow' \in Nat
  BY <1>0, <1>1 DEF ServerInv
<1>5. ServerInv' /\ SharesSound'
  BY <1>0, <1>1, <1>3, <1>4, RequestsMove
<1>6. ClientInv'
  BY <1>0, <1>1, EndKeeps
<1> QED
  BY <1>5, <1>6 DEF SharesInv

\* The server looks at a request before it opens a file.
LEMMA LooksKeep ==
  ASSUME SharesInv, NEW r \in ShRequest, Receive(r) \/ Validate(r) \/ FileExists(r)
  PROVE  SharesInv'
<1>0. ClientInv /\ ServerInv /\ SharesSound
  BY DEF SharesInv
<1>1. /\ UNCHANGED <<shSetup, shKeys, shStore, shNow, shPublished, shExported, shMade>>
      /\ shRequests[r].pc # "free"
  BY DEF Receive, Validate, FileExists, ShClientKept
<1>2. \/ ShAnswer(r) /\ ShTold(r)
      \/ \E point \in {"body", "read", "exists", "open"} : ShNext(r, point)
  BY DEF Receive, Validate, FileExists
<1>3. CASE ShAnswer(r) /\ ShTold(r)
  BY <1>0, <1>1, <1>3, AnswerKeeps, ClientEnds DEF SharesInv
<1>4. CASE \E point \in {"body", "read", "exists", "open"} : ShNext(r, point)
  <2>1. PICK point \in RequestPoints \ {"fill"} : ShNext(r, point)
    BY <1>4 DEF RequestPoints
  <2>2. UNCHANGED shCommands
    BY <2>1 DEF ShNext
  <2> QED
    BY <1>0, <1>1, <2>1, <2>2, NextKeeps, ClientEnds DEF SharesInv
<1> QED
  BY <1>2, <1>3, <1>4

\* What is published is there, whole.
LEMMA PublishedWhole ==
  ASSUME ServerInv, SharesSound, NEW b \in shPublished
  PROVE  b.id \in 1..MaxShares /\ shStore[b.id].held = "whole"
<1>1. b.id \in 1..MaxShares
  BY DEF ServerInv, Numbered
<1>2. shStore[b.id] = [held |-> "whole", bundle |-> b]
  BY DEF SharesSound, PublishedIsKept
<1> QED
  BY <1>1, <1>2

\* A new file is opened: it is nobody else's, and nobody was told of it.
LEMMA OpenKeeps == ASSUME SharesInv, NEW r \in ShRequest, OpenFile(r) PROVE SharesInv'
<1>0. ClientInv /\ ServerInv /\ SharesSound
  BY DEF SharesInv
<1>1. /\ UNCHANGED <<shSetup, shKeys, shNow, shPublished, shExported, shMade>>
      /\ shRequests[r].pc = "open"
  BY DEF OpenFile, ShClientKept
<1>2. CASE ShAnswer(r) /\ ShTold(r) /\ UNCHANGED shStore
  BY <1>0, <1>1, <1>2, AnswerKeeps, ClientEnds DEF SharesInv
<1>3. CASE /\ HeldFile(r) = "nothing" /\ ShNext(r, "fill")
           /\ shStore' = [shStore EXCEPT ![shRequests[r].bundle.id].held = "half"]
  <2>1. PICK i \in 1..MaxShares : i = shRequests[r].bundle.id
    BY <1>0, <1>1, RequestBefore DEF Numbered
  <2> DEFINE request == [shRequests[r] EXCEPT !.pc = "fill"]
             file == [shStore[i] EXCEPT !.held = "half"]
  <2>2. /\ shRequests' = [shRequests EXCEPT ![r] = request] /\ request \in ShareRequest
        /\ request.pc = "fill" /\ request.bundle = shRequests[r].bundle
    BY <1>0, <1>3, RequestBefore DEF ShNext, ShareRequest, RequestPoints
  <2>3. /\ shStore' = [shStore EXCEPT ![i] = file] /\ file \in HeldBundle /\ file.held = "half"
        /\ shStore \in [1..MaxShares -> HeldBundle] /\ shStore[i].held = "nothing"
    BY <1>0, <1>3, <2>1 DEF ServerInv, HeldBundle, HeldFile
  <2> HIDE DEF request, file
  <2>4. /\ shRequests' \in [ShRequest -> ShareRequest] /\ shRequests'[r] = request
        /\ \A q \in ShRequest : q # r => shRequests'[q] = shRequests[q]
        /\ shStore' \in [1..MaxShares -> HeldBundle] /\ shStore'[i] = file
        /\ \A j \in 1..MaxShares : j # i => shStore'[j] = shStore[j]
    BY <1>0, <2>2, <2>3, RequestBefore
  <2>5. \A q \in ShRequest : q # r /\ shRequests[q].pc = "fill" =>
          shRequests[q].bundle.id \in 1..MaxShares \ {i} /\ shStore[shRequests[q].bundle.id].held = "half"
    BY <1>0, <2>3, RequestBefore DEF ServerInv, OneFiller, HeldFile, Numbered
  <2>6. OneFiller'
    BY <1>0, <2>1, <2>2, <2>3, <2>4, <2>5 DEF ServerInv, OneFiller, HeldFile
  <2>7. ServerInv'
    BY <1>0, <1>1, <2>2, <2>3, <2>4, <2>6 DEF ServerInv
  <2>8. \A b \in shPublished : b.id \in 1..MaxShares \ {i}
    BY <1>0, <2>3, PublishedWhole
  <2>9. SharesSound'
    BY <1>0, <1>1, <2>4, <2>8 DEF SharesSound, PublishedIsKept, ExportedVerifies, Verifies
  <2> QED
    BY <1>0, <1>1, <1>3, <2>7, <2>9, ClientEnds DEF SharesInv, ShNext
<1> QED
  BY <1>2, <1>3 DEF OpenFile

\* The file is filled by the one who has opened it, and the command is told.
LEMMA FillFileKeeps == ASSUME SharesInv, NEW r \in ShRequest, FillFile(r) PROVE SharesInv'
<1>0. ClientInv /\ ServerInv /\ SharesSound
  BY DEF SharesInv
<1>1. /\ UNCHANGED <<shSetup, shKeys, shNow, shExported, shMade>>
      /\ shRequests[r].pc = "fill" /\ ShAnswer(r) /\ ShTold(r)
  BY DEF FillFile, ShClientKept
<1>2. PICK b \in Numbered :
        /\ b = shRequests[r].bundle
        /\ shStore' = [shStore EXCEPT ![b.id] = [held |-> "whole", bundle |-> b]]
        /\ shPublished' = shPublished \cup {b}
  BY <1>0, <1>1, RequestBefore DEF FillFile
<1> DEFINE file == [held |-> "whole", bundle |-> b]
<1>3. /\ file \in HeldBundle /\ file.held = "whole" /\ file.bundle = b
      /\ b \in Bundle /\ b.id \in 1..MaxShares
      /\ shStore \in [1..MaxShares -> HeldBundle] /\ shStore[b.id].held = "half"
  BY <1>0, <1>1, <1>2 DEF ServerInv, HeldBundle, Numbered, OneFiller, HeldFile
<1>4. shStore' = [shStore EXCEPT ![b.id] = file]
  BY <1>2
<1>5. /\ shRequests' \in [ShRequest -> ShareRequest] /\ shRequests'[r].pc = "free"
      /\ \A q \in ShRequest : q # r => shRequests'[q] = shRequests[q]
  BY <1>0, <1>1, Nothing, RequestBefore DEF ShAnswer
<1>6. \A p \in shPublished : p.id \in 1..MaxShares \ {b.id}
  BY <1>0, <1>3, PublishedWhole
<1>7. \A q \in ShRequest : q # r /\ shRequests[q].pc = "fill" =>
          shRequests[q].bundle.id \in 1..MaxShares \ {b.id}
            /\ shStore[shRequests[q].bundle.id].held = "half"
  BY <1>0, <1>1, <1>2, RequestBefore DEF ServerInv, OneFiller, HeldFile, Numbered
<1>8. /\ shStore' \in [1..MaxShares -> HeldBundle] /\ shStore'[b.id] = file
      /\ \A j \in 1..MaxShares : j # b.id => shStore'[j] = shStore[j]
  BY <1>3, <1>4
<1>9. OneFiller'
  BY <1>0, <1>5, <1>7, <1>8 DEF ServerInv, OneFiller, HeldFile
<1>10. shPublished' \subseteq Numbered
  BY <1>0, <1>2 DEF ServerInv
<1>11. ServerInv'
  BY <1>0, <1>1, <1>3, <1>5, <1>8, <1>9, <1>10 DEF ServerInv
<1>12. SharesSound'
  BY <1>0, <1>1, <1>2, <1>6, <1>8 DEF SharesSound, PublishedIsKept, ExportedVerifies, Verifies
<1>13. ClientInv'
  BY <1>0, <1>1, ClientEnds
<1> QED
  BY <1>11, <1>12, <1>13 DEF SharesInv

\* A download that the command gets verifies.
LEMMA ReadFileKeeps == ASSUME SharesInv, NEW r \in ShRequest, ReadFile(r) PROVE SharesInv'
<1>0. ClientInv /\ ServerInv /\ SharesSound
  BY DEF SharesInv
<1>1. /\ UNCHANGED <<shSetup, shKeys, shStore, shNow, shPublished, shExported, shMade>>
      /\ shRequests[r].pc = "read" /\ ShAnswer(r)
  BY DEF ReadFile, ShClientKept
<1>2. PICK b : b = shStore[shRequests[r].bundle.id].bundle
  OBVIOUS
<1>3. shCommands' = [c \in ShCommand |->
        IF c # shRequests[r].by THEN shCommands[c]
        ELSE IF HeldFile(r) # "whole" \/ ShareExpired(b) \/ ~Verifies(b) THEN NoCommand
        ELSE [NoCommand EXCEPT !.pc = "got", !.bundle = b]]
  BY <1>2 DEF ReadFile
<1>4. HeldFile(r) = "whole" => b \in Numbered
  <2>1. shRequests[r].bundle.id \in 1..MaxShares
    BY <1>0, <1>1, RequestBefore DEF Numbered
  <2> QED
    BY <1>0, <1>2, <2>1 DEF ServerInv, HeldFile
<1>5. HeldFile(r) = "whole" /\ Verifies(b) =>
        LET got == [NoCommand EXCEPT !.pc = "got", !.bundle = b] IN
        got \in Command /\ got.pc = "got" /\ GoodDownload(got)
  BY <1>4, Nothing DEF Command, CommandPoints, GoodDownload, Numbered
<1>6. GoodDownload(NoCommand) /\ NoCommand \in Command /\ NoCommand.pc = "idle"
  BY Nothing DEF GoodDownload
<1>7. /\ shCommands' \in [ShCommand -> Command]
      /\ \A c \in ShCommand : \/ shCommands'[c] = shCommands[c]
                              \/ /\ shCommands'[c].pc \in {"idle", "got"}
                                 /\ GoodDownload(shCommands'[c])
  BY <1>0, <1>3, <1>5, <1>6, CommandBefore
<1>8. ClientInv'
  BY <1>0, <1>1, <1>7, CommandsLeave
<1> QED
  BY <1>0, <1>1, <1>8, AnswerKeeps DEF SharesInv

\* The server is started again; time passes.
LEMMA ServerDiesKeeps == ASSUME SharesInv, ServerDies \/ ShTick PROVE SharesInv'
<1>0. ClientInv /\ ServerInv /\ SharesSound
  BY DEF SharesInv
<1>1. CASE ServerDies
  <2>1. /\ shRequests' = [r \in ShRequest |-> NoRequest] /\ shNow' \in Nat
        /\ UNCHANGED <<shSetup, shKeys, shStore, shPublished, shExported, shMade>>
    BY <1>0, <1>1 DEF ServerDies, ServerInv
  <2>2. ServerInv' /\ SharesSound'
    BY <1>0, <2>1, Nothing, RequestsMove
  <2> QED
    BY <1>0, <1>1, <2>1, <2>2, ClientEnds DEF ServerDies, SharesInv
<1>2. CASE ShTick
  <2>1. /\ UNCHANGED <<shRequests, shSetup, shKeys, shCommands, shStore, shPublished, shExported, shMade>>
        /\ shNow' \in Nat
    BY <1>0, <1>2 DEF ShTick, ServerInv
  <2>2. ServerInv' /\ SharesSound'
    BY <1>0, <2>1 DEF ServerInv, OneFiller, HeldFile, SharesSound, PublishedIsKept, ExportedVerifies, Verifies
  <2> QED
    BY <1>0, <2>1, <2>2, ClientEnds DEF SharesInv
<1> QED
  BY <1>1, <1>2

LEMMA SharesStep == ASSUME SharesInv, [SharesNext]_shVars PROVE SharesInv'
<1>0. ClientInv /\ ServerInv /\ SharesSound
  BY DEF SharesInv
<1>1. ASSUME NEW c \in ShCommand,
             \/ Export(c) \/ ReadKey(c, "private") \/ ReadKey(c, "public") \/ MakeKey(c, "private")
             \/ MakeKey(c, "public") \/ FillKey(c, "private") \/ FillKey(c, "public")
      PROVE  SharesInv'
  <2>1. ClientInv'
    BY <1>0, <1>1, ExportKeeps, ReadKeeps, MakeKeeps, FillKeeps
  <2>2. UNCHANGED <<shRequests, shStore, shNow, shPublished, shExported, shMade>>
    BY <1>1 DEF Export, ReadKey, MakeKey, FillKey, ShServerKept
  <2> QED
    BY <1>0, <2>1, <2>2, ServerRests DEF SharesInv
<1>2. ASSUME NEW c \in ShCommand, Sign(c) \/ Publish(c) \/ Download(c) \/ Got(c) \/ Hangup(c)
      PROVE  SharesInv'
  BY <1>2, SignKeeps, AskKeeps, GotKeeps, HangupKeeps
<1>3. ASSUME NEW r \in ShRequest,
             Receive(r) \/ Validate(r) \/ FileExists(r) \/ OpenFile(r) \/ FillFile(r) \/ ReadFile(r)
      PROVE  SharesInv'
  BY <1>3, LooksKeep, OpenKeeps, FillFileKeeps, ReadFileKeeps
<1>4. CASE ServerDies \/ ShTick
  BY <1>4, ServerDiesKeeps
<1>5. CASE UNCHANGED shVars
  <2>1. /\ UNCHANGED <<shRequests, shStore, shNow, shPublished, shExported, shMade>>
        /\ UNCHANGED <<shSetup, shKeys, shCommands>>
    BY <1>5 DEF shVars
  <2> QED
    BY <1>0, <2>1, ServerRests, ClientEnds DEF SharesInv
<1> QED
  BY <1>1, <1>2, <1>3, <1>4, <1>5 DEF SharesNext

\* What was published stays as it was and what is exported verifies, unless a command
\* read the public key while another wrote it (share.ts:146-155), for any number of
\* users, commands, requests and deaths.
THEOREM SharesAreSound == SharesSpec => []SharesSound
<1>1. SharesInv /\ [SharesNext]_shVars => SharesInv'
  BY SharesStep
<1>2. SharesInv => SharesSound
  BY DEF SharesInv
<1> QED
  BY <1>1, <1>2, SharesStart, PTL DEF SharesSpec

-----------------------------------------------------------------------------
(* The tools that change and search files *)

\* The steps of a call, and what a call holds.
FtPc == {"start", "load", "temp", "fill", "rename", "apply", "unlink", "create", "applied", "look",
         "some", "done", "error", "dead"}
FtTexts == FtText \cup {Gone}
FtEntry == (FtFile \X {"file"}) \cup TempFile
FtCallType ==
  [pc : FtPc, before : FtTexts, after : FtTexts, put : SUBSET (FtFile \X FtTexts),
   todo : SUBSET FtEntry, found : SUBSET FtEntry, total : Nat, capped : BOOLEAN]

FtTypes ==
  /\ ftSetup \in FtSetups
  /\ ftFiles \in [FtFile -> FtTexts]
  /\ ftTemps \in [TempFile -> FtTexts \cup {NotFilled}]
  /\ ftCalls \in [FtCaller -> FtCallType]
  /\ ftStable \in [FtCaller -> SUBSET FtFile]

\* Who writes has a text to write, and before it renames the temporary file,
\* which is its own, that text is in it; who applies a patch has files left.
FtWrites == {"write", "edit", "apply_edit_ir"}
FtControl(c) ==
  /\ ftCalls[c].pc \in {"load", "temp", "fill", "rename"}
     => FtTool(c) \in FtWrites \cup {"read"} /\ FtInput(c).path \in FtFile
  /\ ftCalls[c].pc \in {"temp", "fill", "rename"} => FtTool(c) \in FtWrites /\ ftCalls[c].after \in FtText
  /\ ftCalls[c].pc = "rename" => ftTemps[TempName(c)] = ftCalls[c].after
  /\ ftCalls[c].pc \in {"apply", "unlink", "create", "applied"} => FtTool(c) = "apply_patch"
  /\ ftCalls[c].pc \in {"unlink", "create"}
     => ftCalls[c].todo # {} /\ ftCalls[c].todo \subseteq Patched(c) \X {"file"}
  /\ ftCalls[c].pc = "look" => FtTool(c) \in Searches

\* What a call has put into the files by then.
FtLeft(c, p) == <<p, "file">> \in ftCalls[c].todo
FtPatch(c, p) == FtInput(c).patch[p][2]
FtPuts(c) ==
  /\ FtTool(c) # "apply_patch" /\ ftCalls[c].pc # "done" => ftCalls[c].put = {}
  /\ ftCalls[c].pc \in {"start", "apply"} => ftCalls[c].put = {}
  /\ FtTool(c) \in FtWrites /\ ftCalls[c].pc = "done"
     => ftCalls[c].put = {<<FtInput(c).path, ftCalls[c].after>>}
  /\ ftCalls[c].pc = "unlink"
     => ftCalls[c].put = {<<p, Gone>> : p \in {q \in Patched(c) : ~FtLeft(c, q)}}
  /\ ftCalls[c].pc = "create"
     => ftCalls[c].put = {<<p, IF FtLeft(c, p) THEN Gone ELSE FtPatch(c, p)>> : p \in Patched(c)}
  /\ FtTool(c) = "apply_patch" /\ ftCalls[c].pc \in {"applied", "done"}
     => ftCalls[c].put = {<<p, FtPatch(c, p)>> : p \in Patched(c)}

\* What a search has not found yet it will still look into, or it has enough.
FtMatches(c, p) == MatchesIn(c, <<p, "file">>) > 0 /\ ftFiles[p] # Gone
FtFound(c) ==
  /\ ftCalls[c].pc \in {"start", "look"} /\ StopsEarly(c) => ftCalls[c].total <= Collects(c)
  /\ ftCalls[c].pc = "look" /\ ~ftCalls[c].capped
     => \A p \in ftStable[c] :
          FtMatches(c, p) => FtLeft(c, p) \/ <<p, "file">> \in ftCalls[c].found \/ Enough(c)
  /\ FtAt(c, "done") /\ FtTool(c) \in Searches /\ ~ftCalls[c].capped
     => \A p \in ftStable[c] : FtMatches(c, p) => <<p, "file">> \in ftCalls[c].found

FtCallInv(c) == FtControl(c) /\ FtPuts(c) /\ FtFound(c)
FilesInv == FtTypes /\ \A c \in FtCaller : FtCallInv(c)

\* What holds at 0, and at each number up to n if it holds at the one before,
\* holds up to n.
LEMMA UpTo ==
  ASSUME NEW n \in Nat, NEW P, 0 \in P, \A i \in 1..n : i - 1 \in P => i \in P
  PROVE  \A i \in 0..n : i \in P
<1> DEFINE T == (0..n) \ P
<1> SUFFICES ASSUME T # {} PROVE FALSE
  OBVIOUS
<1>1. T \subseteq Nat
  OBVIOUS
<1> HIDE DEF T
<1>2. PICK x \in T : \A y \in T : x <= y
  BY <1>1, LeastNatural
<1>3. x \in 1..n /\ x \notin P
  BY <1>2 DEF T
<1>4. x - 1 \in 0..n /\ ~(x <= x - 1)
  BY <1>3
<1>5. x - 1 \in P
  BY <1>2, <1>4 DEF T
<1> QED
  BY <1>3, <1>5

\* A function on 0..n may be given by its value at 0 and the step to each next one.
Stepwise(f, n, init, step) == \A i \in 0..n : f[i] = IF i = 0 THEN init ELSE step[<<i, f[i - 1]>>]
LEMMA Recursion ==
  ASSUME NEW n \in Nat, NEW S, NEW init \in S, NEW step \in [(1..n) \X S -> S]
  PROVE  \E f \in [0..n -> S] : Stepwise(f, n, init, step)
<1> DEFINE Obeys(f, k) == Stepwise(f, k, init, step)
           P == {k \in 0..n : \E f \in [0..k -> S] : Obeys(f, k)}
<1>1. 0 \in P
  <2>1. [i \in 0..0 |-> init] \in [0..0 -> S] /\ Obeys([i \in 0..0 |-> init], 0)
    BY DEF Stepwise
  <2> HIDE DEF Obeys
  <2>2. 0 \in 0..n
    OBVIOUS
  <2>3. \E f \in [0..0 -> S] : Obeys(f, 0)
    BY <2>1
  <2> QED
    BY <2>2, <2>3
<1>2. ASSUME NEW k \in 1..n, k - 1 \in P PROVE k \in P
  <2>1. PICK f \in [0..(k - 1) -> S] : Obeys(f, k - 1)
    BY <1>2
  <2> DEFINE g == [i \in 0..k |-> IF i = k THEN step[<<k, f[k - 1]>>] ELSE f[i]]
  <2>2. k - 1 \in 0..(k - 1) /\ f[k - 1] \in S
    OBVIOUS
  <2>3. step[<<k, f[k - 1]>>] \in S
    BY <2>2
  <2>4. \A i \in 0..k : i # k => i \in 0..(k - 1)
    OBVIOUS
  <2>5. g \in [0..k -> S]
    BY <2>3, <2>4
  <2>6. \A i \in 0..(k - 1) : g[i] = f[i]
    OBVIOUS
  <2>7. g[k] = step[<<k, f[k - 1]>>] /\ g[k - 1] = f[k - 1]
    BY <2>2, <2>6
  <2>8. ASSUME NEW i \in 0..k PROVE g[i] = IF i = 0 THEN init ELSE step[<<i, g[i - 1]>>]
    <3>1. CASE i = k
      <4>1. k # 0
        OBVIOUS
      <4> HIDE DEF g
      <4> QED
        BY <2>7, <3>1, <4>1
    <3>2. CASE i # k
      <4>1. i \in 0..(k - 1) /\ g[i] = f[i]
        BY <3>2
      <4>2. f[i] = IF i = 0 THEN init ELSE step[<<i, f[i - 1]>>]
        BY <2>1, <4>1 DEF Stepwise
      <4>3. i # 0 => i - 1 \in 0..(k - 1) /\ g[i - 1] = f[i - 1]
        BY <2>6, <4>1
      <4> HIDE DEF g
      <4> QED
        BY <4>1, <4>2, <4>3
    <3> QED
      BY <3>1, <3>2
  <2> HIDE DEF g
  <2>9. Obeys(g, k)
    BY <2>8 DEF Stepwise
  <2> HIDE DEF Obeys
  <2> QED
    BY <2>5, <2>9
<1> HIDE DEF P
<1>3. n \in P
  BY <1>1, <1>2, UpTo
<1> QED
  BY <1>3 DEF P

LEMMA Texts == Gone \notin FtText /\ NotFilled \notin FtText /\ Gone # NotFilled
<1>1. \A t \in FtText : Len(t) = 1 => t[1] \in STRING \ {"gone", "opened"}
  BY DEF FtText
<1> QED
  BY <1>1 DEF Gone, NotFilled

\* The text that a replacement leaves is a text.
LEMMA ReplacedType ==
  ASSUME NEW t \in FtText, NEW edit, edit.new \in FtText
  PROVE  Replaced(t, edit) \in FtText
<1> DEFINE n == Len(t)
           Part(i) == IF t[i] = edit.old THEN edit.new ELSE <<t[i]>>
           step == [x \in (1..n) \X FtText |-> x[2] \o Part(x[1])]
           upTo[i \in 0..Len(t)] ==
             IF i = 0 THEN <<>> ELSE upTo[i - 1] \o (IF t[i] = edit.old THEN edit.new ELSE <<t[i]>>)
<1>1. n \in Nat /\ \A i \in 1..n : t[i] \in STRING \ {"gone", "opened"}
  BY DEF FtText
<1>2. \A i \in 1..n : <<t[i]>> \in FtText
  BY <1>1 DEF FtText
<1>2a. \A i \in 1..n : Part(i) \in FtText
  BY <1>2
<1> HIDE DEF Part
<1>3. \A u, v \in FtText : u \o v \in FtText
  BY DEF FtText
<1>4. step \in [(1..n) \X FtText -> FtText]
  BY <1>2a, <1>3
<1>5. <<>> \in FtText
  BY DEF FtText
<1>6. PICK f \in [0..n -> FtText] : Stepwise(f, n, <<>>, step)
  <2> DEFINE S == FtText
  <2> HIDE DEF step, n, S
  <2>1. n \in Nat /\ <<>> \in S /\ step \in [(1..n) \X S -> S]
    BY <1>1, <1>4, <1>5 DEF S
  <2>2. \E f \in [0..n -> S] : Stepwise(f, n, <<>>, step)
    BY ONLY <2>1, Recursion
  <2> QED
    BY <2>2 DEF S
<1>7. f = [i \in 0..n |-> IF i = 0 THEN <<>> ELSE f[i - 1] \o Part(i)]
  <2>1. ASSUME NEW i \in 0..n, i # 0 PROVE step[<<i, f[i - 1]>>] = f[i - 1] \o Part(i)
    <3>1. i \in 1..n /\ f[i - 1] \in FtText
      BY <1>1, <2>1
    <3> QED
      BY <3>1
  <2> HIDE DEF step
  <2>2. \A i \in 0..n : f[i] = IF i = 0 THEN <<>> ELSE f[i - 1] \o Part(i)
    BY <1>6, <2>1 DEF Stepwise
  <2> QED
    BY <2>2
<1>7a. f = [i \in 0..Len(t) |-> IF i = 0 THEN <<>> ELSE f[i - 1] \o (IF t[i] = edit.old THEN edit.new ELSE <<t[i]>>)]
  BY <1>7 DEF Part
<1> DEFINE Is(g) == g = [i \in 0..Len(t) |-> IF i = 0 THEN <<>>
                          ELSE g[i - 1] \o (IF t[i] = edit.old THEN edit.new ELSE <<t[i]>>)]
<1>7b. upTo = CHOOSE g : Is(g)
  OBVIOUS
<1>7c. Is(f)
  BY <1>7a
<1>8. Is(upTo)
  <2> HIDE DEF upTo, Is
  <2> QED
    BY <1>7b, <1>7c
<1> DEFINE P == {i \in 0..n : upTo[i] \in FtText}
<1>9. \A i \in 0..n : upTo[i] = IF i = 0 THEN <<>> ELSE upTo[i - 1] \o Part(i)
  BY <1>8 DEF Part
<1>10. Replaced(t, edit) = upTo[n]
  BY DEF Replaced
<1> HIDE DEF upTo, step
<1>11. 0 \in P
  BY <1>1, <1>5, <1>9
<1>12. ASSUME NEW i \in 1..n, i - 1 \in P PROVE i \in P
  <2>1. upTo[i - 1] \in FtText /\ Part(i) \in FtText /\ i \in 0..n /\ i # 0
    BY <1>1, <1>2a, <1>12
  <2>2. upTo[i] = upTo[i - 1] \o Part(i)
    BY <1>9, <2>1
  <2>3. upTo[i] \in FtText
    BY <1>3, <2>1, <2>2
  <2> QED
    BY <2>1, <2>3
<1>13. n \in P
  <2> HIDE DEF P, n
  <2>1. \A i \in 0..n : i \in P
    BY <1>1, <1>11, <1>12, UpTo
  <2> QED
    BY <1>1, <2>1
<1> QED
  BY <1>10, <1>13

\* Edits one after the other leave a text, or none where one does not fit.
LEMMA EditedType ==
  ASSUME NEW t \in FtTexts, NEW edits \in Seq([old : STRING, new : FtText, expected : Nat])
  PROVE  Edited(t, edits) \in FtTexts
<1> DEFINE n == Len(edits)
           Fitting(x, i) == x = Gone \/ Occurrences(x, edits[i].old) # edits[i].expected
           step == [x \in (1..n) \X FtTexts |->
                      IF Fitting(x[2], x[1]) THEN Gone ELSE Replaced(x[2], edits[x[1]])]
           after[i \in 0..Len(edits)] ==
             IF i = 0 THEN t
             ELSE IF after[i - 1] = Gone \/ Occurrences(after[i - 1], edits[i].old) # edits[i].expected
             THEN Gone ELSE Replaced(after[i - 1], edits[i])
<1>0. n \in Nat /\ \A i \in 1..n : edits[i] \in [old : STRING, new : FtText, expected : Nat]
  <2> DEFINE Edit == [old : STRING, new : FtText, expected : Nat]
  <2>1. edits \in Seq(Edit)
    OBVIOUS
  <2> HIDE DEF Edit
  <2>2. n \in Nat /\ \A i \in 1..n : edits[i] \in Edit
    BY <2>1
  <2> QED
    BY <2>2 DEF Edit
<1>1. n \in Nat /\ \A i \in 1..n : edits[i].new \in FtText
  BY <1>0
<1> HIDE DEF n
<1>2. \A x \in FtTexts, i \in 1..n : ~Fitting(x, i) => Replaced(x, edits[i]) \in FtTexts
  <2> SUFFICES ASSUME NEW x \in FtTexts, NEW i \in 1..n, ~Fitting(x, i)
               PROVE  Replaced(x, edits[i]) \in FtTexts
    OBVIOUS
  <2>1. x \in FtText /\ edits[i].new \in FtText
    BY <1>1 DEF FtTexts
  <2> QED
    BY <2>1, ReplacedType DEF FtTexts
<1>3. Gone \in FtTexts
  BY DEF FtTexts
<1> HIDE DEF Fitting
<1>4. step \in [(1..n) \X FtTexts -> FtTexts]
  BY <1>2, <1>3
<1>5. PICK f \in [0..n -> FtTexts] : Stepwise(f, n, t, step)
  <2> HIDE DEF step
  <2> QED
    BY <1>1, <1>4, Recursion
<1> DEFINE Is(g) == g = [i \in 0..Len(edits) |->
                           IF i = 0 THEN t
                           ELSE IF g[i - 1] = Gone \/ Occurrences(g[i - 1], edits[i].old) # edits[i].expected
                           THEN Gone ELSE Replaced(g[i - 1], edits[i])]
<1>6. Is(f)
  <2>1. ASSUME NEW i \in 0..n, i # 0
        PROVE  step[<<i, f[i - 1]>>] = IF Fitting(f[i - 1], i) THEN Gone ELSE Replaced(f[i - 1], edits[i])
    <3>1. i \in 1..n /\ f[i - 1] \in FtTexts
      BY <1>1, <2>1
    <3> QED
      BY <3>1
  <2> HIDE DEF step
  <2>2. \A i \in 0..n : f[i] = IF i = 0 THEN t ELSE IF Fitting(f[i - 1], i) THEN Gone ELSE Replaced(f[i - 1], edits[i])
    BY <1>5, <2>1 DEF Stepwise
  <2>3. f = [i \in 0..n |-> IF i = 0 THEN t ELSE IF Fitting(f[i - 1], i) THEN Gone ELSE Replaced(f[i - 1], edits[i])]
    BY <2>2
  <2> QED
    BY <2>3 DEF n, Fitting
<1>7. after = CHOOSE g : Is(g)
  OBVIOUS
<1>8. Is(after)
  <2> HIDE DEF after, Is
  <2> QED
    BY <1>6, <1>7
<1>9. Edited(t, edits) = after[n]
  BY DEF Edited, n
<1>10. \A i \in 0..n : after[i] = IF i = 0 THEN t
                                 ELSE IF Fitting(after[i - 1], i) THEN Gone ELSE Replaced(after[i - 1], edits[i])
  BY <1>8 DEF n, Fitting
<1> HIDE DEF after, step
<1> DEFINE P == {i \in 0..n : after[i] \in FtTexts}
<1>11. 0 \in P
  BY <1>1, <1>10
<1>12. ASSUME NEW i \in 1..n, i - 1 \in P PROVE i \in P
  <2>1. after[i - 1] \in FtTexts /\ i \in 0..n /\ i # 0
    BY <1>1, <1>12
  <2>2. after[i] \in FtTexts
    BY <1>2, <1>3, <1>10, <2>1
  <2> QED
    BY <2>1, <2>2
<1>13. n \in P
  <2> HIDE DEF P
  <2>1. \A i \in 0..n : i \in P
    BY <1>1, <1>11, <1>12, UpTo
  <2> QED
    BY <1>1, <2>1
<1> QED
  BY <1>9, <1>13

\* In a text, a line occurs so many times.
LEMMA OccurrencesType ==
  ASSUME NEW S, NEW t \in Seq(S), NEW line
  PROVE  Occurrences(t, line) \in Nat
<1>1. DOMAIN t = 1..Len(t) /\ Len(t) \in Nat
  OBVIOUS
<1>2. IsFiniteSet(1..Len(t))
  BY <1>1, FS_Interval
<1>3. IsFiniteSet({i \in DOMAIN t : t[i] = line})
  BY <1>1, <1>2, FS_Subset
<1> QED
  BY <1>3, FS_CardinalityType DEF Occurrences

\* Of some entries, one comes first.
LEMMA FirstExists ==
  ASSUME NEW todo, todo \subseteq FtEntry, todo # {}
  PROVE  \E e \in todo : \A f \in todo : ~Precedes(f, e)
<1>1. CASE \E e \in todo : e[2] # "file"
  BY <1>1 DEF Precedes
<1>2. CASE \A e \in todo : e[2] = "file"
  <2>1. \A e \in todo : e \in FtFile \X {"file"}
    BY <1>2, FtAssumption DEF FtEntry, TempFile
  <2>2. FtOrder \in Seq(STRING) /\ \A i, j \in DOMAIN FtOrder : FtOrder[i] = FtOrder[j] => i = j
    BY FtAssumption
  <2>3. \A p \in FtFile : \E i \in DOMAIN FtOrder : p = FtOrder[i]
    BY DEF FtFile, ToSet
  <2> DEFINE T == {i \in DOMAIN FtOrder : <<FtOrder[i], "file">> \in todo}
  <2>4. T \subseteq Nat
    BY <2>2
  <2>5. T # {}
    <3>1. PICK e \in todo : TRUE
      OBVIOUS
    <3>2. PICK i \in DOMAIN FtOrder : e[1] = FtOrder[i]
      BY <2>1, <2>3
    <3>3. e = <<FtOrder[i], "file">>
      BY <2>1, <3>2
    <3> QED
      BY <3>1, <3>3
  <2>6. PICK i \in T : \A j \in T : i <= j
    <3> HIDE DEF T
    <3> QED
      BY <2>4, <2>5, LeastNatural
  <2> DEFINE e == <<FtOrder[i], "file">>
  <2>7. ASSUME NEW f \in todo, Precedes(f, e) PROVE FALSE
    <3>1. f[2] = "file" /\ f = <<f[1], "file">>
      BY <1>2, <2>1
    <3>2. PICK k, j \in DOMAIN FtOrder : k < j /\ FtOrder[k] = f[1] /\ FtOrder[j] = e[1]
      BY <2>7, <3>1 DEF Precedes
    <3>3. j = i /\ k \in T
      BY <2>2, <3>1, <3>2
    <3>4. i \in Nat /\ k \in Nat /\ i <= k /\ k < i
      BY <2>4, <2>6, <3>2, <3>3
    <3> QED
      BY <3>4
  <2>8. e \in todo
    OBVIOUS
  <2> QED
    BY <2>7, <2>8
<1> QED
  BY <1>1, <1>2
LEMMA FirstIsOne ==
  ASSUME NEW todo, todo \subseteq FtEntry, todo # {}
  PROVE  FirstOf(todo) \in todo
BY FirstExists DEF FirstOf

\* The first entries, so many as there may be, can be taken.
LEMMA FirstEntries ==
  ASSUME NEW entries, entries \subseteq FtEntry, IsFiniteSet(entries),
         NEW n \in Nat, n <= Cardinality(entries)
  PROVE  \E kept \in SUBSET entries :
           Cardinality(kept) = n /\ \A e \in kept, f \in entries \ kept : ~Precedes(f, e)
<1> DEFINE First(kept, k) ==
             Cardinality(kept) = k /\ \A e \in kept, f \in entries \ kept : ~Precedes(f, e)
           P == {k \in 0..n : \E kept \in SUBSET entries : First(kept, k)}
<1>1. 0 \in P
  <2>1. First({}, 0)
    BY FS_EmptySet
  <2> HIDE DEF First
  <2>2. {} \in SUBSET entries /\ 0 \in 0..n
    OBVIOUS
  <2> QED
    BY <2>1, <2>2
<1>2. ASSUME NEW k \in 1..n, k - 1 \in P PROVE k \in P
  <2>1. PICK kept \in SUBSET entries : First(kept, k - 1)
    BY <1>2
  <2>2. IsFiniteSet(kept) /\ Cardinality(entries) \in Nat
    BY FS_Subset, FS_CardinalityType
  <2>3. entries \ kept # {}
    <3> SUFFICES ASSUME kept = entries PROVE FALSE
      OBVIOUS
    <3> QED
      BY <2>1, <2>2
  <2>4. PICK m \in entries \ kept : \A f \in entries \ kept : ~Precedes(f, m)
    BY <2>3, FirstExists
  <2> DEFINE more == kept \cup {m}
  <2>5. Cardinality(more) = Cardinality(kept) + 1
    BY <2>2, <2>4, FS_AddElement
  <2>6. Cardinality(more) = k
    BY <2>1, <2>5
  <2>7. \A e \in more, f \in entries \ more : ~Precedes(f, e)
    BY <2>1, <2>4
  <2>8. more \in SUBSET entries /\ k \in 0..n
    OBVIOUS
  <2> HIDE DEF more
  <2>9. First(more, k)
    BY <2>6, <2>7
  <2> HIDE DEF First
  <2> QED
    BY <2>8, <2>9
<1> HIDE DEF P
<1>3. n \in P
  BY <1>1, <1>2, UpTo
<1> QED
  BY <1>3 DEF P

\* What a call was called with.
LEMMA CallInput ==
  ASSUME FtTypes, NEW c \in FtCaller
  PROVE  /\ FtInput(c) \in FtCalled
         /\ FtTool(c) = "apply_patch" => \E p \in FtFile : FtInput(c).patch[p] # <<>>
BY FtAssumption DEF FtTypes, FtInput, FtTool

LEMMA FilesStart == FileToolsInit => FilesInv
<1> SUFFICES ASSUME FileToolsInit PROVE FilesInv
  OBVIOUS
<1>1. NewFileCall \in FtCallType
  BY DEF NewFileCall, FtCallType, FtPc, FtTexts
<1>2. ftSetup.files \in [FtFile -> FtTexts]
  BY FtAssumption DEF FileToolsInit, FtTexts
<1>3. [t \in TempFile |-> Gone] \in [TempFile -> FtTexts \cup {NotFilled}]
  BY DEF FtTexts
<1>4. FtTypes
  BY <1>1, <1>2, <1>3 DEF FileToolsInit, FtTypes
<1>5. ASSUME NEW c \in FtCaller PROVE FtCallInv(c)
  <2>1. ftCalls[c].pc = "start" /\ ftCalls[c].put = {} /\ ftCalls[c].total = 0
    BY DEF FileToolsInit, NewFileCall
  <2>2. 0 <= Collects(c)
    BY FtAssumption DEF Collects
  <2> QED
    BY <2>1, <2>2 DEF FtCallInv, FtControl, FtPuts, FtFound, FtAt
<1> QED
  BY <1>4, <1>5 DEF FilesInv

\* A step gives one call a new state.
LEMMA OneCall ==
  ASSUME FtTypes, NEW c \in FtCaller, NEW new \in FtCallType, ftCalls' = [ftCalls EXCEPT ![c] = new]
  PROVE  /\ ftCalls' \in [FtCaller -> FtCallType]
         /\ ftCalls'[c] = new
         /\ \A d \in FtCaller \ {c} : ftCalls'[d] = ftCalls[d]
BY DEF FtTypes

LEMMA FileText ==
  ASSUME NEW p PROVE TextOf(<<p, "file">>) = ftFiles[p]
BY DEF TextOf

\* The step of another call leaves what holds of a call, as long as it leaves its
\* temporary file and the files that count as unchanged for it.
LEMMA OtherCall ==
  ASSUME FtTypes, NEW d \in FtCaller, FtCallInv(d), ftSetup' = ftSetup, ftCalls'[d] = ftCalls[d],
         ftTemps'[TempName(d)] = ftTemps[TempName(d)], ftStable'[d] \subseteq ftStable[d],
         \A p \in ftStable'[d] : ftFiles'[p] = ftFiles[p]
  PROVE  FtCallInv(d)'
<1>1. FtInput(d)' = FtInput(d) /\ FtTool(d)' = FtTool(d) /\ TempName(d)' = TempName(d)
  BY DEF FtInput, FtTool, TempName
<1>2. Patched(d)' = Patched(d) /\ \A p : FtPatch(d, p)' = FtPatch(d, p)
  BY <1>1 DEF Patched, FtPatch
<1>3. StopsEarly(d)' = StopsEarly(d) /\ Collects(d)' = Collects(d) /\ (Enough(d)' <=> Enough(d))
  BY <1>1 DEF StopsEarly, Collects, Enough
<1>4. ASSUME NEW p \in ftStable'[d] PROVE FtMatches(d, p)' <=> FtMatches(d, p)
  <2>1. TextOf(<<p, "file">>)' = TextOf(<<p, "file">>) /\ ftFiles'[p] = ftFiles[p]
    BY DEF TextOf
  <2>2. MatchesIn(d, <<p, "file">>)' = MatchesIn(d, <<p, "file">>)
    BY <1>1, <2>1 DEF MatchesIn
  <2> QED
    BY <2>1, <2>2 DEF FtMatches
<1>5. FtControl(d)'
  BY <1>1, <1>2 DEF FtControl, FtCallInv
<1>6. FtPuts(d)'
  <2>1. \A p : FtLeft(d, p)' = FtLeft(d, p)
    BY DEF FtLeft
  <2>2. /\ FtTool(d) # "apply_patch" /\ ftCalls'[d].pc # "done" => ftCalls'[d].put = {}
        /\ ftCalls'[d].pc \in {"start", "apply"} => ftCalls'[d].put = {}
        /\ FtTool(d) \in FtWrites /\ ftCalls'[d].pc = "done"
           => ftCalls'[d].put = {<<FtInput(d).path, ftCalls'[d].after>>}
    BY DEF FtPuts, FtCallInv
  <2>3. ftCalls'[d].pc = "unlink"
        => ftCalls'[d].put = {<<p, Gone>> : p \in {q \in Patched(d)' : ~FtLeft(d, q)'}}
    BY <1>2, <2>1 DEF FtPuts, FtCallInv
  <2>4. ftCalls'[d].pc = "create"
        => ftCalls'[d].put = {<<p, IF FtLeft(d, p)' THEN Gone ELSE FtPatch(d, p)'>> : p \in Patched(d)'}
    BY <1>2, <2>1 DEF FtPuts, FtCallInv
  <2>5. FtTool(d) = "apply_patch" /\ ftCalls'[d].pc \in {"applied", "done"}
        => ftCalls'[d].put = {<<p, FtPatch(d, p)'>> : p \in Patched(d)'}
    BY <1>2 DEF FtPuts, FtCallInv
  <2> QED
    BY <1>1, <2>2, <2>3, <2>4, <2>5 DEF FtPuts
<1>7. FtFound(d)'
  <2>1. /\ ftCalls[d].pc \in {"start", "look"} /\ StopsEarly(d) => ftCalls[d].total <= Collects(d)
        /\ ftCalls[d].pc = "look" /\ ~ftCalls[d].capped
           => \A p \in ftStable[d] :
                FtMatches(d, p) => FtLeft(d, p) \/ <<p, "file">> \in ftCalls[d].found \/ Enough(d)
        /\ FtAt(d, "done") /\ FtTool(d) \in Searches /\ ~ftCalls[d].capped
           => \A p \in ftStable[d] : FtMatches(d, p) => <<p, "file">> \in ftCalls[d].found
    BY DEF FtFound, FtCallInv
  <2>2. (\A p : FtLeft(d, p)' = FtLeft(d, p)) /\ FtAt(d, "done")' = FtAt(d, "done")
    BY DEF FtLeft, FtAt
  <2>3. ftCalls'[d].pc \in {"start", "look"} /\ StopsEarly(d)' => ftCalls'[d].total <= Collects(d)'
    BY <1>3, <2>1
  <2>4. ftCalls'[d].pc = "look" /\ ~ftCalls'[d].capped
        => \A p \in ftStable'[d] :
             FtMatches(d, p)' => FtLeft(d, p)' \/ <<p, "file">> \in ftCalls'[d].found \/ Enough(d)'
    BY <1>3, <1>4, <2>1, <2>2
  <2>5. FtAt(d, "done")' /\ FtTool(d)' \in Searches /\ ~ftCalls'[d].capped
        => \A p \in ftStable'[d] : FtMatches(d, p)' => <<p, "file">> \in ftCalls'[d].found
    BY <1>1, <1>4, <2>1, <2>2
  <2>6. Searches' = Searches
    BY DEF Searches
  <2> QED
    BY <2>3, <2>4, <2>5, <2>6 DEF FtFound
<1> QED
  BY <1>5, <1>6, <1>7 DEF FtCallInv

\* A step that gives one call a new state and changes no file.
LEMMA CallMoves ==
  ASSUME FilesInv, NEW c \in FtCaller, NEW new \in FtCallType, ftCalls' = [ftCalls EXCEPT ![c] = new],
         UNCHANGED <<ftSetup, ftFiles, ftTemps, ftStable>>, FtCallInv(c)'
  PROVE  FilesInv'
<1>1. FtTypes /\ \A d \in FtCaller : FtCallInv(d)
  BY DEF FilesInv
<1>2. FtTypes'
  BY <1>1, OneCall DEF FtTypes
<1>3. ASSUME NEW d \in FtCaller, d # c PROVE FtCallInv(d)'
  <2>1. ftCalls'[d] = ftCalls[d]
    BY <1>1, <1>3, OneCall
  <2> QED
    BY <1>1, <2>1, OtherCall
<1> QED
  BY <1>2, <1>3 DEF FilesInv

\* A call that ends otherwise than done leaves all as it is.
LEMMA CallStops ==
  ASSUME FilesInv, NEW c \in FtCaller, NEW point \in {"error", "dead", "some"}, FtGoto(c, point), ftCalls[c].pc # "done",
         UNCHANGED <<ftSetup, ftFiles, ftTemps, ftStable>>
  PROVE  FilesInv'
<1> DEFINE new == [ftCalls[c] EXCEPT !.pc = point]
<1>1. FtTypes /\ FtCallInv(c)
  BY DEF FilesInv
<1>2. new \in FtCallType /\ new.pc = point /\ new.put = ftCalls[c].put
  BY <1>1 DEF FtTypes, FtCallType, FtPc
<1>3. ftCalls' = [ftCalls EXCEPT ![c] = new]
  BY DEF FtGoto
<1> HIDE DEF new
<1>4. ftCalls'[c] = new
  BY <1>1, <1>2, <1>3, OneCall
<1>5. FtTool(c)' = FtTool(c)
  BY DEF FtTool, FtInput
<1>6. FtTool(c) # "apply_patch" => ftCalls[c].put = {}
  BY <1>1 DEF FtCallInv, FtPuts
<1>7. FtControl(c)'
  BY <1>2, <1>4 DEF FtControl
<1>8. FtPuts(c)'
  BY <1>2, <1>4, <1>5, <1>6 DEF FtPuts
<1>9. FtFound(c)'
  BY <1>2, <1>4 DEF FtFound, FtAt
<1>10. FtCallInv(c)'
  BY <1>7, <1>8, <1>9 DEF FtCallInv
<1> QED
  BY <1>2, <1>3, <1>10, CallMoves

LEMMA ResolveKeeps == ASSUME FilesInv, NEW c \in FtCaller, ResolvePath(c) PROVE FilesInv'
<1>1. FtTypes /\ FtCallInv(c)
  BY DEF FilesInv
<1>2. UNCHANGED <<ftSetup, ftFiles, ftTemps, ftStable>> /\ ftCalls[c].pc = "start"
  BY DEF ResolvePath, FilesKept, FtAt
<1>3. CASE FtFails(c)
  BY <1>2, <1>3, CallStops DEF FtFails
<1>4. CASE FtTool(c) \in FtWrites \cup {"read"} /\ FtInput(c).path \in FtFile /\ FtGoto(c, "load")
  <2> DEFINE new == [ftCalls[c] EXCEPT !.pc = "load"]
  <2>1. new \in FtCallType /\ new.pc = "load" /\ new.put = {}
    BY <1>1, <1>2 DEF FtTypes, FtCallType, FtPc, FtCallInv, FtPuts
  <2>2. ftCalls' = [ftCalls EXCEPT ![c] = new]
    BY <1>4 DEF FtGoto
  <2> HIDE DEF new
  <2>3. ftCalls'[c] = new
    BY <1>1, <2>1, <2>2, OneCall
  <2>4. FtControl(c)'
    BY <1>2, <1>4, <2>1, <2>3 DEF FtControl, FtTool, FtInput, FtWrites
  <2>5. FtPuts(c)'
    BY <2>1, <2>3 DEF FtPuts
  <2>6. FtFound(c)'
    BY <2>1, <2>3 DEF FtFound, FtAt
  <2>7. FtCallInv(c)'
    BY <2>4, <2>5, <2>6 DEF FtCallInv
  <2> QED
    BY <1>2, <2>1, <2>2, <2>7, CallMoves
<1> QED
  BY <1>3, <1>4 DEF ResolvePath, FtWrites

LEMMA LoadKeeps == ASSUME FilesInv, NEW c \in FtCaller, LoadText(c) PROVE FilesInv'
<1>1. FtTypes /\ FtCallInv(c)
  BY DEF FilesInv
<1>2. UNCHANGED <<ftSetup, ftFiles, ftTemps, ftStable>> /\ ftCalls[c].pc = "load"
  BY DEF LoadText, FilesKept, FtAt
<1>3. FtTool(c) \in FtWrites \cup {"read"} /\ FtInput(c).path \in FtFile
  BY <1>1, <1>2 DEF FtCallInv, FtControl
<1>4. /\ ftFiles[FtInput(c).path] \in FtTexts
      /\ FtInput(c).text \in FtText
      /\ FtInput(c).edits \in Seq([old : STRING, new : FtText, expected : Nat])
  BY <1>1, <1>3, CallInput DEF FtTypes, FtCalled
<1>5. ftCalls[c].put = {}
  BY <1>1, <1>2, <1>3 DEF FtCallInv, FtPuts, FtWrites
<1> DEFINE text == ftFiles[FtInput(c).path]
           after == IF FtTool(c) = "write" THEN FtInput(c).text ELSE Edited(text, FtInput(c).edits)
           refused == \/ Aborted(c) /\ FtTool(c) # "apply_edit_ir"
                      \/ FtTool(c) # "write" /\ text = Gone
                      \/ FtInput(c).base \notin {Gone, text}
                      \/ FtTool(c) \in {"edit", "apply_edit_ir"} /\ after \in {Gone, text}
           point == IF refused THEN "error" ELSE IF FtTool(c) = "read" THEN "done" ELSE "temp"
           new == [ftCalls[c] EXCEPT !.before = text, !.after = after, !.pc = point]
<1>6. after \in FtTexts
  <2>1. Edited(text, FtInput(c).edits) \in FtTexts
    BY <1>4, EditedType
  <2> QED
    BY <1>4, <2>1 DEF FtTexts
<1>7. ftCalls' = [ftCalls EXCEPT ![c] = new]
  BY <1>1 DEF LoadText, FtTypes, FtCallType
<1>8. point \in {"error", "done", "temp"} /\ (point = "done" => FtTool(c) = "read")
  OBVIOUS
<1>9. point = "temp" => FtTool(c) \in FtWrites /\ after \in FtText
  BY <1>3, <1>4, <1>6 DEF FtTexts, FtWrites
<1> HIDE DEF after, point, refused
<1>10. new \in FtCallType /\ new.pc = point /\ new.put = {} /\ new.after = after
  BY <1>1, <1>4, <1>5, <1>6, <1>8 DEF FtTypes, FtCallType, FtPc
<1> HIDE DEF new
<1>11. ftCalls'[c] = new
  BY <1>1, <1>7, <1>10, OneCall
<1>12. FtTool(c)' = FtTool(c) /\ FtInput(c)' = FtInput(c)
  BY <1>2 DEF FtTool, FtInput
<1>13. FtControl(c)'
  BY <1>3, <1>8, <1>9, <1>10, <1>11, <1>12 DEF FtControl
<1>14. FtPuts(c)'
  BY <1>8, <1>10, <1>11, <1>12 DEF FtPuts, FtWrites
<1>15. FtFound(c)'
  BY <1>8, <1>10, <1>11, <1>12 DEF FtFound, FtAt, Searches
<1>16. FtCallInv(c)'
  BY <1>13, <1>14, <1>15 DEF FtCallInv
<1> QED
  BY <1>2, <1>7, <1>10, <1>16, CallMoves

\* A temporary file is of one call.
LEMMA TempIsOwn ==
  ASSUME NEW c, NEW d, c # d PROVE TempName(c) # TempName(d)
BY DEF TempName

LEMMA OpenTempKeeps == ASSUME FilesInv, NEW c \in FtCaller, OpenTemp(c) PROVE FilesInv'
<1>1. FtTypes /\ \A d \in FtCaller : FtCallInv(d)
  BY DEF FilesInv
<1>2. UNCHANGED <<ftSetup, ftFiles, ftStable>> /\ ftCalls[c].pc = "temp"
  BY DEF OpenTemp, FtAt
<1>3. CASE FtFails(c) /\ UNCHANGED ftTemps
  BY <1>2, <1>3, CallStops DEF FtFails
<1>4. CASE ftTemps' = [ftTemps EXCEPT ![TempName(c)] = NotFilled] /\ FtGoto(c, "fill")
  <2>1. /\ FtTool(c) \in FtWrites /\ FtInput(c).path \in FtFile /\ ftCalls[c].after \in FtText
        /\ ftCalls[c].put = {}
    BY <1>1, <1>2 DEF FtCallInv, FtControl, FtPuts, FtWrites
  <2> DEFINE new == [ftCalls[c] EXCEPT !.pc = "fill"]
  <2>2. new \in FtCallType /\ new.pc = "fill" /\ new.put = {} /\ new.after = ftCalls[c].after
    BY <1>1, <2>1 DEF FtTypes, FtCallType, FtPc
  <2>3. ftCalls' = [ftCalls EXCEPT ![c] = new]
    BY <1>4 DEF FtGoto
  <2> HIDE DEF new
  <2>4. /\ ftCalls' \in [FtCaller -> FtCallType] /\ ftCalls'[c] = new
        /\ \A d \in FtCaller \ {c} : ftCalls'[d] = ftCalls[d]
    BY <1>1, <2>2, <2>3, OneCall
  <2>5. ftTemps' \in [TempFile -> FtTexts \cup {NotFilled}]
    BY <1>1, <1>4 DEF FtTypes
  <2>6. FtTypes'
    BY <1>1, <1>2, <2>4, <2>5 DEF FtTypes
  <2>7. FtControl(c)'
    BY <1>2, <2>1, <2>2, <2>4 DEF FtControl, FtTool, FtInput
  <2>8. FtPuts(c)'
    BY <2>2, <2>4 DEF FtPuts
  <2>9. FtFound(c)'
    BY <2>2, <2>4 DEF FtFound, FtAt
  <2>10. ASSUME NEW d \in FtCaller, d # c PROVE FtCallInv(d)'
    <3>1. ftTemps'[TempName(d)] = ftTemps[TempName(d)]
      BY <1>1, <1>4, <2>10, TempIsOwn DEF FtTypes
    <3> QED
      BY <1>1, <1>2, <2>4, <2>10, <3>1, OtherCall
  <2> QED
    BY <2>6, <2>7, <2>8, <2>9, <2>10 DEF FilesInv, FtCallInv
<1> QED
  BY <1>3, <1>4 DEF OpenTemp

LEMMA FillTempKeeps == ASSUME FilesInv, NEW c \in FtCaller, FillTemp(c) PROVE FilesInv'
<1>1. FtTypes /\ \A d \in FtCaller : FtCallInv(d)
  BY DEF FilesInv
<1>2. /\ UNCHANGED <<ftSetup, ftFiles, ftStable>> /\ ftCalls[c].pc = "fill" /\ FtGoto(c, "rename")
      /\ ftTemps' = [ftTemps EXCEPT ![TempName(c)] = ftCalls[c].after]
  BY DEF FillTemp, FtAt
<1>3. /\ FtTool(c) \in FtWrites /\ FtInput(c).path \in FtFile /\ ftCalls[c].after \in FtText
      /\ ftCalls[c].put = {}
  BY <1>1, <1>2 DEF FtCallInv, FtControl, FtPuts, FtWrites
<1> DEFINE new == [ftCalls[c] EXCEPT !.pc = "rename"]
<1>4. new \in FtCallType /\ new.pc = "rename" /\ new.put = {} /\ new.after = ftCalls[c].after
  BY <1>1, <1>3 DEF FtTypes, FtCallType, FtPc
<1>5. ftCalls' = [ftCalls EXCEPT ![c] = new]
  BY <1>2 DEF FtGoto
<1> HIDE DEF new
<1>6. /\ ftCalls' \in [FtCaller -> FtCallType] /\ ftCalls'[c] = new
      /\ \A d \in FtCaller \ {c} : ftCalls'[d] = ftCalls[d]
  BY <1>1, <1>4, <1>5, OneCall
<1>7. TempName(c) \in TempFile /\ TempName(c)' = TempName(c)
  BY <1>2, <1>3 DEF TempName, TempFile, FtInput
<1>8. ftTemps' \in [TempFile -> FtTexts \cup {NotFilled}] /\ ftTemps'[TempName(c)] = ftCalls[c].after
  BY <1>1, <1>2, <1>3, <1>7 DEF FtTypes, FtTexts
<1>9. FtTypes'
  BY <1>1, <1>2, <1>6, <1>8 DEF FtTypes
<1>10. FtControl(c)'
  BY <1>2, <1>3, <1>4, <1>6, <1>7, <1>8 DEF FtControl, FtTool, FtInput
<1>11. FtPuts(c)'
  BY <1>4, <1>6 DEF FtPuts
<1>12. FtFound(c)'
  BY <1>4, <1>6 DEF FtFound, FtAt
<1>13. ASSUME NEW d \in FtCaller, d # c PROVE FtCallInv(d)'
  <2>1. ftTemps'[TempName(d)] = ftTemps[TempName(d)]
    BY <1>1, <1>2, <1>13, TempIsOwn DEF FtTypes
  <2> QED
    BY <1>1, <1>2, <1>6, <1>13, <2>1, OtherCall
<1> QED
  BY <1>9, <1>10, <1>11, <1>12, <1>13 DEF FilesInv, FtCallInv

\* A file that changes does not count as unchanged for anybody.
LEMMA PutMoves ==
  ASSUME FtTypes, NEW c \in FtCaller, NEW p \in FtFile, NEW t \in FtTexts, PutText(c, p, t)
  PROVE  /\ ftFiles' \in [FtFile -> FtTexts] /\ ftStable' \in [FtCaller -> SUBSET FtFile]
         /\ \A d \in FtCaller : /\ ftStable'[d] \subseteq ftStable[d]
                                /\ \A q \in ftStable'[d] : ftFiles'[q] = ftFiles[q]
BY DEF FtTypes, PutText

LEMMA RenameKeeps == ASSUME FilesInv, NEW c \in FtCaller, RenameTemp(c) PROVE FilesInv'
<1> DEFINE text == ftTemps[TempName(c)]
           path == FtInput(c).path
<1>1. FtTypes /\ \A d \in FtCaller : FtCallInv(d)
  BY DEF FilesInv
<1>2. ftSetup' = ftSetup /\ ftCalls[c].pc = "rename"
  BY DEF RenameTemp, FtAt
<1>3. /\ FtTool(c) \in FtWrites /\ path \in FtFile
      /\ ftCalls[c].after \in FtText /\ text = ftCalls[c].after
  BY <1>1, <1>2 DEF FtCallInv, FtControl
<1>4. text \in FtTexts /\ text # Gone
  BY <1>3, Texts DEF FtTexts
<1>5. /\ PutText(c, path, text)
      /\ ftTemps' = [ftTemps EXCEPT ![TempName(c)] = Gone]
      /\ ftCalls' = [ftCalls EXCEPT ![c].put = {<<path, text>>}, ![c].pc = "done"]
  BY <1>4 DEF RenameTemp
<1> DEFINE new == [ftCalls[c] EXCEPT !.put = {<<path, text>>}, !.pc = "done"]
<1>6. /\ new \in FtCallType /\ new.pc = "done" /\ new.put = {<<path, text>>}
      /\ new.after = ftCalls[c].after
  <2> DEFINE put == {<<path, text>>}
  <2>1. put \subseteq FtFile \X FtTexts
    BY <1>3, <1>4
  <2> HIDE DEF text, path, put
  <2>2. /\ [ftCalls[c] EXCEPT !.put = put, !.pc = "done"] \in FtCallType
        /\ [ftCalls[c] EXCEPT !.put = put, !.pc = "done"].pc = "done"
        /\ [ftCalls[c] EXCEPT !.put = put, !.pc = "done"].put = put
        /\ [ftCalls[c] EXCEPT !.put = put, !.pc = "done"].after = ftCalls[c].after
    BY <1>1, <2>1 DEF FtTypes, FtCallType, FtPc
  <2> QED
    BY <2>2 DEF put
<1>7. ftCalls' = [ftCalls EXCEPT ![c] = new]
  BY <1>1, <1>5 DEF FtTypes, FtCallType
<1> HIDE DEF new
<1>8. /\ ftCalls' \in [FtCaller -> FtCallType] /\ ftCalls'[c] = new
      /\ \A d \in FtCaller \ {c} : ftCalls'[d] = ftCalls[d]
  BY <1>1, <1>6, <1>7, OneCall
<1>9. /\ ftFiles' \in [FtFile -> FtTexts] /\ ftStable' \in [FtCaller -> SUBSET FtFile]
      /\ \A d \in FtCaller : /\ ftStable'[d] \subseteq ftStable[d]
                             /\ \A q \in ftStable'[d] : ftFiles'[q] = ftFiles[q]
  BY <1>1, <1>3, <1>4, <1>5, PutMoves
<1>10. ftTemps' \in [TempFile -> FtTexts \cup {NotFilled}]
  BY <1>1, <1>5 DEF FtTypes, FtTexts
<1>11. FtTypes'
  BY <1>1, <1>2, <1>8, <1>9, <1>10 DEF FtTypes
<1>12. FtTool(c)' = FtTool(c) /\ FtInput(c)' = FtInput(c)
  BY <1>2 DEF FtTool, FtInput
<1>13. FtControl(c)'
  BY <1>6, <1>8 DEF FtControl
<1>14. FtPuts(c)'
  BY <1>3, <1>6, <1>8, <1>12 DEF FtPuts, FtWrites
<1>15. FtFound(c)'
  BY <1>3, <1>6, <1>8, <1>12 DEF FtFound, FtAt, Searches, FtWrites
<1>16. ASSUME NEW d \in FtCaller, d # c PROVE FtCallInv(d)'
  <2>1. ftTemps'[TempName(d)] = ftTemps[TempName(d)]
    BY <1>1, <1>5, <1>16, TempIsOwn DEF FtTypes
  <2> QED
    BY <1>1, <1>2, <1>8, <1>9, <1>16, <2>1, OtherCall
<1> QED
  BY <1>11, <1>13, <1>14, <1>15, <1>16 DEF FilesInv, FtCallInv

LEMMA CheckPatchKeeps == ASSUME FilesInv, NEW c \in FtCaller, CheckPatch(c) PROVE FilesInv'
<1>1. FtTypes /\ FtCallInv(c)
  BY DEF FilesInv
<1>2. /\ UNCHANGED <<ftSetup, ftFiles, ftTemps, ftStable>> /\ ftCalls[c].pc = "start"
      /\ FtTool(c) = "apply_patch"
  BY DEF CheckPatch, FilesKept, FtAt
<1>3. CASE FtFails(c)
  BY <1>2, <1>3, CallStops DEF FtFails
<1>4. CASE FtGoto(c, "apply")
  <2> DEFINE new == [ftCalls[c] EXCEPT !.pc = "apply"]
  <2>1. new \in FtCallType /\ new.pc = "apply" /\ new.put = {}
    BY <1>1, <1>2 DEF FtTypes, FtCallType, FtPc, FtCallInv, FtPuts
  <2>2. ftCalls' = [ftCalls EXCEPT ![c] = new]
    BY <1>4 DEF FtGoto
  <2> HIDE DEF new
  <2>3. ftCalls'[c] = new /\ FtTool(c)' = "apply_patch"
    BY <1>1, <1>2, <2>1, <2>2, OneCall DEF FtTool, FtInput
  <2>4. FtControl(c)'
    BY <2>1, <2>3 DEF FtControl
  <2>5. FtPuts(c)'
    BY <2>1, <2>3 DEF FtPuts
  <2>6. FtFound(c)'
    BY <2>1, <2>3 DEF FtFound, FtAt
  <2>7. FtCallInv(c)'
    BY <2>4, <2>5, <2>6 DEF FtCallInv
  <2> QED
    BY <1>2, <2>1, <2>2, <2>7, CallMoves
<1> QED
  BY <1>3, <1>4 DEF CheckPatch

LEMMA ApplyPatchKeeps == ASSUME FilesInv, NEW c \in FtCaller, ApplyPatch(c) PROVE FilesInv'
<1>1. FtTypes /\ FtCallInv(c)
  BY DEF FilesInv
<1>2. /\ UNCHANGED <<ftSetup, ftFiles, ftTemps, ftStable>> /\ ftCalls[c].pc = "apply"
      /\ FtTool(c) = "apply_patch" /\ ftCalls[c].put = {}
  BY <1>1 DEF ApplyPatch, FilesKept, FtAt, FtCallInv, FtControl, FtPuts
<1>3. CASE FtFails(c)
  BY <1>2, <1>3, CallStops DEF FtFails
<1>4. CASE ftCalls' = [ftCalls EXCEPT ![c].pc = "unlink", ![c].todo = Patched(c) \X {"file"}]
  <2> DEFINE all == Patched(c) \X {"file"}
             new == [ftCalls[c] EXCEPT !.pc = "unlink", !.todo = all]
  <2>1. Patched(c) # {}
    BY <1>1, <1>2, CallInput DEF Patched
  <2>2. all # {} /\ all \subseteq FtEntry
    <3>1. PICK p \in Patched(c) : TRUE
      BY <2>1
    <3>2. <<p, "file">> \in all
      OBVIOUS
    <3> QED
      BY <3>2 DEF Patched, FtEntry
  <2>3. ftCalls' = [ftCalls EXCEPT ![c] = new]
    BY <1>1, <1>4 DEF FtTypes, FtCallType
  <2>4. \A p \in Patched(c) : <<p, "file">> \in all
    OBVIOUS
  <2> HIDE DEF all
  <2>5. new \in FtCallType /\ new.pc = "unlink" /\ new.put = {} /\ new.todo = all
    BY <1>1, <1>2, <2>2 DEF FtTypes, FtCallType, FtPc
  <2> HIDE DEF new
  <2>6. ftCalls'[c] = new /\ FtTool(c)' = "apply_patch" /\ Patched(c)' = Patched(c)
    BY <1>1, <1>2, <2>3, <2>5, OneCall DEF FtTool, FtInput, Patched
  <2>7. FtControl(c)'
    BY <2>2, <2>5, <2>6 DEF FtControl, all
  <2>8. {q \in Patched(c)' : ~FtLeft(c, q)'} = {}
    BY <2>4, <2>5, <2>6 DEF FtLeft
  <2>9. {<<p, Gone>> : p \in {q \in Patched(c)' : ~FtLeft(c, q)'}} = {}
    BY <2>8
  <2>10. FtPuts(c)'
    BY <2>5, <2>6, <2>9 DEF FtPuts
  <2>11. FtFound(c)'
    BY <2>5, <2>6 DEF FtFound, FtAt
  <2>12. FtCallInv(c)'
    BY <2>7, <2>10, <2>11 DEF FtCallInv
  <2> QED
    BY <1>2, <2>3, <2>5, <2>12, CallMoves
<1> QED
  BY <1>3, <1>4 DEF ApplyPatch

\* What git has put into each file, after the first of those that are left.
LEMMA PutSoFar ==
  ASSUME NEW all, NEW left \in SUBSET all, NEW put, NEW p \in left, NEW t,
         put = {<<q, Gone>> : q \in all \ left}
  PROVE  {w \in put : w[1] # p} \cup {<<p, Gone>>} = {<<q, Gone>> : q \in all \ (left \ {p})}
OBVIOUS

LEMMA PutAgain ==
  ASSUME NEW all, NEW left \in SUBSET all, NEW Text, NEW p \in left,
         NEW put, put = {<<q, IF q \in left THEN Gone ELSE Text[q]>> : q \in all}
  PROVE  {w \in put : w[1] # p} \cup {<<p, Text[p]>>}
         = {<<q, IF q \in left \ {p} THEN Gone ELSE Text[q]>> : q \in all}
OBVIOUS

LEMMA GitKeeps ==
  ASSUME FilesInv, NEW c \in FtCaller, NEW point, NEW next, GitWrites(c, point, next),
         <<point, next>> \in {<<"unlink", "create">>, <<"create", "applied">>}
  PROVE  FilesInv'
<1> DEFINE todo == ftCalls[c].todo
           e == FirstOf(todo)
           p == e[1]
           text == IF point = "unlink" THEN Gone ELSE FtInput(c).patch[p][2]
           rest == todo \ {e}
           all == Patched(c)
           left == {q \in all : FtLeft(c, q)}
           put == {w \in ftCalls[c].put : w[1] # p} \cup {<<p, text>>}
           goes == IF rest = {} THEN next ELSE point
           more == IF rest = {} /\ next = "create" THEN all \X {"file"} ELSE rest
           new == [ftCalls[c] EXCEPT !.put = put, !.pc = goes, !.todo = more]
<1>1. FtTypes /\ \A d \in FtCaller : FtCallInv(d)
  BY DEF FilesInv
<1>2. /\ UNCHANGED <<ftSetup, ftTemps>> /\ ftCalls[c].pc = point /\ PutText(c, p, text)
  BY DEF GitWrites, FtAt
<1>3. FtTool(c) = "apply_patch" /\ todo # {} /\ todo \subseteq all \X {"file"}
  BY <1>1, <1>2 DEF FtCallInv, FtControl
<1>4. all \subseteq FtFile
  BY DEF Patched
<1>5. todo \subseteq FtEntry
  BY <1>3, <1>4 DEF FtEntry
<1>6. e \in todo
  BY <1>3, <1>5, FirstIsOne
<1>7. p \in all /\ e = <<p, "file">> /\ p \in left
  BY <1>3, <1>6 DEF FtLeft
<1>8. \A q \in all : FtPatch(c, q) \in FtTexts
  <2> SUFFICES ASSUME NEW q \in all PROVE FtPatch(c, q) \in FtTexts
    OBVIOUS
  <2>1. FtInput(c).patch[q] # <<>> /\ q \in FtFile
    BY DEF Patched
  <2>2. FtInput(c).patch \in [FtFile -> {<<>>} \cup (FtTexts \X FtTexts)]
    BY <1>1, CallInput DEF FtCalled, FtTexts
  <2>3. FtInput(c).patch[q] \in FtTexts \X FtTexts
    BY <2>1, <2>2
  <2> QED
    BY <2>3 DEF FtPatch
<1>9. text \in FtTexts
  BY <1>7, <1>8 DEF FtPatch, FtTexts
<1>10. \A q \in all : <<q, "file">> \in rest <=> q \in left \ {p}
  BY <1>7 DEF FtLeft
<1>11. rest \subseteq all \X {"file"} /\ (rest = {} => left = {p})
  <2>1. rest \subseteq all \X {"file"}
    BY <1>3
  <2> HIDE DEF rest, left, p
  <2>2. ASSUME rest = {} PROVE left = {p}
    <3>1. \A q \in left : q \in all
      BY DEF left
    <3> QED
      BY <1>7, <1>10, <2>2, <3>1
  <2> QED
    BY <2>1, <2>2
<1>12. more \subseteq all \X {"file"} /\ (goes \in {"unlink", "create"} => more # {})
  <2>1. <<p, "file">> \in all \X {"file"}
    BY <1>7
  <2> HIDE DEF rest, all
  <2> QED
    BY <1>11, <2>1
<1>13. goes \in {"unlink", "create", "applied"}
  OBVIOUS
<1>14. put \subseteq FtFile \X FtTexts
  <2>1. ftCalls[c].put \subseteq FtFile \X FtTexts
    BY <1>1 DEF FtTypes, FtCallType
  <2>2. <<p, text>> \in FtFile \X FtTexts
    BY <1>4, <1>7, <1>9
  <2> HIDE DEF text, p
  <2> QED
    BY <2>1, <2>2
<1>15. more \subseteq FtEntry
  BY <1>4, <1>12 DEF FtEntry
<1>16. ftCalls' = [ftCalls EXCEPT ![c] = new]
  <2>1. ftCalls' = [ftCalls EXCEPT ![c].put = put, ![c].pc = goes, ![c].todo = more]
    BY DEF GitWrites
  <2> HIDE DEF put, goes, more
  <2> QED
    BY <1>1, <2>1 DEF FtTypes, FtCallType
<1>17. new \in FtCallType /\ new.pc = goes /\ new.put = put /\ new.todo = more
  <2> HIDE DEF put, goes, more
  <2> QED
    BY <1>1, <1>13, <1>14, <1>15 DEF FtTypes, FtCallType, FtPc
<1> HIDE DEF new
<1>18. /\ ftCalls' \in [FtCaller -> FtCallType] /\ ftCalls'[c] = new
       /\ \A d \in FtCaller \ {c} : ftCalls'[d] = ftCalls[d]
  BY <1>1, <1>16, <1>17, OneCall
<1>19. p \in FtFile
  BY <1>4, <1>7
<1>20. /\ ftFiles' \in [FtFile -> FtTexts] /\ ftStable' \in [FtCaller -> SUBSET FtFile]
       /\ \A d \in FtCaller : /\ ftStable'[d] \subseteq ftStable[d]
                              /\ \A q \in ftStable'[d] : ftFiles'[q] = ftFiles[q]
  <2> HIDE DEF p, text
  <2> QED
    BY <1>1, <1>2, <1>9, <1>19, PutMoves
<1>21. FtTypes'
  BY <1>1, <1>2, <1>18, <1>20 DEF FtTypes
<1>22. /\ FtTool(c)' = "apply_patch" /\ Patched(c)' = all /\ \A q : FtPatch(c, q)' = FtPatch(c, q)
  BY <1>2, <1>3 DEF FtTool, FtInput, Patched, FtPatch
<1>23. \A q \in all : FtLeft(c, q)' <=> <<q, "file">> \in more
  BY <1>17, <1>18 DEF FtLeft
<1>24. FtControl(c)'
  <2> HIDE DEF goes, more, put, all
  <2> QED
    BY <1>12, <1>13, <1>17, <1>18, <1>22 DEF FtControl
<1>25. FtPuts(c)'
  <2>1. CASE point = "unlink"
    <3>1. text = Gone /\ next = "create"
      BY <2>1
    <3>2. ftCalls[c].put = {<<q, Gone>> : q \in {r \in all : ~FtLeft(c, r)}}
      BY <1>1, <1>2, <2>1 DEF FtCallInv, FtPuts
    <3>3. {r \in all : ~FtLeft(c, r)} = all \ left /\ left \in SUBSET all
      OBVIOUS
    <3>4. put = {<<q, Gone>> : q \in all \ (left \ {p})}
      <4> HIDE DEF left, p, text, all
      <4> QED
        BY <1>7, <3>1, <3>2, <3>3, PutSoFar
    <3>5. CASE rest = {}
      <4>1. goes = "create" /\ more = all \X {"file"}
        BY <3>1, <3>5
      <4>2. all \ (left \ {p}) = all
        BY <1>11, <3>5
      <4>3. put = {<<q, Gone>> : q \in all}
        BY <3>4, <4>2
      <4>4. \A q \in all : FtLeft(c, q)'
        BY <1>23, <4>1
      <4> HIDE DEF put, all, goes, more
      <4>5. put = {<<q, IF FtLeft(c, q)' THEN Gone ELSE FtPatch(c, q)'>> : q \in all}
        BY <4>3, <4>4
      <4> QED
        BY <1>17, <1>18, <1>22, <4>1, <4>5 DEF FtPuts
    <3>6. CASE rest # {}
      <4>1. goes = "unlink" /\ more = rest
        BY <2>1, <3>6
      <4>2. \A q \in all : FtLeft(c, q)' <=> q \in left \ {p}
        BY <1>10, <1>23, <4>1
      <4> HIDE DEF put, all, goes, more, left, p
      <4>3. {q \in all : ~FtLeft(c, q)'} = all \ (left \ {p})
        BY <4>2
      <4>4. put = {<<q, Gone>> : q \in {r \in all : ~FtLeft(c, r)'}}
        BY <3>4, <4>3
      <4> QED
        BY <1>17, <1>18, <1>22, <4>1, <4>4 DEF FtPuts
    <3> QED
      BY <3>5, <3>6
  <2>2. CASE point = "create"
    <3> DEFINE Text == [q \in all |-> FtPatch(c, q)]
    <3>1. text = Text[p] /\ next = "applied"
      BY <1>7, <2>2 DEF FtPatch
    <3>2. ftCalls[c].put = {<<q, IF FtLeft(c, q) THEN Gone ELSE FtPatch(c, q)>> : q \in all}
      BY <1>1, <1>2, <2>2 DEF FtCallInv, FtPuts
    <3>3. \A q \in all : FtLeft(c, q) <=> q \in left
      OBVIOUS
    <3>4. ftCalls[c].put = {<<q, IF q \in left THEN Gone ELSE Text[q]>> : q \in all}
      <4> HIDE DEF left, all
      <4> QED
        BY <3>2, <3>3
    <3>5. left \in SUBSET all
      OBVIOUS
    <3>6. put = {<<q, IF q \in left \ {p} THEN Gone ELSE Text[q]>> : q \in all}
      <4> HIDE DEF left, p, text, all, Text
      <4> QED
        BY <1>7, <3>1, <3>4, <3>5, PutAgain
    <3>7. CASE rest = {}
      <4>1. goes = "applied"
        BY <3>1, <3>7
      <4>2. left \ {p} = {}
        BY <1>11, <3>7
      <4> HIDE DEF left, p, put, all, goes
      <4>3. put = {<<q, FtPatch(c, q)'>> : q \in all}
        BY <1>22, <3>6, <4>2
      <4> QED
        BY <1>17, <1>18, <1>22, <4>1, <4>3 DEF FtPuts
    <3>8. CASE rest # {}
      <4>1. goes = "create" /\ more = rest
        BY <2>2, <3>8
      <4>2. \A q \in all : FtLeft(c, q)' <=> q \in left \ {p}
        BY <1>10, <1>23, <4>1
      <4> HIDE DEF put, all, goes, more, left, p
      <4>3. put = {<<q, IF FtLeft(c, q)' THEN Gone ELSE FtPatch(c, q)'>> : q \in all}
        BY <1>22, <3>6, <4>2
      <4> QED
        BY <1>17, <1>18, <1>22, <4>1, <4>3 DEF FtPuts
    <3> QED
      BY <3>7, <3>8
  <2> QED
    BY <2>1, <2>2
<1>26. FtFound(c)'
  <2> HIDE DEF goes
  <2> QED
    BY <1>13, <1>17, <1>18, <1>22 DEF FtFound, FtAt
<1>27. ASSUME NEW d \in FtCaller, d # c PROVE FtCallInv(d)'
  BY <1>1, <1>2, <1>18, <1>20, <1>27, OtherCall
<1> QED
  BY <1>21, <1>24, <1>25, <1>26, <1>27 DEF FilesInv, FtCallInv

LEMMA AppliedKeeps == ASSUME FilesInv, NEW c \in FtCaller, PatchApplied(c) PROVE FilesInv'
<1>1. FtTypes /\ FtCallInv(c)
  BY DEF FilesInv
<1>2. UNCHANGED <<ftSetup, ftFiles, ftTemps, ftStable>> /\ ftCalls[c].pc = "applied" /\ FtGoto(c, "done")
  BY DEF PatchApplied, FilesKept, FtAt
<1>3. FtTool(c) = "apply_patch" /\ ftCalls[c].put = {<<p, FtPatch(c, p)>> : p \in Patched(c)}
  BY <1>1, <1>2 DEF FtCallInv, FtControl, FtPuts
<1> DEFINE new == [ftCalls[c] EXCEPT !.pc = "done"]
<1>4. new \in FtCallType /\ new.pc = "done" /\ new.put = ftCalls[c].put
  BY <1>1 DEF FtTypes, FtCallType, FtPc
<1>5. ftCalls' = [ftCalls EXCEPT ![c] = new]
  BY <1>2 DEF FtGoto
<1> HIDE DEF new
<1>6. /\ ftCalls'[c] = new /\ FtTool(c)' = "apply_patch" /\ Patched(c)' = Patched(c)
      /\ \A p : FtPatch(c, p)' = FtPatch(c, p)
  BY <1>1, <1>2, <1>3, <1>4, <1>5, OneCall DEF FtTool, FtInput, Patched, FtPatch
<1>7. FtControl(c)'
  BY <1>4, <1>6 DEF FtControl
<1>8. FtPuts(c)'
  <2>1. ftCalls'[c].put = {<<p, FtPatch(c, p)'>> : p \in Patched(c)'}
    BY <1>3, <1>4, <1>6
  <2> QED
    BY <1>4, <1>6, <2>1 DEF FtPuts, FtWrites
<1>9. FtFound(c)'
  BY <1>4, <1>6 DEF FtFound, FtAt, Searches
<1>10. FtCallInv(c)'
  BY <1>7, <1>8, <1>9 DEF FtCallInv
<1> QED
  BY <1>2, <1>4, <1>5, <1>10, CallMoves

LEMMA KillProcessKeeps == ASSUME FilesInv, NEW c \in FtCaller, KillProcess(c) PROVE FilesInv'
BY CallStops DEF KillProcess, FtFails, FtOver, FilesKept

LEMMA AbortCallKeeps == ASSUME FilesInv, NEW c \in FtCaller, AbortCall(c) PROVE FilesInv'
<1>1. FtTypes /\ \A d \in FtCaller : FtCallInv(d)
  BY DEF FilesInv
<1>2. UNCHANGED <<ftSetup, ftFiles, ftTemps, ftCalls, ftStable>>
  BY DEF AbortCall
<1>3. FtTypes'
  BY <1>1, <1>2 DEF FtTypes
<1>4. ASSUME NEW d \in FtCaller PROVE FtCallInv(d)'
  BY <1>1, <1>2, OtherCall
<1> QED
  BY <1>3, <1>4 DEF FilesInv

LEMMA CallerDiesKeeps == ASSUME FilesInv, NEW c \in FtCaller, CallerDies(c) PROVE FilesInv'
BY CallStops DEF CallerDies, FtOver

LEMMA OneElement == ASSUME NEW S, NEW s \in S PROVE <<s>> \in Seq(S)
OBVIOUS

\* What a search counts in a file is a number; where there is a match, it finds the file.
LEMMA MatchesType ==
  ASSUME FtTypes, NEW c \in FtCaller, NEW e \in FtEntry
  PROVE  MatchesIn(c, e) \in Nat
<1> DEFINE Line == STRING \cup {"gone", "opened"}
<1>1. TextOf(e) \in Seq(Line)
  <2>0. Gone \in Seq(Line) /\ NotFilled \in Seq(Line) /\ \A t \in FtText : t \in Seq(Line)
    <3>1. \A t \in FtText : t \in Seq(Line)
      BY DEF FtText
    <3>2. "gone" \in Line /\ "opened" \in Line
      OBVIOUS
    <3>3. Gone \in Seq(Line)
      BY <3>2, OneElement DEF Gone
    <3>4. NotFilled \in Seq(Line)
      BY <3>2, OneElement DEF NotFilled
    <3> QED
      BY <3>1, <3>3, <3>4
  <2>1. \A t \in FtTexts \cup {NotFilled} : t \in Seq(Line)
    BY <2>0 DEF FtTexts
  <2>2. CASE e[2] = "file"
    <3>1. e[1] \in FtFile
      BY DEF FtEntry, TempFile
    <3> QED
      BY <2>1, <2>2, <3>1 DEF TextOf, FtTypes
  <2>3. CASE e[2] # "file"
    <3>1. e \in TempFile
      BY <2>3 DEF FtEntry
    <3> QED
      BY <2>1, <2>3, <3>1 DEF TextOf, FtTypes
  <2> QED
    BY <2>2, <2>3
<1>2. Occurrences(TextOf(e), FtInput(c).line) \in Nat
  BY <1>1, OccurrencesType
<1>3. MaxResults \in Nat
  BY FtAssumption
<1> HIDE DEF FtTool
<1> QED
  BY <1>2, <1>3 DEF MatchesIn, Lesser

LEMMA CollectsType ==
  ASSUME NEW c PROVE Collects(c) \in Nat
BY FtAssumption DEF Collects

\* The entries a search keeps are entries that are there.
LEMMA KeptType ==
  ASSUME FtTypes, NEW c \in FtCaller PROVE Kept(c) \subseteq Listed(c) /\ Listed(c) \subseteq FtEntry
<1>1. Listed(c) \subseteq FtEntry
  BY DEF Listed, DirEntries, FtEntry
<1>2. IsFiniteSet(Listed(c))
  <2>1. FtOrder \in Seq(STRING) /\ IsFiniteSet(FtCaller)
    BY FtAssumption
  <2>2. IsFiniteSet(FtFile)
    <3>1. FtFile = {FtOrder[i] : i \in DOMAIN FtOrder} /\ IsFiniteSet(DOMAIN FtOrder)
      BY <2>1, FS_Interval DEF FtFile, ToSet
    <3>2. FtOrder \in Surjection(DOMAIN FtOrder, FtFile)
      BY <2>1, <3>1 DEF Surjection
    <3> QED
      BY <3>1, <3>2, FS_Surjection
  <2>3. IsFiniteSet(FtCaller \cup {"tmp"}) /\ IsFiniteSet({"file"})
    BY <2>1, FS_AddElement, FS_Singleton
  <2>4. IsFiniteSet(FtFile \X (FtCaller \cup {"tmp"})) /\ IsFiniteSet(FtFile \X {"file"})
    BY <2>2, <2>3, FS_Product
  <2>5. IsFiniteSet(FtEntry)
    BY <2>4, FS_Union DEF FtEntry, TempFile
  <2> QED
    BY <1>1, <2>5, FS_Subset
<1>3. Kept(c) \subseteq Listed(c)
  <2>1. CASE FtTool(c) # "search_text" \/ Cardinality(Listed(c)) <= MaxEntries
    BY <2>1 DEF Kept
  <2>2. CASE ~(FtTool(c) # "search_text" \/ Cardinality(Listed(c)) <= MaxEntries)
    <3>1. MaxEntries \in Nat /\ MaxEntries <= Cardinality(Listed(c))
      BY <1>2, <2>2, FtAssumption, FS_CardinalityType
    <3> DEFINE First(kept) == /\ Cardinality(kept) = MaxEntries
                              /\ \A e \in kept, f \in Listed(c) \ kept : ~Precedes(f, e)
    <3>2. \E kept \in SUBSET Listed(c) : First(kept)
      <4>1. PICK kept \in SUBSET Listed(c) :
              Cardinality(kept) = MaxEntries /\ \A e \in kept, f \in Listed(c) \ kept : ~Precedes(f, e)
        BY <1>1, <1>2, <3>1, FirstEntries
      <4> QED
        BY <4>1
    <3>3. Kept(c) = CHOOSE kept \in SUBSET Listed(c) : First(kept)
      BY <2>2 DEF Kept
    <3> HIDE DEF First
    <3> QED
      BY <3>2, <3>3
  <2> QED
    BY <2>1, <2>2
<1> QED
  BY <1>1, <1>3

LEMMA ListKeeps == ASSUME FilesInv, NEW c \in FtCaller, ListEntries(c) PROVE FilesInv'
<1> DEFINE capped == Kept(c) # Listed(c)
           new == [ftCalls[c] EXCEPT !.todo = Kept(c), !.capped = capped, !.pc = "look"]
<1>1. FtTypes /\ \A d \in FtCaller : FtCallInv(d)
  BY DEF FilesInv
<1>2. /\ UNCHANGED <<ftSetup, ftFiles, ftTemps>> /\ ftCalls[c].pc = "start" /\ FtTool(c) \in Searches
      /\ ftStable' = [ftStable EXCEPT ![c] = FtFile]
  BY DEF ListEntries, FtAt
<1>3. Kept(c) \subseteq FtEntry
  BY <1>1, KeptType
<1>4. ftCalls[c].put = {}
  BY <1>1, <1>2 DEF FtCallInv, FtPuts
<1>5. ftCalls' = [ftCalls EXCEPT ![c] = new]
  <2>1. ftCalls' = [ftCalls EXCEPT ![c].todo = Kept(c), ![c].capped = capped, ![c].pc = "look"]
    BY DEF ListEntries
  <2>2. ftCalls \in [FtCaller -> FtCallType]
    BY <1>1 DEF FtTypes
  <2> HIDE DEF capped
  <2> QED
    BY <2>1, <2>2 DEF FtCallType
<1>6. /\ new \in FtCallType /\ new.pc = "look" /\ new.put = {} /\ new.todo = Kept(c)
      /\ new.capped = capped /\ new.total = ftCalls[c].total
  <2> DEFINE kept == Kept(c)
             call == ftCalls[c]
  <2>1. capped \in BOOLEAN /\ kept \in SUBSET FtEntry /\ "look" \in FtPc
    BY <1>3 DEF FtPc
  <2>2. call \in FtCallType /\ call.put = {}
    BY <1>1, <1>4 DEF FtTypes
  <2> HIDE DEF capped, kept, call, FtPc
  <2>3. new = [call EXCEPT !.todo = kept, !.capped = capped, !.pc = "look"]
    BY DEF kept, call
  <2> HIDE DEF new
  <2>4. new \in FtCallType
    BY <2>1, <2>2, <2>3 DEF FtCallType
  <2>5. new.pc = "look" /\ new.put = {} /\ new.todo = kept /\ new.capped = capped /\ new.total = call.total
    BY <2>2, <2>3 DEF FtCallType
  <2> QED
    BY <2>4, <2>5 DEF kept, call
<1> HIDE DEF new
<1>7. /\ ftCalls' \in [FtCaller -> FtCallType] /\ ftCalls'[c] = new
      /\ \A d \in FtCaller \ {c} : ftCalls'[d] = ftCalls[d]
  BY <1>1, <1>5, <1>6, OneCall
<1>8. FtTypes'
  BY <1>1, <1>2, <1>7 DEF FtTypes
<1>9. FtTool(c)' = FtTool(c) /\ FtInput(c)' = FtInput(c)
  BY <1>2 DEF FtTool, FtInput
<1>10. FtControl(c)'
  BY <1>2, <1>6, <1>7, <1>9 DEF FtControl, Searches
<1>11. FtPuts(c)'
  BY <1>6, <1>7 DEF FtPuts
<1>12. FtFound(c)'
  <2>1. ftCalls'[c].pc = "look" /\ ftCalls'[c].total = ftCalls[c].total
    BY <1>6, <1>7
  <2>2. ASSUME ~ftCalls'[c].capped, NEW p \in ftStable'[c], FtMatches(c, p)' PROVE FtLeft(c, p)'
    <3>1. p \in FtFile /\ ftFiles[p] # Gone /\ Kept(c) = Listed(c)
      BY <1>1, <1>2, <1>6, <1>7, <2>2 DEF FtMatches, FtTypes
    <3>2. TextOf(<<p, "file">>) # Gone
      BY <3>1, FileText
    <3>3. <<p, "file">> \in Listed(c)
      BY <3>1, <3>2 DEF Listed, DirEntries
    <3> QED
      BY <1>6, <1>7, <3>1, <3>3 DEF FtLeft
  <2>3. /\ StopsEarly(c) => ftCalls[c].total <= Collects(c)
        /\ Collects(c)' = Collects(c) /\ StopsEarly(c)' = StopsEarly(c)
    BY <1>1, <1>2, <1>9 DEF FtCallInv, FtFound, Collects, StopsEarly
  <2> QED
    BY <2>1, <2>2, <2>3 DEF FtFound, FtAt
<1>13. ASSUME NEW d \in FtCaller, d # c PROVE FtCallInv(d)'
  <2>1. ftStable'[d] = ftStable[d]
    BY <1>1, <1>2, <1>13 DEF FtTypes
  <2> QED
    BY <1>1, <1>2, <1>7, <1>13, <2>1, OtherCall
<1> QED
  BY <1>8, <1>10, <1>11, <1>12, <1>13 DEF FilesInv, FtCallInv

LEMMA LookKeeps == ASSUME FilesInv, NEW c \in FtCaller, LookInto(c) PROVE FilesInv'
<1> DEFINE call == ftCalls[c]
           e == FirstOf(call.todo)
           m == MatchesIn(c, e)
           n == IF StopsEarly(c) THEN Lesser(m, Collects(c) - call.total) ELSE m
           found == IF n > 0 THEN call.found \cup {e} ELSE call.found
           rest == call.todo \ {e}
           new == [call EXCEPT !.todo = rest, !.total = call.total + n, !.found = found]
<1>1. FtTypes /\ FtCallInv(c)
  BY DEF FilesInv
<1>2. /\ UNCHANGED <<ftSetup, ftFiles, ftTemps, ftStable>> /\ call.pc = "look" /\ FtTool(c) \in Searches
  BY <1>1 DEF LookInto, FilesKept, FtAt, FtCallInv, FtControl
<1>3. CASE FtFails(c)
  BY <1>2, <1>3, CallStops DEF FtFails
<1>4. CASE ftCalls' = [ftCalls EXCEPT ![c].todo = @ \ {e}, ![c].total = @ + n,
                         ![c].found = IF n > 0 THEN @ \cup {e} ELSE @]
  <2>1. call \in FtCallType
    BY <1>1 DEF FtTypes
  <2>2. call.todo \subseteq FtEntry /\ call.todo # {} /\ call.found \subseteq FtEntry /\ call.total \in Nat
    BY <2>1 DEF FtCallType, LookInto
  <2>3. e \in call.todo
    BY <2>2, FirstIsOne
  <2>4. m \in Nat
    BY <1>1, <2>2, <2>3, MatchesType
  <2>5. Collects(c) \in Nat
    BY CollectsType
  <2>6. StopsEarly(c) => call.total <= Collects(c)
    BY <1>1, <1>2 DEF FtCallInv, FtFound
  <2>7. m > 0 => n > 0 \/ (StopsEarly(c) /\ call.total >= Collects(c))
    <3> HIDE DEF m, call
    <3> QED
      BY <2>2, <2>4, <2>5, <2>6 DEF Lesser
  <2>8. n \in Nat /\ (StopsEarly(c) => call.total + n <= Collects(c))
    <3> HIDE DEF m, call
    <3> QED
      BY <2>2, <2>4, <2>5, <2>6 DEF Lesser
  <2>9. ftCalls' = [ftCalls EXCEPT ![c] = new]
    <3>1. ftCalls' = [ftCalls EXCEPT ![c].todo = rest, ![c].total = call.total + n, ![c].found = found]
      <4> HIDE DEF n, e
      <4> QED
        BY <1>1, <1>4 DEF FtTypes, FtCallType
    <3> HIDE DEF n, rest, found
    <3> QED
      BY <1>1, <3>1 DEF FtTypes, FtCallType
  <2>10. rest \subseteq FtEntry /\ found \subseteq FtEntry /\ call.found \subseteq found
    <3> HIDE DEF n, call, e
    <3> QED
      BY <2>2, <2>3
  <2> DEFINE total == call.total + n
  <2>11. total \in Nat /\ total >= call.total
    <3> HIDE DEF n, call
    <3> QED
      BY <2>2, <2>8
  <2>12. /\ new \in FtCallType /\ new.pc = "look" /\ new.todo = rest /\ new.total = total /\ new.found = found
         /\ new.put = call.put /\ new.capped = call.capped
    <3> HIDE DEF rest, found, total, n
    <3>1. new = [call EXCEPT !.todo = rest, !.total = total, !.found = found]
      BY DEF total
    <3> HIDE DEF new, call
    <3> QED
      BY <1>2, <2>1, <2>10, <2>11, <3>1 DEF FtCallType, FtPc
  <2> HIDE DEF new
  <2>13. ftCalls'[c] = new
    BY <1>1, <2>9, <2>12, OneCall
  <2>14. FtTool(c)' = FtTool(c) /\ FtInput(c)' = FtInput(c)
    BY <1>2 DEF FtTool, FtInput
  <2>15. Collects(c)' = Collects(c) /\ StopsEarly(c)' = StopsEarly(c)
    BY <2>14 DEF Collects, StopsEarly
  <2>16. FtControl(c)'
    BY <1>2, <2>12, <2>13, <2>14 DEF FtControl, Searches
  <2>17. FtPuts(c)'
    <3>1. call.put = {}
      BY <1>1, <1>2 DEF FtCallInv, FtPuts, Searches
    <3> QED
      BY <2>12, <2>13, <3>1 DEF FtPuts
  <2>18. ASSUME ~call.capped, NEW p \in ftStable[c], FtMatches(c, p)'
         PROVE  FtLeft(c, p)' \/ <<p, "file">> \in ftCalls'[c].found \/ Enough(c)'
    <3>1. TextOf(<<p, "file">>)' = TextOf(<<p, "file">>) /\ ftFiles'[p] = ftFiles[p]
      BY <1>2 DEF TextOf
    <3>2. MatchesIn(c, <<p, "file">>)' = MatchesIn(c, <<p, "file">>)
      BY <2>14, <3>1 DEF MatchesIn
    <3>3. FtMatches(c, p)
      BY <2>18, <3>1, <3>2 DEF FtMatches
    <3>4. FtLeft(c, p) \/ <<p, "file">> \in call.found \/ Enough(c)
      BY <1>1, <1>2, <2>18, <3>3 DEF FtCallInv, FtFound
    <3>5. ASSUME StopsEarly(c), call.total >= Collects(c) PROVE Enough(c)'
      <4>1. total >= Collects(c)
        <5> HIDE DEF total, call
        <5> QED
          BY <2>2, <2>5, <2>11, <3>5
      <4> QED
        BY <2>12, <2>13, <2>15, <3>5, <4>1 DEF Enough
    <3>6. CASE Enough(c)
      BY <3>5, <3>6 DEF Enough
    <3>7. CASE <<p, "file">> \in call.found
      BY <2>10, <2>12, <2>13, <3>7
    <3>8. CASE FtLeft(c, p) /\ <<p, "file">> # e
      <4>1. <<p, "file">> \in rest
        BY <3>8 DEF FtLeft
      <4> QED
        BY <2>12, <2>13, <4>1 DEF FtLeft
    <3>9. CASE <<p, "file">> = e
      <4>1. m > 0
        BY <3>3, <3>9 DEF FtMatches
      <4>2. n > 0 => e \in found
        OBVIOUS
      <4> HIDE DEF n, m, found, call
      <4> QED
        BY <2>7, <2>12, <2>13, <3>5, <3>9, <4>1, <4>2
    <3> QED
      BY <3>4, <3>6, <3>7, <3>8, <3>9
  <2>19. FtFound(c)'
    <3>1. ftCalls'[c].pc = "look" /\ ftCalls'[c].capped = call.capped /\ ftStable' = ftStable
      BY <1>2, <2>12, <2>13
    <3>2. StopsEarly(c)' => ftCalls'[c].total <= Collects(c)'
      BY <2>8, <2>12, <2>13, <2>15
    <3> QED
      BY <2>18, <3>1, <3>2 DEF FtFound, FtAt
  <2>20. FtCallInv(c)'
    BY <2>16, <2>17, <2>19 DEF FtCallInv
  <2> QED
    BY <1>2, <2>9, <2>12, <2>20, CallMoves
<1> QED
  BY <1>3, <1>4 DEF LookInto

LEMMA SearchEndsKeeps == ASSUME FilesInv, NEW c \in FtCaller, SearchEnds(c) PROVE FilesInv'
<1>1. FtTypes /\ FtCallInv(c)
  BY DEF FilesInv
<1>2. /\ UNCHANGED <<ftSetup, ftFiles, ftTemps, ftStable>> /\ ftCalls[c].pc = "look" /\ FtTool(c) \in Searches
      /\ ftCalls[c].todo = {}
  BY <1>1 DEF SearchEnds, FilesKept, FtAt, FtCallInv, FtControl
<1>3. CASE FtFails(c) \/ FtGoto(c, "some")
  BY <1>2, <1>3, CallStops DEF FtFails
<1>4. CASE FtGoto(c, "done") /\ ~SaysTruncated(c)
  <2> DEFINE new == [ftCalls[c] EXCEPT !.pc = "done"]
  <2>1. /\ new \in FtCallType /\ new.pc = "done" /\ new.put = ftCalls[c].put /\ new.found = ftCalls[c].found
        /\ new.capped = ftCalls[c].capped
    BY <1>1 DEF FtTypes, FtCallType, FtPc
  <2>2. ftCalls' = [ftCalls EXCEPT ![c] = new]
    BY <1>4 DEF FtGoto
  <2> HIDE DEF new
  <2>3. ftCalls'[c] = new /\ FtTool(c)' = FtTool(c) /\ FtInput(c)' = FtInput(c)
    BY <1>1, <1>2, <2>1, <2>2, OneCall DEF FtTool, FtInput
  <2>4. ~Enough(c)
    <3>1. ftCalls[c].total \in Nat /\ MaxResults \in Nat
      BY <1>1, FtAssumption DEF FtTypes, FtCallType
    <3> HIDE DEF FtTool
    <3> QED
      BY <1>4, <3>1 DEF Enough, StopsEarly, Collects, SaysTruncated
  <2>5. FtControl(c)'
    BY <2>1, <2>3 DEF FtControl
  <2>6. FtPuts(c)'
    BY <1>2, <2>1, <2>3 DEF FtPuts, FtWrites, Searches
  <2>7. FtFound(c)'
    <3>1. ASSUME ~ftCalls[c].capped, NEW p \in ftStable[c], FtMatches(c, p)'
          PROVE  <<p, "file">> \in ftCalls[c].found
      <4>1. TextOf(<<p, "file">>)' = TextOf(<<p, "file">>) /\ ftFiles'[p] = ftFiles[p]
        BY <1>2 DEF TextOf
      <4>2. MatchesIn(c, <<p, "file">>)' = MatchesIn(c, <<p, "file">>)
        BY <2>3, <4>1 DEF MatchesIn
      <4>3. FtMatches(c, p)
        BY <3>1, <4>1, <4>2 DEF FtMatches
      <4> QED
        BY <1>1, <1>2, <2>4, <3>1, <4>3 DEF FtCallInv, FtFound, FtLeft
    <3> QED
      BY <1>2, <2>1, <2>3, <3>1 DEF FtFound, FtAt
  <2>8. FtCallInv(c)'
    BY <2>5, <2>6, <2>7 DEF FtCallInv
  <2> QED
    BY <1>2, <2>1, <2>2, <2>8, CallMoves
<1> QED
  BY <1>3, <1>4 DEF SearchEnds

LEMMA FilesStep == ASSUME FilesInv, [FileToolsNext]_ftVars PROVE FilesInv'
<1>1. CASE UNCHANGED ftVars
  <2>1. UNCHANGED <<ftSetup, ftFiles, ftTemps, ftCalls, ftStable>>
    BY <1>1 DEF ftVars
  <2>2. FtTypes /\ \A d \in FtCaller : FtCallInv(d)
    BY DEF FilesInv
  <2>3. FtTypes'
    BY <2>1, <2>2 DEF FtTypes
  <2>4. ASSUME NEW d \in FtCaller PROVE FtCallInv(d)'
    BY <2>1, <2>2, OtherCall
  <2> QED
    BY <2>3, <2>4 DEF FilesInv
<1>2. CASE FileToolsNext
  <2>1. PICK c \in FtCaller :
          \/ ResolvePath(c) \/ LoadText(c) \/ OpenTemp(c) \/ FillTemp(c) \/ RenameTemp(c)
          \/ CheckPatch(c) \/ ApplyPatch(c) \/ GitWrites(c, "unlink", "create")
          \/ GitWrites(c, "create", "applied") \/ PatchApplied(c) \/ KillProcess(c)
          \/ ListEntries(c) \/ LookInto(c) \/ SearchEnds(c) \/ AbortCall(c) \/ CallerDies(c)
    BY <1>2 DEF FileToolsNext
  <2>2. CASE GitWrites(c, "unlink", "create") \/ GitWrites(c, "create", "applied")
    BY <2>2, GitKeeps
  <2> QED
    BY <2>1, <2>2, ResolveKeeps, LoadKeeps, OpenTempKeeps, FillTempKeeps, RenameKeeps, CheckPatchKeeps,
       ApplyPatchKeeps, AppliedKeeps, KillProcessKeeps, ListKeeps, LookKeeps, SearchEndsKeeps,
       AbortCallKeeps, CallerDiesKeeps
<1> QED
  BY <1>1, <1>2

LEMMA FilesInvSound == FilesInv => FilesSound
<1> SUFFICES ASSUME FilesInv PROVE FilesSound
  OBVIOUS
<1>1. FtTypes /\ \A c \in FtCaller : FtCallInv(c)
  BY DEF FilesInv
<1>2. NeverHalfWritten
  BY <1>1, Texts DEF NeverHalfWritten, FtTypes, FtTexts
<1>3. ASSUME NEW c \in FtCaller
      PROVE  /\ FtAt(c, "error") /\ FtTool(c) # "apply_patch" => ftCalls[c].put = {}
             /\ FtAt(c, "done") /\ FtTool(c) \in {"write", "edit", "apply_edit_ir"}
                => ftCalls[c].put = {<<FtInput(c).path, ftCalls[c].after>>}
             /\ FtAt(c, "done") /\ FtTool(c) = "apply_patch"
                => ftCalls[c].put = {<<p, FtInput(c).patch[p][2]>> : p \in Patched(c)}
  BY <1>1 DEF FtCallInv, FtPuts, FtAt, FtWrites, FtPatch
<1>4. ResultIsTrue
  BY <1>3 DEF ResultIsTrue
<1>5. SearchIsComplete
  BY <1>1 DEF SearchIsComplete, FtCallInv, FtFound, FtMatches
<1> QED
  BY <1>2, <1>4, <1>5 DEF FilesSound

\* A file never holds a text that was cut off, a call that reports success has put into
\* each file what it says and one that fails has changed none, and a search that does
\* not say that it was cut off has found what was there all along (tools.ts:110-120,
\* rg-fallback.ts, tool-registry.ts:247), for any files and any number of callers that
\* write the same ones, are aborted and die.
THEOREM FilesAreSound == FileToolsSpec => []FilesSound
<1>1. FilesInv /\ [FileToolsNext]_ftVars => FilesInv'
  BY FilesStep
<1> QED
  BY <1>1, FilesStart, FilesInvSound, PTL DEF FileToolsSpec

-----------------------------------------------------------------------------
(* The client chain: circuits and probes                                   *)
(*                                                                         *)
(* That a circuit which refuses because of a probe has that probe in       *)
(* flight needs that a slot handed on, which moves another caller from the *)
(* queue to the provider, does not take a caller away from its link.       *)

\* What the steps keep of the variables' types.  The number of slots taken and
\* the contents of the queues play no part here.
ChainTypes ==
  /\ state \in [Link -> {"closed", "open", "half-open"}]
  /\ failures \in [Link -> Nat]
  /\ probing \in [Link -> BOOLEAN]
  /\ pc \in [Call -> {"idle", "enter", "waiting", "calling"}]
  /\ link \in [Call -> Link]
  /\ probe \in [Call -> BOOLEAN]

ChainInv == ChainTypes /\ ProbeInFlight /\ ClosedMeansHealthy

-----------------------------------------------------------------------------
\* The chain starts with every circuit closed and no probe.
LEMMA ChainInitInv == Init => ChainInv
BY ResilienceAssumption DEF Init, ChainInv, ChainTypes, ProbeInFlight, ClosedMeansHealthy, Link

\* A probe that is in flight at a link stays so if its caller stays at the link.
LEMMA ProbeStays ==
  ASSUME ChainTypes, ChainTypes', ProbeInFlight, NEW c \in Call,
         \A l \in Link : probing'[l] => probing[l] \/ link'[c] = l,
         \A d \in Call : d # c /\ pc[d] \in {"waiting", "calling"} =>
           /\ pc'[d] \in {"waiting", "calling"}
           /\ link'[d] = link[d]
           /\ probe'[d] = probe[d],
         \A l \in Link : probing'[l] /\ link'[c] = l /\ ~probing[l] =>
           pc'[c] \in {"waiting", "calling"} /\ probe'[c],
         \A l \in Link : probing'[l] /\ link[c] = l /\ pc[c] \in {"waiting", "calling"} =>
           ~probe[c]
  PROVE  ProbeInFlight'
<1> SUFFICES ASSUME NEW l \in Link, probing'[l]
             PROVE  \E d \in Call : /\ pc'[d] \in {"waiting", "calling"}
                                    /\ link'[d] = l /\ probe'[d]
  BY DEF ProbeInFlight, Calling, Waiting
<1>1. CASE probing[l]
  <2>1. PICK d \in Call : pc[d] \in {"waiting", "calling"} /\ link[d] = l /\ probe[d]
    BY <1>1 DEF ProbeInFlight, Calling, Waiting
  <2>2. d # c
    BY <2>1
  <2> QED
    BY <2>1, <2>2
<1>2. CASE ~probing[l]
  BY <1>2
<1> QED
  BY <1>1, <1>2

-----------------------------------------------------------------------------
\* Callers that come, abort or are refused, and the clock, touch neither a
\* breaker's count nor a call in flight.
LEMMA OutsideStep ==
  ASSUME ChainInv, NEW c \in Call, Request(c) \/ Abort(c) \/ Refuse(c)
  PROVE  ChainInv'
<1> USE DEF ChainInv
<1>1. /\ UNCHANGED <<state, failures, probing, probe>>
      /\ pc[c] \notin {"waiting", "calling"} \/ UNCHANGED <<pc, link>>
      /\ \A d \in Call : d # c => pc'[d] = pc[d] /\ link'[d] = link[d]
      /\ UNCHANGED <<pc, link>> \/ pc'[c] \in {"idle", "enter"}
      /\ ChainTypes'
  <2>1. CASE Request(c)
    BY <2>1 DEF ChainTypes, Request, breakerVars
  <2>2. CASE Abort(c)
    BY <2>2 DEF ChainTypes, Abort, breakerVars
  <2>3. CASE Refuse(c) /\ link[c] < LastLink
    <3>1. link[c] + 1 \in Link
      BY <2>3, ResilienceAssumption DEF ChainTypes, Link
    <3> QED
      BY <2>3, <3>1 DEF ChainTypes, Refuse, FallBack, breakerVars
  <2>4. CASE Refuse(c) /\ ~(link[c] < LastLink)
    <3>1. 1 \in Link
      BY ResilienceAssumption DEF Link
    <3> QED
      BY <2>4, <3>1 DEF ChainTypes, Refuse, FallBack, Finish, breakerVars
  <2> QED
    BY <2>1, <2>2, <2>3, <2>4
<1>2. ClosedMeansHealthy'
  BY <1>1 DEF ClosedMeansHealthy
<1>3. ProbeInFlight'
  BY <1>1 DEF ProbeInFlight, Calling, Waiting, ChainTypes
<1> QED
  BY <1>1, <1>2, <1>3

\* The cooldown leaves everything else alone.
LEMMA CoolStep ==
  ASSUME ChainInv, NEW l \in Link, Cool(l)
  PROVE  ChainInv'
BY DEF ChainInv, ChainTypes, ProbeInFlight, ClosedMeansHealthy, Calling, Waiting, Cool, callVars

\* A call that is admitted as a probe is in flight from then on.
LEMMA AdmitStep ==
  ASSUME ChainInv, NEW c \in Call, Admit(c)
  PROVE  ChainInv'
<1> USE DEF ChainInv
<1> DEFINE l == link[c]
<1>1. /\ l \in Link
      /\ pc[c] = "enter"
      /\ UNCHANGED <<failures, link>>
      /\ \A d \in Call : d # c => pc'[d] = pc[d] /\ probe'[d] = probe[d]
      /\ pc'[c] \in {"waiting", "calling"}
  BY DEF Admit, Acquire, ChainTypes
<1>2. /\ ChainTypes'
      /\ \A k \in Link : state'[k] = "closed" => state[k] = "closed"
      /\ \A k \in Link : probing'[k] /\ ~probing[k] => k = l /\ probe'[c]
  <2>1. pc' \in [Call -> {"idle", "enter", "waiting", "calling"}]
    BY DEF Admit, Acquire, ChainTypes
  <2>2. CASE state[l] = "closed" /\ UNCHANGED <<state, probing, probe>>
    BY <1>1, <2>1, <2>2 DEF ChainTypes
  <2>3. CASE /\ state[l] # "closed"
             /\ state' = [state EXCEPT ![l] = "half-open"]
             /\ probing' = [probing EXCEPT ![l] = TRUE]
             /\ probe' = [probe EXCEPT ![c] = TRUE]
    BY <1>1, <2>1, <2>3 DEF ChainTypes
  <2> QED
    BY <2>2, <2>3 DEF Admit
<1>3. ClosedMeansHealthy'
  BY <1>1, <1>2 DEF ClosedMeansHealthy
<1>4. ProbeInFlight'
  BY <1>1, <1>2, ProbeStays
<1> QED
  BY <1>2, <1>3, <1>4

\* An answer ends at most its own probe, and counts so that the threshold opens
\* the circuit.
LEMMA CompleteStep ==
  ASSUME ChainInv, NEW c \in Call, NEW answer \in Answer, Complete(c, answer)
  PROVE  ChainInv'
<1> USE DEF ChainInv
<1> DEFINE l == link[c]
<1>1. /\ l \in Link
      /\ pc[c] = "calling"
      /\ probing' = [probing EXCEPT ![l] = @ /\ ~probe[c]]
      /\ probe' = [probe EXCEPT ![c] = FALSE]
      /\ \A d \in Call : d # c => link'[d] = link[d]
  BY DEF Complete, EndProbe, ChainTypes
<1>2. \A d \in Call : d # c => pc'[d] \in {pc[d], "calling"}
  BY DEF Complete
<1>3. /\ pc' \in [Call -> {"idle", "enter", "waiting", "calling"}]
      /\ link' \in [Call -> Link]
  BY <1>1, ResilienceAssumption DEF Complete, ChainTypes, Link
<1>4. \/ RecordSuccess(l)
      \/ RecordFailure(c, l)
  BY DEF Complete
<1>5. /\ state' \in [Link -> {"closed", "open", "half-open"}]
      /\ failures' \in [Link -> Nat]
  BY <1>1, <1>4 DEF RecordSuccess, RecordFailure, Open, ChainTypes
<1>6. ChainTypes'
  BY <1>1, <1>3, <1>5 DEF ChainTypes
<1>7. ClosedMeansHealthy'
  <2>1. CASE RecordSuccess(l)
    BY <1>1, <2>1, ResilienceAssumption DEF RecordSuccess, ClosedMeansHealthy, ChainTypes
  <2>2. CASE RecordFailure(c, l)
    BY <1>1, <2>2, ResilienceAssumption DEF RecordFailure, Open, ClosedMeansHealthy, ChainTypes
  <2> QED
    BY <1>4, <2>1, <2>2
<1>8. ProbeInFlight'
  <2>1. \A k \in Link : probing'[k] => probing[k]
    BY <1>1 DEF ChainTypes
  <2>2. \A k \in Link : probing'[k] /\ link[c] = k => ~probe[c]
    BY <1>1 DEF ChainTypes
  <2>3. \A d \in Call : d # c /\ pc[d] \in {"waiting", "calling"} =>
          /\ pc'[d] \in {"waiting", "calling"}
          /\ link'[d] = link[d]
          /\ probe'[d] = probe[d]
    BY <1>1, <1>2 DEF ChainTypes
  <2> QED
    BY <1>6, <2>1, <2>2, <2>3, ProbeStays
<1> QED
  BY <1>6, <1>7, <1>8

-----------------------------------------------------------------------------
\* The invariant of the chain, through any overlap of calls, aborts, late
\* answers and cooldowns.
THEOREM ChainInvariant == Spec => []ChainInv
<1>1. Init => ChainInv
  BY ChainInitInv
<1>2. ChainInv /\ [Next]_vars => ChainInv'
  <2> SUFFICES ASSUME ChainInv, [Next]_vars
               PROVE  ChainInv'
    OBVIOUS
  <2>1. CASE UNCHANGED vars
    BY <2>1 DEF ChainInv, ChainTypes, ProbeInFlight, ClosedMeansHealthy, Calling, Waiting,
                vars, breakerVars, callVars
  <2>2. ASSUME NEW c \in Call, Request(c) \/ Abort(c) \/ Proceed(c)
        PROVE  ChainInv'
    BY <2>2, OutsideStep, AdmitStep, CompleteStep DEF Proceed
  <2>3. ASSUME NEW l \in Link, Cool(l)
        PROVE  ChainInv'
    BY <2>3, CoolStep
  <2> QED
    BY <2>1, <2>2, <2>3 DEF Next
<1> QED
  BY <1>1, <1>2, PTL DEF Spec

\* A circuit that refuses calls because of a probe has that probe in flight, and
\* a closed one has not seen as many failures in a row as open it
\* (circuit-breaker.ts:97, 128-164).
THEOREM BreakerSoundHolds == Spec => []BreakerSound
<1>1. ChainInv => BreakerSound
  BY DEF ChainInv, BreakerSound
<1> QED
  BY <1>1, ChainInvariant, PTL

=============================================================================
