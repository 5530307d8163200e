----------------------------- MODULE SessionStore -----------------------------
(***************************************************************************)
(* SessionStore (agent-runtime/src/session-store.ts): the JSONL file of    *)
(* one session and its lock file, used by several processes.               *)
(*                                                                         *)
(* A mutation takes the lock, repairs a torn tail, loads the file, appends *)
(* one or two lines and removes the lock; each file operation is a step of *)
(* its own and a process may die between two of them, or in the middle of  *)
(* an append.  An event is an entry, a leaf or "meta" (setName, setModel   *)
(* and saveCompaction, which differ in what they check first); messages    *)
(* are left out.  Lock age and pids are abstracted to whether isLockLive   *)
(* would call the lock dead: its process is gone, or it outlived its TTL.  *)
(***************************************************************************)
EXTENDS Integers, Sequences, FiniteSets

CONSTANTS
  SessionProc,        \* the processes that open the session
  Nobody,             \* no process
  LockAttempts,       \* SESSION_LOCK_MAX_ATTEMPTS
  MaxMutations,       \* bound: mutations in all
  MaxSessionDeaths,   \* bound: deaths of processes
  MaxOverstays        \* bound: holders that live and keep the lock past its TTL

ASSUME SessionAssumption == LockAttempts \in Nat \ {0} /\ Nobody \notin SessionProc

VARIABLES
  sessFile,       \* the lines: [event, whole, newline]; a line that is not
                  \* whole does not parse
  sessLock,       \* [owner, stamped, dead]; not stamped is an empty lock file
  sessProc,       \* each process: [pc, op, try, cut, id], where it is in
                  \* withSessionLock, the mutation it makes, the attempts made,
                  \* the lines repairTornTail keeps, the entry it appends or
                  \* moves to
  sessMutations, sessDeaths, sessOverstays,
  sessAcked,      \* history: entries whose append returned
  sessStolen,     \* history: a lock was removed as dead under its holder
  sessGlued       \* history: an append went on in a whole line without a newline

sessBounds == <<sessMutations, sessDeaths, sessOverstays>>
sessHistory == <<sessAcked, sessStolen, sessGlued>>
sessVars == <<sessFile, sessLock, sessProc, sessBounds, sessHistory>>

EmptyLock(p) == [owner |-> p, stamped |-> FALSE, dead |-> FALSE]
NoLock == EmptyLock(Nobody)

EntryEvent(id) == [type |-> "entry", id |-> id]
LeafEvent(id) == [type |-> "leaf", id |-> id]
MetaEvent == [type |-> "meta", id |-> 0]

IdleProc == [pc |-> "idle", op |-> "none", try |-> 0, cut |-> 0, id |-> 0]

SessionInit ==
  /\ sessFile = <<[event |-> MetaEvent, whole |-> TRUE, newline |-> TRUE]>>
  /\ sessLock = NoLock
  /\ sessProc = [p \in SessionProc |-> IdleProc]
  /\ sessMutations = 0 /\ sessDeaths = 0 /\ sessOverstays = 0
  /\ sessAcked = {} /\ sessStolen = FALSE /\ sessGlued = FALSE

-----------------------------------------------------------------------------
(* Reading the file: readEvents and materialize *)

\* A line that does not parse is skipped at the end and fatal before.
Loadable == \A i \in 1..Len(sessFile) - 1 : sessFile[i].whole

SessionEvents == {sessFile[i].event : i \in {j \in DOMAIN sessFile : sessFile[j].whole}}
Entries == {event.id : event \in {e \in SessionEvents : e.type = "entry"}}

\* 0 while there is no leaf.
ActiveLeaf ==
  LET leaves == {i \in DOMAIN sessFile : sessFile[i].whole /\ sessFile[i].event.type = "leaf"}
  IN  IF leaves = {} THEN 0
      ELSE sessFile[CHOOSE i \in leaves : \A j \in leaves : j <= i].event.id

-----------------------------------------------------------------------------
(* The lock *)

At(p, pc) == sessProc[p].pc = pc
Become(p, proc) == sessProc' = [sessProc EXCEPT ![p] = proc]
Goto(p, pc) == Become(p, [sessProc[p] EXCEPT !.pc = pc])
Retry(p) == Become(p, [sessProc[p] EXCEPT !.pc = "open", !.try = @ + 1])
Return(p) == Become(p, IdleProc)

\* The processes that took the lock and have not removed it.
Holders ==
  {p \in SessionProc : sessProc[p].pc \in
     {"stamp", "repair", "truncate", "load", "write", "leaf", "release"}}

Mutate(p, op) ==
  /\ At(p, "idle") /\ sessMutations < MaxMutations
  /\ sessMutations' = sessMutations + 1
  /\ Become(p, [IdleProc EXCEPT !.pc = "open", !.op = op, !.id = sessMutations'])
  /\ UNCHANGED <<sessFile, sessLock, sessDeaths, sessOverstays, sessHistory>>

\* Mutant: the lock file is opened without "x".
OpenAlways(p) ==
  /\ At(p, "open") /\ sessProc[p].try < LockAttempts
  /\ sessLock' = EmptyLock(p) /\ Goto(p, "stamp")
  /\ UNCHANGED <<sessFile, sessBounds, sessHistory>>

\* open(lockPath, "wx")
OpenLock(p) ==
  /\ At(p, "open") /\ sessProc[p].try < LockAttempts
  /\ IF sessLock = NoLock
     THEN sessLock' = EmptyLock(p) /\ Goto(p, "stamp")
     ELSE Goto(p, "judge") /\ UNCHANGED sessLock
  /\ UNCHANGED <<sessFile, sessBounds, sessHistory>>

\* "lock could not be acquired (contention)"
GiveUp(p) ==
  /\ At(p, "open") /\ sessProc[p].try = LockAttempts
  /\ Return(p)
  /\ UNCHANGED <<sessFile, sessLock, sessBounds, sessHistory>>

\* readLockRecord and isLockLive: a lock that is gone or empty (its text does
\* not parse) is tried again, a live one throws, a dead one is removed.
Judge(p) ==
  /\ At(p, "judge")
  /\ \/ ~sessLock.stamped /\ Retry(p)
     \/ sessLock.stamped /\ sessLock.dead /\ Goto(p, "preempt")
     \/ sessLock.stamped /\ ~sessLock.dead /\ Return(p)
  /\ UNCHANGED <<sessFile, sessLock, sessBounds, sessHistory>>

\* rm(lockPath): whatever lock is there by now.
Preempt(p) ==
  /\ At(p, "preempt")
  /\ sessLock' = NoLock
  /\ sessStolen' = (sessStolen \/ Holders # {})
  /\ Retry(p)
  /\ UNCHANGED <<sessFile, sessBounds, sessAcked, sessGlued>>

\* The record is written through the handle; a lock that was removed in the
\* meantime stays removed.
Stamp(p) ==
  /\ At(p, "stamp")
  /\ sessLock' = [sessLock EXCEPT !.stamped = @ \/ sessLock.owner = p]
  /\ Goto(p, "repair")
  /\ UNCHANGED <<sessFile, sessBounds, sessHistory>>

\* The holder of a lock keeps it past its TTL.
Overstay ==
  /\ sessOverstays < MaxOverstays /\ sessLock.stamped /\ ~sessLock.dead
  /\ sessOverstays' = sessOverstays + 1
  /\ sessLock' = [sessLock EXCEPT !.dead = TRUE]
  /\ UNCHANGED <<sessFile, sessProc, sessMutations, sessDeaths, sessHistory>>

-----------------------------------------------------------------------------
(* Under the lock *)

\* O_APPEND: after a line without a newline the text goes on in that line.
AppendLine(event, whole, newline) ==
  LET last == Len(sessFile)
  IN  sessFile' =
        IF sessFile = <<>> \/ sessFile[last].newline
        THEN Append(sessFile, [event |-> event, whole |-> whole, newline |-> newline])
        ELSE [sessFile EXCEPT ![last].whole = FALSE, ![last].newline = newline]

\* The last line is an event that only lacks its newline.
Unended ==
  LET last == Len(sessFile)
  IN  sessFile # <<>> /\ sessFile[last].whole /\ ~sessFile[last].newline

\* write(): the event goes to the end of the file, whatever is there.
AppendEvent(event, whole, newline) ==
  /\ AppendLine(event, whole, newline)
  /\ sessGlued' = (sessGlued \/ Unended)

\* Mutant: the tail is left for readEvents to skip.
RepairNothing(p) ==
  /\ At(p, "repair")
  /\ Goto(p, "load")
  /\ UNCHANGED <<sessFile, sessLock, sessBounds, sessHistory>>

\* repairTornTail reads the file; a last line that parses is left as it is, with
\* or without its newline.
Repair(p) ==
  /\ At(p, "repair")
  /\ LET torn == sessFile # <<>> /\ ~sessFile[Len(sessFile)].whole
     IN  Become(p, [sessProc[p] EXCEPT !.pc = IF torn THEN "truncate" ELSE "load",
                                       !.cut = IF torn THEN Len(sessFile) - 1 ELSE 0])
  /\ UNCHANGED <<sessFile, sessLock, sessBounds, sessHistory>>

\* truncate(path, offset) pads a file that was cut shorter meanwhile.
Truncate(p) ==
  /\ At(p, "truncate")
  /\ IF sessProc[p].cut <= Len(sessFile)
     THEN sessFile' = SubSeq(sessFile, 1, sessProc[p].cut)
     ELSE AppendLine(MetaEvent, FALSE, FALSE)
  /\ Goto(p, "load")
  /\ UNCHANGED <<sessLock, sessBounds, sessHistory>>

\* A file that does not load, and a leaf to move to that does not exist, throw.
LoadSession(p) ==
  LET move == sessProc[p].op = "move"
  IN  /\ At(p, "load")
      /\ \/ /\ Loadable
            /\ \E id \in IF move THEN Entries ELSE {sessProc[p].id} :
                 Become(p, [sessProc[p] EXCEPT !.pc = "write", !.id = id])
         \/ /\ ~Loadable \/ (move /\ Entries = {})
            /\ Become(p, [sessProc[p] EXCEPT !.pc = "release", !.op = "failed"])
      /\ UNCHANGED <<sessFile, sessLock, sessBounds, sessHistory>>

\* What the process is about to append: the leaf follows the entry.
NextEvent(p) ==
  LET proc == sessProc[p]
  IN  IF proc.pc = "leaf" \/ proc.op = "move" THEN LeafEvent(proc.id)
      ELSE IF proc.op = "append" THEN EntryEvent(proc.id)
      ELSE MetaEvent

WriteEvent(p) ==
  /\ sessProc[p].pc \in {"write", "leaf"}
  /\ AppendEvent(NextEvent(p), TRUE, TRUE)
  /\ Goto(p, IF At(p, "write") /\ sessProc[p].op = "append" THEN "leaf" ELSE "release")
  /\ UNCHANGED <<sessLock, sessBounds, sessAcked, sessStolen>>

\* rm(lockPath), whosever it is by now.
ReleaseLock(p) ==
  /\ At(p, "release")
  /\ sessLock' = NoLock
  /\ sessAcked' = IF sessProc[p].op = "append" THEN sessAcked \cup {sessProc[p].id} ELSE sessAcked
  /\ Return(p)
  /\ UNCHANGED <<sessFile, sessBounds, sessStolen, sessGlued>>

\* A process dies; its lock stays, and what it was appending is on disk not at
\* all, in part, without its newline, or whole.
Kill(p) ==
  /\ ~At(p, "idle") /\ sessDeaths < MaxSessionDeaths
  /\ sessDeaths' = sessDeaths + 1
  /\ Return(p)
  /\ sessLock' = [sessLock EXCEPT !.dead = @ \/ sessLock.owner = p]
  /\ \/ UNCHANGED <<sessFile, sessGlued>>
     \/ /\ sessProc[p].pc \in {"write", "leaf"}
        /\ \E whole, newline \in BOOLEAN :
             (newline => whole) /\ AppendEvent(NextEvent(p), whole, newline)
  /\ UNCHANGED <<sessMutations, sessOverstays, sessAcked, sessStolen>>

SessionNext ==
  \/ \E p \in SessionProc :
       \/ \E op \in {"append", "move", "meta"} : Mutate(p, op)
       \/ OpenLock(p) \/ GiveUp(p) \/ Judge(p) \/ Preempt(p) \/ Stamp(p)
       \/ Repair(p) \/ Truncate(p) \/ LoadSession(p) \/ WriteEvent(p) \/ ReleaseLock(p)
       \/ Kill(p)
  \/ Overstay

SessionSpec == SessionInit /\ [][SessionNext]_sessVars

-----------------------------------------------------------------------------
(* Properties *)

\* Two processes are inside the lock at once only after a lock was removed as
\* dead while its holder was inside; the removals go by path, whosever lock it
\* is by then (session-store.ts:472, 495).
WritersExclusive == ~sessStolen => \A p, q \in Holders : p = q

\* What a reader of the session relies on: it loads, every entry whose append
\* returned is in it, and its leaf is an entry of it, so activeBranch does not
\* throw.
Readable == Loadable /\ sessAcked \subseteq Entries /\ ActiveLeaf \in Entries \cup {0}

\* Whatever processes die, and whatever tails they leave, torn or with no more
\* than the newline missing, the session stays readable, as long as no lock was
\* stolen and no later append went on in a line that a death left without its
\* newline: repairTornTail cuts a line that does not parse, and leaves that one
\* (session-store.ts:384).  What the append does to it is CommittedSurvives.
CommittedUnderLock == ~sessStolen /\ ~sessGlued => Readable

\* "Append + fsync before returning, so a committed entry survives a crash"
\* (session-store.ts:411).  The code breaks it with one death and no stolen
\* lock: the entry that is appended next goes on in the line whose newline the
\* death lost, and is acknowledged; that line does not parse, and with a line
\* behind it the file does not load.
CommittedSurvives == \A id \in sessAcked : ~sessStolen => Loadable /\ id \in Entries
=============================================================================
