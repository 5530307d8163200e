------------------------------- MODULE FactStore -------------------------------
(***************************************************************************)
(* FileFactStore of persistence/src/file-fact-store.ts: processes append   *)
(* batches of events to one task's events.jsonl under a lock file, and     *)
(* replace its checkpoint.json; they may be killed, or the machine may     *)
(* lose power, between any two steps.                                      *)
(*                                                                         *)
(* Modelled: every file-system call of append(), of the lock it takes (the *)
(* theft of a stale lock and the release included) and of saveCheckpoint,  *)
(* as a step of its own; torn writes; what fsync does and does not keep.   *)
(*                                                                         *)
(* Abstracted: a line of the file is an event, or Garbage when it does not *)
(* parse; an event is its seq and the number of the call that wrote it;    *)
(* digests and schema checks, which only disk corruption fails.  A write   *)
(* that no crash interrupts writes all its bytes.  The heartbeat keeps a   *)
(* live holder's lock younger than its TTL.                                *)
(***************************************************************************)
EXTENDS Integers, Sequences, SequencesExt

CONSTANTS
  Process,       \* processes that open the store, each with a pid of its own
  NoLock,        \* there is no lock file
  Garbage,       \* a line that is not JSON
  NoCheckpoint,  \* there is no checkpoint file
  BatchSizes,    \* events in one append
  LoseNewline,   \* TRUE: a write may be torn just before its last newline
  SoloRecovery,  \* TRUE: one process at a time may meet a dead holder's lock
  MaxAttempts,   \* lockRetryAttempts
  MaxCalls,      \* bound: calls over the whole history
  MaxCrashes     \* bound: kills and power losses

\* The sentinels are no events and no locks; an append has events in it.
ASSUME FactStoreAssumption ==
  /\ BatchSizes \subseteq Nat \ {0}
  /\ {LoseNewline, SoloRecovery} \subseteq BOOLEAN
  /\ Garbage \notin [seq : Nat, call : Nat]
  /\ NoLock \notin [by : Process, written : BOOLEAN, expired : BOOLEAN]
  /\ {MaxAttempts, MaxCalls, MaxCrashes} \subseteq Nat

VARIABLES
  file,        \* events.jsonl: its lines, and whether it ends with a newline
  disk,        \* what of it was last synced
  lock,        \* .append.lock: who made it, whether it is written, its age
  checkpoint,  \* checkpoint.json: the call that saved it, and if it is whole
  ckDisk,      \* the checkpoint a power loss cannot take back
  status,      \* "new", "live" or "dead"
  pc,          \* where each process is in its call
  attempts,    \* how often it has tried the lock
  batch,       \* the events it appends, with the seqs it expects for them
  kept,        \* the lines it found readable in a file with a torn tail
  calls,       \* calls so far; their numbers name them
  crashes,     \* kills and power losses so far
  acked,       \* events whose append returned
  renames,     \* the saves that replaced the checkpoint, in order
  saved        \* those that returned

vars == <<file, disk, lock, checkpoint, ckDisk, status, pc, attempts, batch,
          kept, calls, crashes, acked, renames, saved>>

-----------------------------------------------------------------------------
(* The event file. *)

EmptyFile == [lines |-> <<>>, ended |-> TRUE]

\* The file after whole lines are written to it, the last with its newline or
\* not.  A file that does not end with a newline joins its last line and the
\* first new one.
Put(f, items, ended) ==
  IF items = <<>> THEN f
  ELSE IF f.ended THEN [lines |-> f.lines \o items, ended |-> ended]
  ELSE [lines |-> Front(f.lines) \o <<Garbage>> \o Tail(items), ended |-> ended]

\* What may be left of a write that a crash interrupts: some of its lines, then
\* perhaps part of the next.
TornPuts(f, items) ==
  {Put(f, SubSeq(items, 1, n), TRUE) : n \in 0..Len(items)}
    \cup {Put(f, SubSeq(items, 1, n) \o <<Garbage>>, FALSE) : n \in 0..Len(items) - 1}
    \cup (IF LoseNewline
          THEN {Put(f, SubSeq(items, 1, n), FALSE) : n \in 1..Len(items)}
          ELSE {})

\* readEvents: only the last line may be unreadable.
Corrupt(f) == \E i \in 1..Len(f.lines) - 1 : f.lines[i] = Garbage

Torn(f) == f.lines # <<>> /\ Last(f.lines) = Garbage

Events(f) == IF Torn(f) THEN Front(f.lines) ELSE f.lines

-----------------------------------------------------------------------------
Init ==
  /\ file = EmptyFile
  /\ disk = EmptyFile
  /\ lock = NoLock
  /\ checkpoint = NoCheckpoint
  /\ ckDisk = NoCheckpoint
  /\ status = [p \in Process |-> "new"]
  /\ pc = [p \in Process |-> "idle"]
  /\ attempts = [p \in Process |-> 0]
  /\ batch = [p \in Process |-> <<>>]
  /\ kept = [p \in Process |-> 0]
  /\ calls = 0
  /\ crashes = 0
  /\ acked = {}
  /\ renames = <<>>
  /\ saved = {}

fileVars == <<file, disk>>
checkpointVars == <<checkpoint, ckDisk>>
history == <<calls, crashes, acked, renames, saved>>
callVars == <<status, attempts, batch, kept>>

Goto(p, next) == pc' = [pc EXCEPT ![p] = next]

\* The call returns or throws.
Return(p) ==
  /\ Goto(p, "idle")
  /\ attempts' = [attempts EXCEPT ![p] = 0]
  /\ batch' = [batch EXCEPT ![p] = <<>>]
  /\ kept' = [kept EXCEPT ![p] = 0]
  /\ UNCHANGED status

\* A process opens the store.
Start(p) ==
  LET live == {q \in Process : status[q] = "live"}
  IN  /\ status[p] = "new"
      /\ SoloRecovery =>
           \/ live = {}
           \/ crashes = 0 /\ \E q \in live : live = {q}
      /\ status' = [status EXCEPT ![p] = "live"]
      /\ UNCHANGED <<fileVars, lock, checkpointVars, pc, attempts, batch, kept, history>>

\* append(): the expected version is the length the caller last read.
BeginAppend(p) ==
  /\ status[p] = "live" /\ pc[p] = "idle"
  /\ calls < MaxCalls
  /\ ~Corrupt(file)
  /\ calls' = calls + 1
  /\ \E n \in BatchSizes :
       batch' = [batch EXCEPT ![p] =
         [i \in 1..n |-> [seq |-> Len(Events(file)) + i, call |-> calls']]]
  /\ Goto(p, "open")
  /\ UNCHANGED <<fileVars, lock, checkpointVars, status, attempts, kept, crashes, acked,
                     renames, saved>>

-----------------------------------------------------------------------------
(* withTaskLock *)

\* Mutant: a lock that is there is waited for without counting.
OpenLockUncounted(p) ==
  /\ pc[p] = "open" /\ attempts[p] < MaxAttempts
  /\ IF lock = NoLock
     THEN /\ lock' = [by |-> p, written |-> FALSE, expired |-> FALSE]
          /\ Goto(p, "stamp")
     ELSE UNCHANGED lock /\ Goto(p, "inspect")
  /\ UNCHANGED <<fileVars, checkpointVars, callVars, history>>

\* open(lockPath, "wx")
OpenLock(p) ==
  /\ pc[p] = "open" /\ attempts[p] < MaxAttempts
  /\ attempts' = [attempts EXCEPT ![p] = @ + 1]
  /\ \/ /\ lock = NoLock
        /\ lock' = [by |-> p, written |-> FALSE, expired |-> FALSE]
        /\ Goto(p, "stamp")
     \/ /\ lock # NoLock
        /\ UNCHANGED lock
        /\ Goto(p, "inspect")
  /\ UNCHANGED <<fileVars, checkpointVars, status, batch, kept, history>>

TimeOut(p) ==
  /\ pc[p] = "open" /\ attempts[p] = MaxAttempts
  /\ Return(p)
  /\ UNCHANGED <<fileVars, lock, checkpointVars, history>>

\* Mutant: a lock is stale when it is written.
InspectBlindly(p) ==
  /\ pc[p] = "inspect"
  /\ Goto(p, IF lock # NoLock /\ lock.written THEN "steal" ELSE "open")
  /\ UNCHANGED <<fileVars, lock, checkpointVars, callVars, history>>

\* tryStealStaleLock: the lock is read; its owner's pid is dead, or reused by
\* another program, and then only its age tells.
Inspect(p) ==
  /\ pc[p] = "inspect"
  /\ \E pidReused \in BOOLEAN :
       LET stale == /\ lock # NoLock
                    /\ lock.written
                    /\ \/ status[lock.by] = "dead" /\ ~pidReused
                       \/ lock.expired
       IN  Goto(p, IF stale THEN "steal" ELSE "open")
  /\ UNCHANGED <<fileVars, lock, checkpointVars, callVars, history>>

\* The lock found stale is unlinked by its path, whoever made it.
Steal(p) ==
  /\ pc[p] = "steal"
  /\ lock' = NoLock
  /\ Goto(p, "open")
  /\ UNCHANGED <<fileVars, checkpointVars, callVars, history>>

\* The owner is written through the handle.
Stamp(p) ==
  /\ pc[p] = "stamp"
  /\ lock' = IF lock # NoLock /\ lock.by = p THEN [lock EXCEPT !.written = TRUE]
             ELSE lock
  /\ Goto(p, "read")
  /\ UNCHANGED <<fileVars, checkpointVars, callVars, history>>

\* A dead owner's lock grows older than the TTL.
Expire ==
  /\ lock # NoLock
  /\ lock.written /\ ~lock.expired
  /\ status[lock.by] = "dead"
  /\ lock' = [lock EXCEPT !.expired = TRUE]
  /\ UNCHANGED <<fileVars, checkpointVars, callVars, pc, history>>

\* releaseLockIfOwned: the lock is read back; one that cannot be read, or is
\* gone, is unlinked too.
Release(p) ==
  LET another == lock # NoLock /\ lock.written /\ lock.by # p
  IN  /\ pc[p] \in {"release", "releaseAcked"}
      /\ IF another
         THEN /\ Return(p)
              /\ acked' = IF pc[p] = "releaseAcked" THEN acked \cup Range(batch[p]) ELSE acked
         ELSE /\ Goto(p, IF pc[p] = "releaseAcked" THEN "unlinkAcked" ELSE "unlink")
              /\ UNCHANGED <<acked, callVars>>
      /\ UNCHANGED <<fileVars, lock, checkpointVars, calls, crashes, renames, saved>>

\* The lock goes, and the call returns.
Unlink(p) ==
  /\ pc[p] \in {"unlink", "unlinkAcked"}
  /\ lock' = NoLock
  /\ acked' = IF pc[p] = "unlinkAcked" THEN acked \cup Range(batch[p]) ELSE acked
  /\ Return(p)
  /\ UNCHANGED <<fileVars, checkpointVars, calls, crashes, renames, saved>>

-----------------------------------------------------------------------------
(* append, with the lock held *)

\* Mutant: the version is not compared.
ReadBlindly(p) ==
  /\ pc[p] = "read"
  /\ Goto(p, IF Corrupt(file) THEN "release" ELSE IF Torn(file) THEN "truncate" ELSE "write")
  /\ kept' = [kept EXCEPT ![p] = Len(Events(file))]
  /\ UNCHANGED <<fileVars, lock, checkpointVars, status, attempts, batch, history>>

\* Where append goes with the number of events it found.
Compared(p, found) == IF found = batch[p][1].seq - 1 THEN "write" ELSE "release"

\* loadEventsLocked reads the file.
Read(p) ==
  /\ pc[p] = "read"
  /\ Goto(p, IF Corrupt(file) THEN "release"
             ELSE IF Torn(file) THEN "truncate"
             ELSE Compared(p, Len(Events(file))))
  /\ kept' = [kept EXCEPT ![p] = IF Torn(file) THEN Len(Events(file)) ELSE 0]
  /\ UNCHANGED <<fileVars, lock, checkpointVars, status, attempts, batch, history>>

\* A torn tail is cut off, at the offset read before, and the file synced.
Truncate(p) ==
  /\ pc[p] = "truncate"
  /\ file' = [lines |-> SubSeq(file.lines, 1, kept[p]), ended |-> TRUE]
  /\ disk' = file'
  /\ Goto(p, Compared(p, kept[p]))
  /\ UNCHANGED <<lock, checkpointVars, callVars, history>>

\* appendFileDurable: the write ...
Write(p) ==
  /\ pc[p] = "write"
  /\ file' = Put(file, batch[p], TRUE)
  /\ Goto(p, "sync")
  /\ UNCHANGED <<disk, lock, checkpointVars, callVars, history>>

\* ... and the fsync.
Sync(p) ==
  /\ pc[p] = "sync"
  /\ disk' = file
  /\ Goto(p, "releaseAcked")
  /\ UNCHANGED <<file, lock, checkpointVars, callVars, history>>

-----------------------------------------------------------------------------
(* saveCheckpoint *)

\* The temporary file has a name of its own: nobody else sees it.
BeginSave(p) ==
  /\ status[p] = "live" /\ pc[p] = "idle"
  /\ calls < MaxCalls
  /\ calls' = calls + 1
  /\ batch' = [batch EXCEPT ![p] = <<[seq |-> 0, call |-> calls']>>]
  /\ Goto(p, "saveTemporary")
  /\ UNCHANGED <<fileVars, lock, checkpointVars, status, attempts, kept, crashes, acked,
                     renames, saved>>

\* The temporary file is written and synced.
SaveTemporary(p) ==
  /\ pc[p] = "saveTemporary"
  /\ Goto(p, "rename")
  /\ UNCHANGED <<fileVars, lock, checkpointVars, callVars, history>>

Rename(p) ==
  /\ pc[p] = "rename"
  /\ checkpoint' = batch[p][1].call
  /\ renames' = Append(renames, checkpoint')
  /\ Goto(p, "syncDirectory")
  /\ UNCHANGED <<fileVars, lock, ckDisk, callVars, calls, crashes, acked, saved>>

SyncDirectory(p) ==
  /\ pc[p] = "syncDirectory"
  /\ ckDisk' = checkpoint
  /\ saved' = saved \cup {batch[p][1].call}
  /\ Return(p)
  /\ UNCHANGED <<fileVars, lock, checkpoint, calls, crashes, acked, renames>>

-----------------------------------------------------------------------------
(* Failure *)

\* Processes die; their calls go with them.
Die(ps) ==
  /\ crashes < MaxCrashes
  /\ crashes' = crashes + 1
  /\ status' = [p \in Process |-> IF p \in ps THEN "dead" ELSE status[p]]
  /\ pc' = [p \in Process |-> IF p \in ps THEN "idle" ELSE pc[p]]
  /\ attempts' = [p \in Process |-> IF p \in ps THEN 0 ELSE attempts[p]]
  /\ batch' = [p \in Process |-> IF p \in ps THEN <<>> ELSE batch[p]]
  /\ kept' = [p \in Process |-> IF p \in ps THEN 0 ELSE kept[p]]
  /\ UNCHANGED <<calls, acked, renames, saved>>

\* A process is killed, in the middle of its write perhaps.
Kill(p) ==
  /\ status[p] = "live"
  /\ Die({p})
  /\ file' \in IF pc[p] = "write" THEN TornPuts(file, batch[p]) ELSE {file}
  /\ UNCHANGED <<disk, lock, checkpointVars>>

\* The machine loses power: what was not synced may be lost, in part.
PowerLoss ==
  LET unsynced == SubSeq(file.lines, Len(disk.lines) + 1, Len(file.lines))
  IN  /\ Die({p \in Process : status[p] = "live"})
      /\ file' \in {file} \cup TornPuts(disk, unsynced)
      /\ disk' = file'
      /\ lock' \in {lock, NoLock}
      /\ checkpoint' \in {checkpoint, ckDisk}
      /\ ckDisk' = checkpoint'

-----------------------------------------------------------------------------
\* What a live process does in a call on its own.
Proceed(p) ==
  \/ OpenLock(p) \/ TimeOut(p) \/ Inspect(p) \/ Steal(p) \/ Stamp(p)
  \/ Read(p) \/ Truncate(p) \/ Write(p) \/ Sync(p) \/ Release(p) \/ Unlink(p)
  \/ SaveTemporary(p) \/ Rename(p) \/ SyncDirectory(p)

Next ==
  \/ \E p \in Process :
       Start(p) \/ BeginAppend(p) \/ BeginSave(p) \/ Proceed(p) \/ Kill(p)
  \/ Expire
  \/ PowerLoss

Spec == Init /\ [][Next]_vars

\* Every await is on a file-system call that returns, or on a timer.
FairSpec == Spec /\ \A p \in Process : WF_vars(Proceed(p))

-----------------------------------------------------------------------------
(* Properties *)

Event == [seq : Nat, call : 1..MaxCalls]

Point ==
  { "idle", "open", "inspect", "steal", "stamp", "read", "truncate", "write",
    "sync", "release", "releaseAcked", "unlink", "unlinkAcked",
    "saveTemporary", "rename", "syncDirectory" }

TypeOK ==
  /\ \A f \in {file, disk} :
       f.ended \in BOOLEAN /\ Range(f.lines) \subseteq Event \cup {Garbage}
  /\ lock \in {NoLock} \cup [by : Process, written : BOOLEAN, expired : BOOLEAN]
  /\ {checkpoint, ckDisk} \subseteq 1..MaxCalls \cup {NoCheckpoint}
  /\ status \in [Process -> {"new", "live", "dead"}]
  /\ pc \in [Process -> Point]
  /\ attempts \in [Process -> 0..MaxAttempts]
  /\ \A p \in Process : Range(batch[p]) \subseteq Event
  /\ calls \in 0..MaxCalls /\ crashes \in 0..MaxCrashes
  /\ acked \subseteq Event
  /\ \A p \in Process : kept[p] \in Nat
  /\ saved \subseteq Range(renames) /\ Range(renames) \subseteq 1..MaxCalls

\* Between taking the lock and giving it back.
Holding(p) == pc[p] \in {"stamp", "read", "truncate", "write", "sync"}

\* Two appends are never in the log at once: the truncation of a torn tail "is
\* performed under the lock and cannot race with another writer"
\* (file-fact-store.ts:259-263).
LockExclusive == \A p, q \in Process : Holding(p) /\ Holding(q) => p = q

\* An event whose append returned is read back at its seq, whatever was killed
\* or lost since: "a committed record survives a crash" (file-fact-store.ts:32).
AckedReadable ==
  /\ acked # {} => ~Corrupt(file)
  /\ \A e \in acked : e.seq <= Len(Events(file)) /\ Events(file)[e.seq] = e

\* To its callers the file is a log that only grows, but for appends that never
\* returned.  The refinement fails if a seq is given twice, if an append is
\* acknowledged before its events are safe, or if a torn tail swallows one.
Port == INSTANCE FactPort WITH
  readable <- [i \in 1..Len(Events(file)) |-> Events(file)[i].call],
  acked    <- acked

ImplementsFactPort == Port!Spec

\* A checkpoint whose save returned is not lost: what a reader finds, after any
\* crash, is it or one that replaced it later (file-fact-store.ts:332-347).
CheckpointKept ==
  \A c \in saved : \E i, j \in 1..Len(renames) :
    i <= j /\ renames[i] = c /\ renames[j] = checkpoint

\* What a store's writers rely on.
WritesGuarded == LockExclusive /\ CheckpointKept

\* A call of a process that lives returns or throws: no lock left behind by a
\* crash, not even one without an owner, holds an append for ever.
CallReturns == \A p \in Process : []<>(pc[p] = "idle")
=============================================================================
