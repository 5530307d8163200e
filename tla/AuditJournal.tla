----------------------------- MODULE AuditJournal -----------------------------
(***************************************************************************)
(* FileAuditJournal (agent-runtime/src/audit-journal.ts): the HMAC-chained *)
(* audit file of one session, written by the processes that run it.        *)
(*                                                                         *)
(* A process keeps the promise of the chain's state for each file; a       *)
(* record waits for the one before it, so a load or an append that fails   *)
(* rejects every record queued behind it and every later one.  Events are  *)
(* numbered in the order they are emitted and stand for their hashes: a    *)
(* record is [sequence, previous, hash].  One key is used; parseRecord and *)
(* sanitizeEvent are abstracted to whether a line is whole.                *)
(***************************************************************************)
EXTENDS Integers, Sequences, FiniteSets

CONSTANTS
  AuditProc,        \* the processes
  MaxEvents,        \* bound: events emitted in all
  MaxAuditFaults    \* bound: appends that fail and processes that die

VARIABLES
  auditFile,      \* the lines: [record, whole, newline]
  auditChain,     \* each process: the state its promise chain has come to
  auditQueue,     \* each process: the events whose record() has not settled
  auditEvents, auditFaults,
  auditAcked,     \* history: the events whose record() resolved
  auditShared,    \* history: two processes had the chain loaded at once
  auditHalf       \* history: a fault left a whole line without its newline

auditHistory == <<auditAcked, auditShared, auditHalf>>
auditVars == <<auditFile, auditChain, auditQueue, auditEvents, auditFaults, auditHistory>>

\* states has no entry for the path; its promise is rejected; or it holds the
\* sequence and hash of the last record.
Chain(status, sequence, hash) == [status |-> status, sequence |-> sequence, hash |-> hash]
Unloaded == Chain("unloaded", 0, 0)
Rejected == Chain("rejected", 0, 0)
Genesis == 0

AuditInit ==
  /\ auditFile = <<>>
  /\ auditChain = [p \in AuditProc |-> Unloaded]
  /\ auditQueue = [p \in AuditProc |-> <<>>]
  /\ auditEvents = 0 /\ auditFaults = 0
  /\ auditAcked = {} /\ auditShared = FALSE /\ auditHalf = FALSE

-----------------------------------------------------------------------------
\* verifyAuditJournal passes the first n lines.
VerifiedUpTo(n) ==
  \A i \in 1..n :
    /\ auditFile[i].whole
    /\ auditFile[i].record.sequence = i
    /\ auditFile[i].record.previous = IF i = 1 THEN Genesis ELSE auditFile[i - 1].record.hash

VerifiedHashes ==
  {auditFile[i].record.hash : i \in {j \in DOMAIN auditFile : VerifiedUpTo(j)}}

\* record(): the event joins the chain of its process.
Emit(p) ==
  /\ auditEvents < MaxEvents
  /\ auditEvents' = auditEvents + 1
  /\ auditQueue' = [auditQueue EXCEPT ![p] = Append(@, auditEvents')]
  /\ UNCHANGED <<auditFile, auditChain, auditFaults, auditHistory>>

\* loadState: a missing file is an empty chain, one that does not verify throws.
LoadChain(p) ==
  /\ auditQueue[p] # <<>> /\ auditChain[p] = Unloaded
  /\ auditChain' = [auditChain EXCEPT ![p] =
       IF ~VerifiedUpTo(Len(auditFile)) THEN Rejected
       ELSE Chain("loaded", Len(auditFile),
                  IF auditFile = <<>> THEN Genesis ELSE auditFile[Len(auditFile)].record.hash)]
  /\ auditShared' = (auditShared \/ \E q \in AuditProc : auditChain[q].status = "loaded")
  /\ UNCHANGED <<auditFile, auditQueue, auditEvents, auditFaults, auditAcked, auditHalf>>

\* O_APPEND: after a line without a newline the text goes on in that line.
AppendRecord(p, whole, newline) ==
  LET last == Len(auditFile)
      record == [sequence |-> auditChain[p].sequence + 1, previous |-> auditChain[p].hash,
                 hash |-> Head(auditQueue[p])]
  IN  auditFile' =
        IF auditFile = <<>> \/ auditFile[last].newline
        THEN Append(auditFile, [record |-> record, whole |-> whole, newline |-> newline])
        ELSE [auditFile EXCEPT ![last].whole = FALSE, ![last].newline = newline]

Recordable(p) == auditQueue[p] # <<>> /\ auditChain[p].status = "loaded"

\* The line is appended and synced.
RecordEvent(p) ==
  LET event == Head(auditQueue[p])
  IN  /\ Recordable(p)
      /\ AppendRecord(p, TRUE, TRUE)
      /\ auditChain' = [auditChain EXCEPT ![p] = Chain("loaded", @.sequence + 1, event)]
      /\ auditQueue' = [auditQueue EXCEPT ![p] = Tail(@)]
      /\ auditAcked' = auditAcked \cup {event}
      /\ UNCHANGED <<auditEvents, auditFaults, auditShared, auditHalf>>

\* What an append that is interrupted leaves: nothing, a part, a line without
\* its newline, or the whole line.
Interrupted(p) ==
  \/ UNCHANGED <<auditFile, auditHalf>>
  \/ \E whole, newline \in BOOLEAN :
       /\ newline => whole
       /\ AppendRecord(p, whole, newline)
       /\ auditHalf' = (auditHalf \/ (whole /\ ~newline))

Fault == auditFaults < MaxAuditFaults /\ auditFaults' = auditFaults + 1

\* Mutant: the chain goes on from the record before the one that failed.
FailAndGoOn(p) ==
  /\ Recordable(p) /\ Fault
  /\ Interrupted(p)
  /\ auditQueue' = [auditQueue EXCEPT ![p] = Tail(@)]
  /\ UNCHANGED <<auditChain, auditEvents, auditAcked, auditShared>>

\* write, sync or close throws.
FailRecord(p) ==
  /\ Recordable(p) /\ Fault
  /\ Interrupted(p)
  /\ auditChain' = [auditChain EXCEPT ![p] = Rejected]
  /\ auditQueue' = [auditQueue EXCEPT ![p] = Tail(@)]
  /\ UNCHANGED <<auditEvents, auditAcked, auditShared>>

RejectRecord(p) ==
  /\ auditQueue[p] # <<>> /\ auditChain[p] = Rejected
  /\ auditQueue' = [auditQueue EXCEPT ![p] = Tail(@)]
  /\ UNCHANGED <<auditFile, auditChain, auditEvents, auditFaults, auditHistory>>

\* The process ends, perhaps in the middle of an append; another may take over.
EndProcess(p) ==
  /\ auditChain[p] # Unloaded /\ Fault
  /\ IF Recordable(p) THEN Interrupted(p) ELSE UNCHANGED <<auditFile, auditHalf>>
  /\ auditChain' = [auditChain EXCEPT ![p] = Unloaded]
  /\ auditQueue' = [auditQueue EXCEPT ![p] = <<>>]
  /\ UNCHANGED <<auditEvents, auditAcked, auditShared>>

AuditNext ==
  \E p \in AuditProc :
    Emit(p) \/ LoadChain(p) \/ RecordEvent(p) \/ FailRecord(p) \/ RejectRecord(p) \/ EndProcess(p)

AuditSpec == AuditInit /\ [][AuditNext]_auditVars

-----------------------------------------------------------------------------
(* Properties *)

\* Unless two processes wrote the file at once or a fault took only a newline,
\* every event whose record() resolved is in the part of the file that
\* verifies, whatever appends failed and whatever processes ended before: no
\* event is acknowledged behind a line that breaks the chain.
AckedVerifies == ~auditShared /\ ~auditHalf => auditAcked \subseteq VerifiedHashes
=============================================================================
