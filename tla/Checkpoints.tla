------------------------------ MODULE Checkpoints ------------------------------
(***************************************************************************)
(* CheckpointStore (agent-runtime/src/checkpoints.ts): the file-level undo *)
(* history of a session, one numbered directory for each capture, and the  *)
(* agent that captures the files a call is about to write and restores the *)
(* newest capture on /undo.                                                *)
(*                                                                         *)
(* Each file operation is a step, and the process may die between two of   *)
(* them; the files of the workspace may change at any time.  The content   *)
(* of a file is a number, 0 when it is missing.                            *)
(***************************************************************************)
EXTENDS Integers, Sequences, SequencesExt, FiniteSetsExt

CONSTANTS
  WorkFile,          \* the files the tools write
  MaxCheckpoints,    \* maxCheckpoints
  MaxCaptures,       \* bound: captures in all
  MaxEdits,          \* bound: changes of files, and so contents
  MaxCaptureFaults   \* bound: operations that fail, deaths

ASSUME CheckpointAssumption == MaxCheckpoints \in Nat \ {0}

VARIABLES
  workFiles,     \* [WorkFile -> content]
  cpDirs,        \* the directories: [sequence -> [manifest, entries]], entries
                 \* the content saved of each captured file, 0 for "did not exist"
  cpJob,         \* what runs: [pc, seq, todo], the entries still to do
  cpCaptures, cpEdits, cpFaults,
  cpHistory,     \* history: what each capture not undone should restore
  cpUnread,      \* history: a file that exists could not be copied
  cpInterrupted, \* history: a capture or a removal did not come to its end
  cpCut          \* history: a removal was cut after copies, before the manifest

cpBounds == <<cpCaptures, cpEdits, cpFaults>>
cpFlags == <<cpUnread, cpInterrupted, cpCut>>
cpVars == <<workFiles, cpDirs, cpJob, cpBounds, cpHistory, cpFlags>>

Job(pc, seq, todo) == [pc |-> pc, seq |-> seq, todo |-> todo]
NoJob == Job("idle", 0, {})

CheckpointInit ==
  /\ workFiles = [f \in WorkFile |-> 0]
  /\ cpDirs = <<>>
  /\ cpJob = NoJob
  /\ cpCaptures = 0 /\ cpEdits = 0 /\ cpFaults = 0
  /\ cpHistory = <<>>
  /\ cpUnread = FALSE /\ cpInterrupted = FALSE /\ cpCut = FALSE

-----------------------------------------------------------------------------
Captures == DOMAIN cpDirs
LatestSeq == Max({0} \cup Captures)

\* Mutant: the newest directory is taken again.
ReuseSeq == Max({1} \cup Captures)

NextSeq == LatestSeq + 1

WithoutDirs(dirs) == [s \in Captures \ dirs |-> cpDirs[s]]

\* An edit, a command or somebody else changes a file.
EditFile(f) ==
  /\ cpEdits < MaxEdits
  /\ cpEdits' = cpEdits + 1
  /\ \E content \in {0, cpEdits'} : workFiles' = [workFiles EXCEPT ![f] = content]
  /\ UNCHANGED <<cpDirs, cpJob, cpCaptures, cpFaults, cpHistory, cpFlags>>

\* captureForCheckpoint of a call that is about to write `files`.
StartCapture(files) ==
  /\ cpJob = NoJob /\ cpCaptures < MaxCaptures
  /\ cpCaptures' = cpCaptures + 1
  /\ cpJob' = Job("copy", NextSeq, files)
  /\ cpDirs' = [s \in Captures \cup {NextSeq} |-> 
                  IF s \in Captures THEN cpDirs[s] ELSE [manifest |-> FALSE, entries |-> <<>>]]
  /\ cpHistory' = Append(cpHistory, <<>>)
  /\ UNCHANGED <<workFiles, cpEdits, cpFaults, cpFlags>>

\* A capture's entries, with the content of one more file.
AlsoSaved(entries, f, content) ==
  [g \in DOMAIN entries \cup {f} |-> IF g = f THEN content ELSE entries[g]]

\* A copy that fails is recorded as a file that did not exist.
CopyEntry(f) ==
  /\ cpJob.pc = "copy" /\ f \in cpJob.todo
  /\ cpJob' = [cpJob EXCEPT !.todo = @ \ {f}]
  /\ \E failed \in BOOLEAN :
       /\ failed => cpFaults < MaxCaptureFaults /\ workFiles[f] # 0
       /\ cpFaults' = cpFaults + (IF failed THEN 1 ELSE 0)
       /\ cpUnread' = (cpUnread \/ failed)
       /\ cpDirs' = [cpDirs EXCEPT ![cpJob.seq].entries =
            AlsoSaved(@, f, IF failed THEN 0 ELSE workFiles[f])]
  /\ cpHistory' = [cpHistory EXCEPT ![Len(cpHistory)] = AlsoSaved(@, f, workFiles[f])]
  /\ UNCHANGED <<workFiles, cpCaptures, cpEdits, cpInterrupted, cpCut>>

WriteManifest ==
  /\ cpJob.pc = "copy" /\ cpJob.todo = {}
  /\ cpDirs' = [cpDirs EXCEPT ![cpJob.seq].manifest = TRUE]
  /\ cpJob' = Job("evict", 0, {})
  /\ UNCHANGED <<workFiles, cpBounds, cpHistory, cpFlags>>

LastOnes(list, n) == SubSeq(list, Max({1, Len(list) - n + 1}), Len(list))

\* evict(): the oldest directories go, unfinished ones count like the others.
Evict ==
  LET overflow == Cardinality(Captures) - MaxCheckpoints
      oldest == {s \in Captures : Cardinality({t \in Captures : t < s}) < overflow}
  IN  /\ cpJob.pc = "evict"
      /\ cpDirs' = WithoutDirs(oldest)
      /\ cpHistory' = LastOnes(cpHistory, MaxCheckpoints)
      /\ cpJob' = NoJob
      /\ UNCHANGED <<workFiles, cpBounds, cpFlags>>

\* restoreLatest: without a manifest there is "nothing to undo".
StartRestore ==
  /\ cpJob = NoJob /\ LatestSeq # 0 /\ cpDirs[LatestSeq].manifest
  /\ cpJob' = Job("restore", LatestSeq, DOMAIN cpDirs[LatestSeq].entries)
  /\ UNCHANGED <<workFiles, cpDirs, cpBounds, cpHistory, cpFlags>>

RestoreEntry(f) ==
  /\ cpJob.pc = "restore" /\ f \in cpJob.todo
  /\ workFiles' = [workFiles EXCEPT ![f] = cpDirs[cpJob.seq].entries[f]]
  /\ cpJob' = [cpJob EXCEPT !.todo = @ \ {f}]
  /\ UNCHANGED <<cpDirs, cpBounds, cpHistory, cpFlags>>

RemoveRestored ==
  /\ cpJob.pc = "restore" /\ cpJob.todo = {}
  /\ cpDirs' = WithoutDirs({cpJob.seq})
  /\ cpHistory' = Front(cpHistory)
  /\ cpJob' = NoJob
  /\ UNCHANGED <<workFiles, cpBounds, cpFlags>>

\* An operation throws, which capture's caller only warns of, or the process
\* dies: the directory stays as it is.  A removal that is cut short has taken
\* the manifest already, or only copies.
Interrupt ==
  /\ cpJob # NoJob /\ cpFaults < MaxCaptureFaults
  /\ cpFaults' = cpFaults + 1
  /\ cpJob' = NoJob
  /\ \/ /\ UNCHANGED <<cpDirs, cpCut>>
        /\ cpInterrupted' = (cpInterrupted \/ cpJob.pc = "copy")
        /\ cpHistory' = IF cpJob.pc = "copy" THEN Front(cpHistory) ELSE cpHistory
     \/ /\ cpJob.pc = "restore" /\ cpJob.todo = {}
        /\ cpInterrupted' = TRUE
        /\ \/ /\ cpDirs' = [cpDirs EXCEPT ![cpJob.seq].manifest = FALSE]
              /\ cpHistory' = Front(cpHistory)
              /\ UNCHANGED cpCut
           \/ /\ cpCut' = TRUE
              /\ UNCHANGED <<cpDirs, cpHistory>>
  /\ UNCHANGED <<workFiles, cpCaptures, cpEdits, cpUnread>>

CheckpointNext ==
  \/ \E f \in WorkFile : EditFile(f) \/ CopyEntry(f) \/ RestoreEntry(f)
  \/ \E files \in SUBSET WorkFile \ {{}} : StartCapture(files)
  \/ WriteManifest \/ Evict \/ StartRestore \/ RemoveRestored \/ Interrupt

CheckpointSpec == CheckpointInit /\ [][CheckpointNext]_cpVars

-----------------------------------------------------------------------------
(* Properties *)

\* The checkpoints that can be restored, and how many of them are newer than one.
Finished == {s \in Captures : cpDirs[s].manifest}
Newer(s) == Cardinality({t \in Finished : t > s})

\* Undo goes back capture by capture: whatever was captured, undone, evicted or
\* interrupted before, the checkpoints that can be restored are the latest
\* captures not undone yet, in their order, each with what its files held when
\* it was made; and unless a capture or a removal was cut short none is missing
\* but the evicted ones, and restoreLatest finds the newest.  A copy that failed
\* is left out: undo deletes that file (checkpoints.ts:77, 138).
UndoInOrder ==
  cpJob = NoJob /\ ~cpUnread /\ ~cpCut =>
    /\ \A s \in Finished :
         /\ Newer(s) < Len(cpHistory)
         /\ cpDirs[s].entries = cpHistory[Len(cpHistory) - Newer(s)]
    /\ ~cpInterrupted => Finished = Captures /\ Cardinality(Captures) = Len(cpHistory)
=============================================================================
