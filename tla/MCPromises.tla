------------------------------ MODULE MCPromises ------------------------------
(***************************************************************************)
(* Five promises that comments of the code make and the code does not      *)
(* keep: three of files of lines that survive a crash, one of edits that   *)
(* do not race, one of containers that do not outlive the program.  Each   *)
(* part moves on its own until its promise is broken, and then the next    *)
(* one does, so that one counterexample breaks them all.                   *)
(***************************************************************************)
EXTENDS SessionStore, ActionRuntime, AgentConfig, Sandbox

\* The constants and the variables of FactStore, whose names are short.
CONSTANTS FactProcess, NoFactLock, Garbage, NoCheckpoint
VARIABLES fsFile, fsDisk, fsLock, fsCheckpoint, fsCkDisk, fsStatus, fsPc, fsAttempts, fsBatch,
          fsKept, fsCalls, fsCrashes, fsAcked, fsRenames, fsSaved

Facts == INSTANCE FactStore WITH
  Process <- FactProcess, NoLock <- NoFactLock, BatchSizes <- {1},
  LoseNewline <- TRUE, SoloRecovery <- TRUE, MaxAttempts <- 1, MaxCalls <- 2, MaxCrashes <- 1,
  file <- fsFile, disk <- fsDisk, lock <- fsLock, checkpoint <- fsCheckpoint, ckDisk <- fsCkDisk,
  status <- fsStatus, pc <- fsPc, attempts <- fsAttempts, batch <- fsBatch, kept <- fsKept,
  calls <- fsCalls, crashes <- fsCrashes, acked <- fsAcked, renames <- fsRenames, saved <- fsSaved
FactVars == <<fsFile, fsDisk, fsLock, fsCheckpoint, fsCkDisk, fsStatus, fsPc, fsAttempts, fsBatch,
              fsKept, fsCalls, fsCrashes, fsAcked, fsRenames, fsSaved>>

-----------------------------------------------------------------------------
(* One task that reads a few files, and two edits of the user's file.     *)
MCActionConfig ==
  [maxRisk |-> 3, maxFiles |-> 2, maxLines |-> 2, allowNetwork |-> FALSE, allowSecrets |-> FALSE,
   autoCommands |-> FALSE, autoWrites |-> FALSE, trusted |-> TRUE]
MCTool == [read |-> [id |-> "read", classes |-> {"read"}, observed |-> NoEffect, lines |-> 0]]
MCRead(id) ==
  [id |-> id, tool |-> "read", claims |-> NoEffect, path |-> "f", shell |-> "none",
   guarded |-> FALSE, prefix |-> "none", verifies |-> FALSE]
MCActionLists == [t1 |-> {<<MCRead("a1"), MCRead("a2")>>}]
MCCfgEdit(field) == [kind |-> "edit", field |-> field, value |-> "y"]
MCCfgCase ==
  {[task |-> [a |-> MCCfgEdit("skin"), b |-> MCCfgEdit("mascot")],
    user |-> <<>>, project |-> <<>>, local |-> <<>>, overrides |-> <<>>,
    trusted |-> TRUE, inside |-> TRUE, env |-> <<>>, keys |-> {}]}
MCSbAsked == [task |-> SbCommand]

-----------------------------------------------------------------------------
\* The file store of events "appends and fsyncs before returning, so a committed
\* record survives a crash" (file-fact-store.ts:32).
FactsSurvive == Facts!AckedReadable

\* At least one of the promises stands, those of file-fact-store.ts:32,
\* session-store.ts:411, receipt-journal.ts:19-25, config.ts:2072-2080 and
\* executors.ts:233-234.  TLC stops at the first violation of an invariant: where
\* this one is violated, all five are.
SomePromiseStands ==
  FactsSurvive \/ CommittedSurvives \/ ReceiptsSurviveACrash \/ EditsNeverRace
  \/ NoBoxOutlivesTheProgram

PromisesInit == Facts!Init /\ SessionInit /\ ActionInit /\ CfgInit /\ SbInit

\* A part moves once the promises of those before it are broken.
PromisesNext ==
  \/ /\ FactsSurvive /\ Facts!Next
     /\ UNCHANGED <<sessVars, actionVars, cfgVars, sbVars>>
  \/ /\ ~FactsSurvive /\ CommittedSurvives /\ SessionNext
     /\ UNCHANGED <<FactVars, actionVars, cfgVars, sbVars>>
  \/ /\ ~FactsSurvive /\ ~CommittedSurvives /\ ReceiptsSurviveACrash /\ ActionNext
     /\ UNCHANGED <<FactVars, sessVars, cfgVars, sbVars>>
  \/ /\ ~FactsSurvive /\ ~CommittedSurvives /\ ~ReceiptsSurviveACrash /\ EditsNeverRace /\ CfgNext
     /\ UNCHANGED <<FactVars, sessVars, actionVars, sbVars>>
  \/ /\ ~FactsSurvive /\ ~CommittedSurvives /\ ~ReceiptsSurviveACrash /\ ~EditsNeverRace /\ SbNext
     /\ UNCHANGED <<FactVars, sessVars, actionVars, cfgVars>>
=============================================================================
