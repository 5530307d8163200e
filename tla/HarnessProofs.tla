---- MODULE HarnessProofs ----
\* Theorems about the harness around the agent, for every value of the constants:
\* the containers of the sandbox, the audit journal, the credential store, the
\* runtime that carries out an agent's actions, the servers agents are behind and
\* the stream of an agent's events.
EXTENDS Sandbox, AuditJournal, Credentials, ActionRuntime, AgentServers, EventStream,
        SequenceTheorems, FiniteSetTheorems, TLAPS

-----------------------------------------------------------------------------
(* The sandbox's containers *)

SbProcess == Companions \cup {"leader"}
SbRuns ==
  [pc : {"idle", "ensure", "run", "sweep", "done", "failed"}, live : SUBSET SbProcess,
   stubborn : SUBSET SbProcess, cut : BOOLEAN]
SbStatus == {"none", "up", "down"}

SbTypeOK ==
  /\ sbProgram \in {"up", "dead"}
  /\ sbRun \in [SbCommand -> SbRuns]
  /\ sbInner \in [SbCommand -> SbStatus]
  /\ sbBox \in [SbCommand -> SbStatus]
  /\ sbTask \in SbCommand \cup {NoBox}
  /\ sbWatched \subseteq SbCommand
  /\ sbDisposing \subseteq SbCommand

\* Only a sandbox with a container for the whole task makes one.
BoxesOfTasks ==
  sbMode # "task" =>
    /\ sbTask = NoBox
    /\ \A b \in SbCommand : sbBox[b] = "none" /\ sbRun[b].pc \notin {"ensure", "failed"}

\* Nothing is made, and nothing registered, for a command that has not begun.
NotBegun ==
  \A c \in SbCommand :
    /\ sbRun[c].pc = "idle" => sbBox[c] = "none" /\ sbInner[c] # "up"
    /\ sbRun[c].pc \in {"idle", "ensure"} => c \notin sbWatched

\* A command with a container of its own is watched as long as anything may run
\* in that container, and its client leaves it running only when it was cut short.
OwnContainer ==
  sbMode = "once" =>
    \A c \in SbCommand :
      /\ sbRun[c].pc \in {"run", "sweep"} => c \in sbWatched
      /\ sbInner[c] = "up" =>
           sbRun[c].pc = "sweep" \/ (sbRun[c].pc = "run" /\ (sbRun[c].cut \/ "leader" \in sbRun[c].live))

SbInv == SbTypeOK /\ BoxesOfTasks /\ NotBegun /\ OwnContainer /\ ContainersWatched

\* The invariant holds before the first command.
LEMMA SbInitInv == SbInit => SbInv
BY DEF SbInit, SbInv, SbTypeOK, SbRuns, SbStatus, BoxesOfTasks, NotBegun, OwnContainer,
       ContainersWatched

\* A command that starts has its leader, and leaves the others alone.
LEMMA StartMoves ==
  ASSUME SbTypeOK, NEW c \in SbCommand, StartProcess(c)
  PROVE  /\ sbRun' \in [SbCommand -> SbRuns]
         /\ sbRun'[c].pc = "run" /\ "leader" \in sbRun'[c].live
         /\ \A d \in SbCommand \ {c} : sbRun'[d] = sbRun[d]
BY DEF SbTypeOK, StartProcess, SbRuns, SbProcess

\* A command that becomes what a step makes of it leaves the others alone.
LEMMA StepMoves ==
  ASSUME SbTypeOK, NEW c \in SbCommand, NEW run \in SbRuns, sbRun' = [sbRun EXCEPT ![c] = run]
  PROVE  /\ sbRun' \in [SbCommand -> SbRuns]
         /\ sbRun'[c] = run
         /\ \A d \in SbCommand \ {c} : sbRun'[d] = sbRun[d]
BY DEF SbTypeOK

\* A command that only moves on to another point of its course.
LEMMA PcMoves ==
  ASSUME SbTypeOK, NEW c \in SbCommand, NEW pc \in {"ensure", "sweep", "done", "failed"},
         sbRun' = [sbRun EXCEPT ![c].pc = pc]
  PROVE  /\ sbRun' \in [SbCommand -> SbRuns]
         /\ sbRun'[c].pc = pc
         /\ \A d \in SbCommand \ {c} : sbRun'[d] = sbRun[d]
BY DEF SbTypeOK, SbRuns

\* A command that only loses processes.
LEMMA LiveMoves ==
  ASSUME SbTypeOK, NEW c \in SbCommand, NEW live \in SUBSET SbProcess,
         sbRun' = [sbRun EXCEPT ![c].live = live]
  PROVE  /\ sbRun' \in [SbCommand -> SbRuns]
         /\ sbRun'[c].pc = sbRun[c].pc /\ sbRun'[c].cut = sbRun[c].cut /\ sbRun'[c].live = live
         /\ \A d \in SbCommand \ {c} : sbRun'[d] = sbRun[d]
BY DEF SbTypeOK, SbRuns

\* A container that is removed is not running, and no other one comes to run.
LEMMA RemovedStops ==
  ASSUME SbTypeOK, NEW boxes \in SUBSET SbCommand, Removed(boxes)
  PROVE  /\ sbBox' \in [SbCommand -> SbStatus] /\ sbInner' \in [SbCommand -> SbStatus]
         /\ \A b \in SbCommand : sbBox'[b] = "up" => sbBox[b] = "up" /\ b \notin boxes
         /\ \A b \in SbCommand : sbBox[b] = "none" => sbBox'[b] = "none"
         /\ \A c \in SbCommand : sbInner'[c] = "up" => sbInner[c] = "up"
         /\ sbMode = "once" => \A c \in boxes : sbInner'[c] # "up"
BY DEF SbTypeOK, Removed, SbStatus

\* Every step of the sandbox, its containers and the dispose that may run
\* meanwhile, keeps the invariant.
THEOREM SandboxInvariance == SbSpec => []SbInv
<1>1. ASSUME SbInv, [SbNext]_sbVars PROVE SbInv'
  <2> USE <1>1 DEF SbInv
  <2>1. ASSUME NEW c \in SbCommand, Execute(c) PROVE SbInv'
    <3>0. sbRun[c].pc = "idle" /\ sbProgram = "up" /\ UNCHANGED <<sbMode, sbProgram, sbInner, sbBox, sbTask, sbDisposing>>
      BY <2>1 DEF Execute
    <3>1. CASE /\ StartProcess(c)
               /\ sbWatched' = IF sbMode = "once" THEN sbWatched \cup {c} ELSE sbWatched
      BY <3>0, <3>1, StartMoves
         DEF SbTypeOK, BoxesOfTasks, NotBegun, OwnContainer, ContainersWatched
    <3>2. CASE /\ sbMode = "task" /\ sbRun' = [sbRun EXCEPT ![c].pc = "ensure"]
               /\ UNCHANGED sbWatched
      BY <3>0, <3>2, PcMoves
         DEF SbTypeOK, BoxesOfTasks, NotBegun, OwnContainer, ContainersWatched
    <3>3. CASE /\ sbRun' = [sbRun EXCEPT ![c].pc = "done"]
               /\ sbWatched' = IF sbMode = "once" THEN sbWatched \cup {c} ELSE sbWatched
      <4>1. /\ sbRun' \in [SbCommand -> SbRuns] /\ sbRun'[c].pc = "done"
            /\ \A d \in SbCommand \ {c} : sbRun'[d] = sbRun[d]
        BY <3>3, PcMoves
      <4> QED
        BY <3>0, <3>3, <4>1
           DEF SbTypeOK, BoxesOfTasks, NotBegun, OwnContainer, ContainersWatched
    <3> QED
      BY <2>1, <3>1, <3>2, <3>3 DEF Execute
  <2>2. ASSUME NEW c \in SbCommand, KillTimer(c) PROVE SbInv'
    <3>1. sbRun' = [sbRun EXCEPT ![c].live = sbRun[c].live \ Reached(sbRun[c].live)]
      BY <2>2 DEF KillTimer, SbTypeOK
    <3>2. sbRun[c].live \ Reached(sbRun[c].live) \in SUBSET SbProcess
      BY DEF SbTypeOK, SbRuns
    <3>3. /\ sbRun' \in [SbCommand -> SbRuns]
          /\ sbRun'[c].pc = sbRun[c].pc /\ sbRun'[c].cut = sbRun[c].cut
          /\ \A d \in SbCommand \ {c} : sbRun'[d] = sbRun[d]
      BY <3>1, <3>2, LiveMoves
    <3> QED
      BY <2>2, <3>3
         DEF KillTimer, SbTypeOK, BoxesOfTasks, NotBegun, OwnContainer, ContainersWatched
  <2>3. ASSUME NEW c \in SbCommand, Close(c) PROVE SbInv'
    <3>0. /\ sbRun[c].pc = "run" /\ "leader" \notin sbRun[c].live /\ AfterClose(c)
          /\ sbProgram = "up" /\ UNCHANGED <<sbMode, sbProgram, sbInner, sbBox, sbTask, sbDisposing>>
      BY <2>3 DEF Close
    <3>1. CASE Docker /\ sbRun[c].cut
      <4>1. sbRun' = [sbRun EXCEPT ![c].pc = "sweep"] /\ UNCHANGED sbWatched
        BY <3>0, <3>1 DEF AfterClose
      <4>2. /\ sbRun' \in [SbCommand -> SbRuns] /\ sbRun'[c].pc = "sweep"
            /\ \A d \in SbCommand \ {c} : sbRun'[d] = sbRun[d]
        BY <4>1, PcMoves
      <4> QED
        BY <3>0, <4>1, <4>2
           DEF SbTypeOK, BoxesOfTasks, NotBegun, OwnContainer, ContainersWatched
    <3>2. CASE ~(Docker /\ sbRun[c].cut)
      <4>1. /\ sbRun' = [sbRun EXCEPT ![c].pc = "done"]
            /\ sbWatched' = IF sbMode = "once" THEN sbWatched \ {c} ELSE sbWatched
        BY <3>0, <3>2 DEF AfterClose, Done
      <4>2. sbMode = "once" => sbInner[c] # "up"
        BY <3>0, <3>2 DEF OwnContainer, Docker
      <4> QED
        BY <3>0, <4>1, <4>2, PcMoves
           DEF SbTypeOK, BoxesOfTasks, NotBegun, OwnContainer, ContainersWatched
    <3> QED
      BY <3>1, <3>2
  <2>4. ASSUME NEW c \in SbCommand, Sweep(c) PROVE SbInv'
    <3>1. /\ sbRun[c].pc = "sweep" /\ sbProgram = "up"
          /\ sbRun' = [sbRun EXCEPT ![c].pc = "done"]
          /\ sbInner' \in [SbCommand -> SbStatus] /\ sbInner'[c] # "up"
          /\ \A d \in SbCommand \ {c} : sbInner'[d] = sbInner[d]
          /\ UNCHANGED <<sbMode, sbProgram, sbBox, sbTask, sbDisposing>>
          /\ sbWatched' = IF sbMode = "once" THEN sbWatched \ {c} ELSE sbWatched
      BY <2>4 DEF Sweep, Done, SbTypeOK, SbStatus
    <3>2. /\ sbRun' \in [SbCommand -> SbRuns] /\ sbRun'[c].pc = "done"
          /\ \A d \in SbCommand \ {c} : sbRun'[d] = sbRun[d]
      BY <3>1, PcMoves
    <3> QED
      BY <3>1, <3>2
         DEF SbTypeOK, BoxesOfTasks, NotBegun, OwnContainer, ContainersWatched
  <2>5. ASSUME NEW c \in SbCommand, CutShort(c) PROVE SbInv'
    <3> DEFINE run == Terminated(sbRun[c])
    <3>1. run \in SbRuns /\ run.pc = sbRun[c].pc /\ run.cut
      BY DEF Terminated, SbTypeOK, SbRuns, Reached
    <3>2. sbRun' = [sbRun EXCEPT ![c] = run]
      BY <2>5 DEF CutShort, SbTypeOK
    <3> HIDE DEF run
    <3> QED
      BY <2>5, <3>1, <3>2, StepMoves
         DEF CutShort, SbTypeOK, BoxesOfTasks, NotBegun, OwnContainer, ContainersWatched
  <2>6. ASSUME NEW c \in SbCommand, EnsureReturns(c) PROVE SbInv'
    <3>0. /\ sbRun[c].pc = "ensure" /\ sbProgram = "up" /\ sbMode = "task"
          /\ UNCHANGED <<sbMode, sbProgram, sbInner, sbBox, sbDisposing>>
      BY <2>6 DEF EnsureReturns, BoxesOfTasks
    <3>1. CASE Ensured(c) /\ StartProcess(c)
      BY <3>0, <3>1, StartMoves
         DEF Ensured, SbTypeOK, BoxesOfTasks, NotBegun, OwnContainer, ContainersWatched
    <3>2. CASE sbRun' = [sbRun EXCEPT ![c].pc = "failed"] /\ UNCHANGED <<sbTask, sbWatched>>
      BY <3>0, <3>2, PcMoves
         DEF SbTypeOK, BoxesOfTasks, NotBegun, OwnContainer, ContainersWatched
    <3> QED
      BY <2>6, <3>1, <3>2 DEF EnsureReturns
  <2>7. ASSUME NEW c \in SbCommand, BoxStarts(c) PROVE SbInv'
    <3>1. /\ sbRun[c].pc = "ensure" /\ sbMode = "task"
          /\ sbBox' \in [SbCommand -> SbStatus]
          /\ \A d \in SbCommand \ {c} : sbBox'[d] = sbBox[d]
          /\ UNCHANGED <<sbMode, sbProgram, sbRun, sbInner, sbTask, sbWatched, sbDisposing>>
      BY <2>7 DEF BoxStarts, BoxesOfTasks, SbTypeOK, SbStatus
    <3> QED
      BY <3>1 DEF SbTypeOK, BoxesOfTasks, NotBegun, OwnContainer, ContainersWatched
  <2>8. ASSUME NEW c \in SbCommand, InnerStarts(c) PROVE SbInv'
    <3>1. /\ sbRun[c].pc = "run" /\ "leader" \in sbRun[c].live /\ sbProgram = "up"
          /\ sbInner' \in [SbCommand -> SbStatus]
          /\ \A d \in SbCommand \ {c} : sbInner'[d] = sbInner[d]
          /\ UNCHANGED <<sbMode, sbProgram, sbRun, sbBox, sbTask, sbWatched, sbDisposing>>
      BY <2>8 DEF InnerStarts, SbTypeOK, SbStatus
    <3> QED
      BY <3>1 DEF SbTypeOK, BoxesOfTasks, NotBegun, OwnContainer, ContainersWatched
  <2>9. ASSUME NEW c \in SbCommand, InnerEnds(c) PROVE SbInv'
    <3>1. /\ sbInner' \in [SbCommand -> SbStatus] /\ sbInner'[c] # "up"
          /\ \A d \in SbCommand \ {c} : sbInner'[d] = sbInner[d]
          /\ UNCHANGED <<sbMode, sbProgram, sbRun, sbBox, sbTask, sbWatched, sbDisposing>>
      BY <2>9 DEF InnerEnds, SbTypeOK, SbStatus
    <3> QED
      BY <3>1 DEF SbTypeOK, BoxesOfTasks, NotBegun, OwnContainer, ContainersWatched
  <2>10. ASSUME NEW c \in SbCommand, DisposeReturns(c) PROVE SbInv'
    <3>1. /\ Removed({c}) /\ sbDisposing' = sbDisposing \ {c} /\ sbProgram = "up"
          /\ UNCHANGED <<sbMode, sbProgram, sbRun, sbTask, sbWatched>>
      BY <2>10 DEF DisposeReturns
    <3> QED
      BY <3>1, RemovedStops
         DEF SbTypeOK, BoxesOfTasks, NotBegun, OwnContainer, ContainersWatched
  <2>11. ASSUME NEW c \in SbCommand, NEW m \in Companions \cup {"leader"}, Exits(c, m)
         PROVE  SbInv'
    <3>1. sbRun' = [sbRun EXCEPT ![c].live = sbRun[c].live \ {m}] /\ (m = "leader" => sbInner[c] # "up")
      BY <2>11 DEF Exits, SbTypeOK
    <3>2. sbRun[c].live \ {m} \in SUBSET SbProcess
      BY DEF SbTypeOK, SbRuns
    <3>3. /\ sbRun' \in [SbCommand -> SbRuns]
          /\ sbRun'[c].pc = sbRun[c].pc /\ sbRun'[c].cut = sbRun[c].cut
          /\ sbRun'[c].live = sbRun[c].live \ {m}
          /\ \A d \in SbCommand \ {c} : sbRun'[d] = sbRun[d]
      BY <3>1, <3>2, LiveMoves
    <3>4. m # "leader" => ("leader" \in sbRun[c].live => "leader" \in sbRun'[c].live)
      BY <3>3
    <3>5. UNCHANGED <<sbMode, sbProgram, sbInner, sbBox, sbTask, sbWatched, sbDisposing>>
      BY <2>11 DEF Exits
    <3>6. SbTypeOK' /\ BoxesOfTasks' /\ NotBegun' /\ ContainersWatched'
      BY <3>3, <3>5 DEF SbTypeOK, BoxesOfTasks, NotBegun, ContainersWatched
    <3>7. OwnContainer'
      BY <3>1, <3>3, <3>4, <3>5 DEF OwnContainer
    <3> QED
      BY <3>6, <3>7
  <2>12. CASE DisposeSandbox
    BY <2>12
       DEF DisposeSandbox, SbTypeOK, BoxesOfTasks, NotBegun, OwnContainer, ContainersWatched
  <2>13. CASE ProgramDies
    <3>1. /\ Removed(sbWatched) /\ sbProgram' = "dead"
          /\ UNCHANGED <<sbMode, sbTask, sbWatched, sbDisposing>>
      BY <2>13 DEF ProgramDies
    <3>2. /\ sbRun' \in [SbCommand -> SbRuns]
          /\ \A c \in SbCommand : sbRun'[c].pc = sbRun[c].pc /\ sbRun'[c].cut = sbRun[c].cut
      <4>1. \A c \in SbCommand : \A live \in SUBSET SbProcess : [sbRun[c] EXCEPT !.live = live] \in SbRuns
        BY DEF SbTypeOK, SbRuns
      <4>2. \A c \in SbCommand : sbRun[c].live \cap sbRun[c].stubborn \in SUBSET SbProcess
        BY DEF SbTypeOK, SbRuns
      <4> QED
        BY <2>13, <4>1, <4>2 DEF ProgramDies, SbTypeOK, SbRuns
    <3>3. SbTypeOK' /\ BoxesOfTasks'
      BY <3>1, <3>2, RemovedStops DEF SbTypeOK, BoxesOfTasks
    <3>4. NotBegun'
      BY <3>1, <3>2, RemovedStops DEF SbTypeOK, NotBegun
    <3>5. sbMode = "once" => \A c \in SbCommand : sbInner'[c] # "up"
      BY <3>1, RemovedStops DEF SbTypeOK, ContainersWatched
    <3>6. OwnContainer'
      BY <3>1, <3>2, <3>5 DEF OwnContainer
    <3>7. ContainersWatched'
      BY <3>1, <3>2, <3>5, RemovedStops DEF SbTypeOK, ContainersWatched
    <3> QED
      BY <3>3, <3>4, <3>6, <3>7
  <2>14. CASE UNCHANGED sbVars
    BY <2>14 DEF sbVars, SbTypeOK, BoxesOfTasks, NotBegun, OwnContainer, ContainersWatched
  <2> QED
    BY <1>1, <2>1, <2>2, <2>3, <2>4, <2>5, <2>6, <2>7, <2>8, <2>9, <2>10, <2>11, <2>12, <2>13,
       <2>14 DEF SbNext, SbProceed
<1> QED
  BY SbInitInv, <1>1, PTL DEF SbSpec

\* A container that runs is going to be removed: by its command, by dispose() or, if
\* the program dies, by the handlers of its death (packages/sandbox executors.ts),
\* whatever commands, time limits, cancellations and failed removals there were.
THEOREM SandboxIsWatched == SbSpec => []ContainersWatched
<1>1. SbInv => ContainersWatched
  BY DEF SbInv
<1> QED
  BY <1>1, SandboxInvariance, PTL

-----------------------------------------------------------------------------
(* The audit journal *)

AuditRecords == [sequence : Nat, previous : Nat, hash : Nat]
AuditLines == [record : AuditRecords, whole : BOOLEAN, newline : BOOLEAN]
AuditChains == [status : {"unloaded", "rejected", "loaded"}, sequence : Nat, hash : Nat]

AuditTypeOK ==
  /\ auditFile \in Seq(AuditLines)
  /\ auditChain \in [AuditProc -> AuditChains]
  /\ auditQueue \in [AuditProc -> Seq(Nat)]
  /\ auditEvents \in Nat
  /\ auditShared \in BOOLEAN /\ auditHalf \in BOOLEAN

AuditLoaded(p) == auditChain[p].status = "loaded"

\* The chain of the one process that has it loaded ends where the file does.
ChainAtEnd ==
  ~auditShared /\ ~auditHalf =>
    \A p \in AuditProc : AuditLoaded(p) =>
      /\ \A q \in AuditProc : AuditLoaded(q) => q = p
      /\ VerifiedUpTo(Len(auditFile))
      /\ auditChain[p].sequence = Len(auditFile)
      /\ auditChain[p].hash = IF auditFile = <<>> THEN Genesis
                              ELSE auditFile[Len(auditFile)].record.hash

\* A line that is whole is ended.
WholeIsEnded ==
  ~auditShared /\ ~auditHalf =>
    \A i \in 1..Len(auditFile) : auditFile[i].whole => auditFile[i].newline

AuditInv == AuditTypeOK /\ ChainAtEnd /\ WholeIsEnded /\ AckedVerifies

\* The invariant holds of the journal a process first opens.
LEMMA AuditInitInv == AuditInit => AuditInv
<1> SUFFICES ASSUME AuditInit PROVE AuditInv
  OBVIOUS
<1>1. AuditTypeOK
  <2>1. <<>> \in Seq(AuditLines) /\ <<>> \in Seq(Nat)
    OBVIOUS
  <2>2. Unloaded \in AuditChains
    BY DEF AuditChains, Unloaded, Chain
  <2> QED
    BY <2>1, <2>2 DEF AuditInit, AuditTypeOK
<1>2. ChainAtEnd
  BY DEF AuditInit, Unloaded, Chain, ChainAtEnd, AuditLoaded
<1>3. WholeIsEnded /\ AckedVerifies
  BY DEF AuditInit, WholeIsEnded, AckedVerifies
<1> QED
  BY <1>1, <1>2, <1>3 DEF AuditInv

\* What verified before a line is added verifies after it.
LEMMA AddedLine ==
  ASSUME AuditTypeOK, NEW line \in AuditLines, auditFile' = Append(auditFile, line)
  PROVE  /\ auditFile' \in Seq(AuditLines) /\ auditFile' # <<>>
         /\ Len(auditFile') = Len(auditFile) + 1
         /\ \A i \in 1..Len(auditFile) : auditFile'[i] = auditFile[i]
         /\ auditFile'[Len(auditFile) + 1] = line
         /\ \A n \in 1..Len(auditFile) : VerifiedUpTo(n) => VerifiedUpTo(n)'
         /\ VerifiedHashes \subseteq VerifiedHashes'
<1>1. /\ auditFile' \in Seq(AuditLines) /\ auditFile' # <<>>
      /\ Len(auditFile') = Len(auditFile) + 1
      /\ \A i \in 1..Len(auditFile) : auditFile'[i] = auditFile[i]
      /\ auditFile'[Len(auditFile) + 1] = line
  BY AppendProperties DEF AuditTypeOK
<1>2. Len(auditFile) \in Nat
  BY DEF AuditTypeOK
<1>3. ASSUME NEW n \in 1..Len(auditFile), VerifiedUpTo(n) PROVE VerifiedUpTo(n)'
  <2>1. \A i \in 1..n : auditFile'[i] = auditFile[i] /\ (i # 1 => auditFile'[i - 1] = auditFile[i - 1])
    BY <1>1, <1>2
  <2> QED
    BY <1>3, <2>1 DEF VerifiedUpTo
<1>4. ASSUME NEW i \in DOMAIN auditFile, VerifiedUpTo(i)
      PROVE  i \in DOMAIN auditFile' /\ VerifiedUpTo(i)' /\ auditFile'[i] = auditFile[i]
  BY <1>1, <1>2, <1>3, <1>4 DEF AuditTypeOK
<1>5. VerifiedHashes \subseteq VerifiedHashes'
  BY <1>4 DEF VerifiedHashes
<1> QED
  BY <1>1, <1>3, <1>5

\* The next record of the chain that ends where the file does is verified, too.
LEMMA NextVerifies ==
  ASSUME AuditTypeOK, NEW line \in AuditLines, auditFile' = Append(auditFile, line),
         VerifiedUpTo(Len(auditFile)), line.whole,
         line.record.sequence = Len(auditFile) + 1,
         line.record.previous = IF auditFile = <<>> THEN Genesis
                                ELSE auditFile[Len(auditFile)].record.hash
  PROVE  VerifiedUpTo(Len(auditFile))' /\ line.record.hash \in VerifiedHashes'
<1> DEFINE n == Len(auditFile)
<1>1. /\ auditFile' \in Seq(AuditLines) /\ Len(auditFile') = n + 1
      /\ \A i \in 1..n : auditFile'[i] = auditFile[i]
      /\ auditFile'[n + 1] = line
  BY AddedLine
<1>2. n \in Nat /\ (auditFile = <<>> <=> n = 0)
  BY DEF AuditTypeOK
<1>3. n + 1 = Len(auditFile')
  BY <1>1
<1>4. ASSUME NEW i \in 1..(n + 1)
      PROVE  /\ auditFile'[i].whole
             /\ auditFile'[i].record.sequence = i
             /\ auditFile'[i].record.previous =
                  IF i = 1 THEN Genesis ELSE auditFile'[i - 1].record.hash
  <2>1. CASE i = n + 1
    <3>1. auditFile'[i] = line /\ (i = 1 <=> auditFile = <<>>) /\ i - 1 = n
      BY <1>1, <1>2, <2>1
    <3>2. i # 1 => auditFile'[i - 1] = auditFile[n]
      BY <1>1, <1>2, <2>1
    <3> QED
      BY <2>1, <3>1, <3>2
  <2>2. CASE i # n + 1
    <3>1. i \in 1..n /\ auditFile'[i] = auditFile[i]
      BY <1>1, <1>2, <2>2
    <3>2. i # 1 => auditFile'[i - 1] = auditFile[i - 1]
      BY <1>1, <1>2, <3>1
    <3> QED
      BY <3>1, <3>2 DEF VerifiedUpTo
  <2> QED
    BY <2>1, <2>2
<1>5. VerifiedUpTo(Len(auditFile))'
  <2>1. \A i \in 1..Len(auditFile') :
             /\ auditFile'[i].whole
             /\ auditFile'[i].record.sequence = i
             /\ auditFile'[i].record.previous =
                  IF i = 1 THEN Genesis ELSE auditFile'[i - 1].record.hash
    BY <1>3, <1>4
  <2> QED
    BY <2>1 DEF VerifiedUpTo
<1>6. Len(auditFile') \in DOMAIN auditFile' /\ auditFile'[Len(auditFile')].record.hash = line.record.hash
  BY <1>1, <1>2
<1> QED
  BY <1>5, <1>6 DEF VerifiedHashes

\* Whatever is appended, the file is one of lines.
LEMMA AppendRecordType ==
  ASSUME AuditTypeOK, NEW p \in AuditProc, NEW whole \in BOOLEAN, NEW newline \in BOOLEAN,
         auditQueue[p] # <<>>, AppendRecord(p, whole, newline)
  PROVE  auditFile' \in Seq(AuditLines)
<1> DEFINE last == Len(auditFile)
           record == [sequence |-> auditChain[p].sequence + 1, previous |-> auditChain[p].hash,
                      hash |-> Head(auditQueue[p])]
           line == [record |-> record, whole |-> whole, newline |-> newline]
<1>1. record \in AuditRecords
  BY HeadTailProperties DEF AuditTypeOK, AuditChains, AuditRecords
<1>2. line \in AuditLines
  BY <1>1 DEF AuditLines
<1>3. CASE auditFile = <<>> \/ auditFile[last].newline
  <2>1. auditFile' = Append(auditFile, line)
    BY <1>3 DEF AppendRecord
  <2> HIDE DEF line
  <2> QED
    BY <1>2, <2>1, AppendProperties DEF AuditTypeOK
<1>4. CASE ~(auditFile = <<>> \/ auditFile[last].newline)
  <2> DEFINE glued == [[auditFile[last] EXCEPT !.whole = FALSE] EXCEPT !.newline = newline]
  <2>1. last \in 1..Len(auditFile) /\ auditFile[last] \in AuditLines
    BY <1>4 DEF AuditTypeOK
  <2>2. glued \in AuditLines
    BY <2>1 DEF AuditLines
  <2>3. auditFile' = [auditFile EXCEPT ![last] = glued]
    BY <1>4, <2>1 DEF AppendRecord, AuditLines
  <2> HIDE DEF glued
  <2> QED
    BY <2>1, <2>2, <2>3 DEF AuditTypeOK
<1> QED
  BY <1>3, <1>4

\* The process whose chain ends where the file does appends a line of its own.
LEMMA AppendedAtEnd ==
  ASSUME AuditInv, ~auditShared, ~auditHalf, NEW p \in AuditProc, Recordable(p),
         NEW whole \in BOOLEAN, NEW newline \in BOOLEAN, AppendRecord(p, whole, newline)
  PROVE  \E record \in AuditRecords :
           /\ record.sequence = Len(auditFile) + 1 /\ record.hash = Head(auditQueue[p])
           /\ record.previous = IF auditFile = <<>> THEN Genesis
                                ELSE auditFile[Len(auditFile)].record.hash
           /\ [record |-> record, whole |-> whole, newline |-> newline] \in AuditLines
           /\ auditFile' = Append(auditFile, [record |-> record, whole |-> whole, newline |-> newline])
<1> DEFINE record == [sequence |-> auditChain[p].sequence + 1, previous |-> auditChain[p].hash,
                      hash |-> Head(auditQueue[p])]
<1>1. record \in AuditRecords
  BY HeadTailProperties DEF AuditInv, AuditTypeOK, AuditChains, AuditRecords, Recordable
<1>2. /\ VerifiedUpTo(Len(auditFile)) /\ auditChain[p].sequence = Len(auditFile)
      /\ auditChain[p].hash = IF auditFile = <<>> THEN Genesis ELSE auditFile[Len(auditFile)].record.hash
  BY DEF AuditInv, ChainAtEnd, AuditLoaded, Recordable
<1>3. auditFile # <<>> => Len(auditFile) \in 1..Len(auditFile)
  BY DEF AuditInv, AuditTypeOK
<1>4. auditFile = <<>> \/ auditFile[Len(auditFile)].newline
  BY <1>2, <1>3 DEF AuditInv, VerifiedUpTo, WholeIsEnded
<1>5. auditFile' = Append(auditFile, [record |-> record, whole |-> whole, newline |-> newline])
  BY <1>4 DEF AppendRecord
<1>6. [record |-> record, whole |-> whole, newline |-> newline] \in AuditLines
  BY <1>1 DEF AuditLines
<1>7. /\ record.sequence = Len(auditFile) + 1 /\ record.hash = Head(auditQueue[p])
      /\ record.previous = auditChain[p].hash
  BY <1>2
<1> HIDE DEF record
<1> QED
  BY <1>1, <1>2, <1>5, <1>6, <1>7

\* An append that is interrupted takes nothing that verified away.
LEMMA InterruptedKeeps ==
  ASSUME AuditInv, NEW p \in AuditProc, Recordable(p), Interrupted(p)
  PROVE  /\ auditFile' \in Seq(AuditLines) /\ auditHalf' \in BOOLEAN /\ (auditHalf => auditHalf')
         /\ ~auditShared /\ ~auditHalf' =>
              /\ VerifiedHashes \subseteq VerifiedHashes'
              /\ \A i \in 1..Len(auditFile') : auditFile'[i].whole => auditFile'[i].newline
<1>1. CASE UNCHANGED <<auditFile, auditHalf>>
  BY <1>1 DEF AuditInv, AuditTypeOK, WholeIsEnded, VerifiedHashes, VerifiedUpTo
<1>2. CASE ~UNCHANGED <<auditFile, auditHalf>>
  <2>1. PICK whole \in BOOLEAN, newline \in BOOLEAN :
          /\ newline => whole
          /\ AppendRecord(p, whole, newline)
          /\ auditHalf' = (auditHalf \/ (whole /\ ~newline))
    BY <1>2 DEF Interrupted
  <2>2. auditFile' \in Seq(AuditLines) /\ auditHalf' \in BOOLEAN /\ (auditHalf => auditHalf')
    BY <2>1, AppendRecordType DEF AuditInv, AuditTypeOK, Recordable
  <2>3. ASSUME ~auditShared, ~auditHalf'
        PROVE  /\ VerifiedHashes \subseteq VerifiedHashes'
               /\ \A i \in 1..Len(auditFile') : auditFile'[i].whole => auditFile'[i].newline
    <3>1. ~auditHalf /\ (whole => newline)
      BY <2>1, <2>3
    <3>2. PICK line \in AuditLines :
            line.whole = whole /\ line.newline = newline /\ auditFile' = Append(auditFile, line)
      <4>1. PICK record \in AuditRecords :
              /\ [record |-> record, whole |-> whole, newline |-> newline] \in AuditLines
              /\ auditFile' = Append(auditFile, [record |-> record, whole |-> whole, newline |-> newline])
        BY <2>1, <2>3, <3>1, AppendedAtEnd
      <4> QED
        BY <4>1
    <3>3. /\ VerifiedHashes \subseteq VerifiedHashes' /\ Len(auditFile') = Len(auditFile) + 1
          /\ \A i \in 1..Len(auditFile) : auditFile'[i] = auditFile[i]
          /\ auditFile'[Len(auditFile) + 1] = line
      BY <3>2, AddedLine DEF AuditInv
    <3>4. \A i \in 1..Len(auditFile') : i \in 1..Len(auditFile) \/ i = Len(auditFile) + 1
      BY <3>3 DEF AuditInv, AuditTypeOK
    <3>5. \A i \in 1..Len(auditFile) : auditFile[i].whole => auditFile[i].newline
      BY <2>3, <3>1 DEF AuditInv, WholeIsEnded
    <3> QED
      BY <3>1, <3>2, <3>3, <3>4, <3>5
  <2> QED
    BY <2>2, <2>3
<1> QED
  BY <1>1, <1>2

\* Every open, append, failed append, end of a process and fault of the file keeps
\* the invariant.
THEOREM AuditInvariance == AuditSpec => []AuditInv
<1>1. ASSUME AuditInv, [AuditNext]_auditVars PROVE AuditInv'
  <2> USE <1>1 DEF AuditInv, auditHistory
  <2>1. ASSUME NEW p \in AuditProc, Emit(p) PROVE AuditInv'
    <3>1. AuditTypeOK'
      <4>1. auditEvents' \in Nat
        BY <2>1 DEF Emit, AuditTypeOK
      <4>2. Append(auditQueue[p], auditEvents') \in Seq(Nat)
        BY <4>1, AppendProperties DEF AuditTypeOK
      <4> QED
        BY <2>1, <4>1, <4>2 DEF Emit, AuditTypeOK
    <3>2. UNCHANGED <<auditFile, auditChain, auditAcked, auditShared, auditHalf>>
      BY <2>1 DEF Emit
    <3> QED
      BY <3>1, <3>2
         DEF ChainAtEnd, AuditLoaded, WholeIsEnded, AckedVerifies, VerifiedHashes, VerifiedUpTo
  <2>2. ASSUME NEW p \in AuditProc, LoadChain(p) PROVE AuditInv'
    <3> DEFINE tail == IF auditFile = <<>> THEN Genesis ELSE auditFile[Len(auditFile)].record.hash
               loaded == Chain("loaded", Len(auditFile), tail)
    <3>0. UNCHANGED <<auditFile, auditQueue, auditEvents, auditFaults, auditAcked, auditHalf>>
      BY <2>2 DEF LoadChain
    <3>1. Rejected \in AuditChains /\ loaded \in AuditChains
      <4>1. tail \in Nat
        <5>1. auditFile # <<>> => auditFile[Len(auditFile)] \in AuditLines
          BY DEF AuditTypeOK
        <5> QED
          BY <5>1 DEF Genesis, AuditLines, AuditRecords
      <4> QED
        BY <4>1 DEF Rejected, Chain, AuditChains, AuditTypeOK
    <3>2. auditChain' = [auditChain EXCEPT ![p] = IF ~VerifiedUpTo(Len(auditFile)) THEN Rejected ELSE loaded]
      BY <2>2 DEF LoadChain
    <3>3. auditShared' = (auditShared \/ \E q \in AuditProc : AuditLoaded(q))
      BY <2>2 DEF LoadChain, AuditLoaded
    <3>4. AuditTypeOK'
      <4>1. auditShared' \in BOOLEAN
        BY <3>3 DEF AuditTypeOK
      <4>2. auditChain' \in [AuditProc -> AuditChains]
        BY <3>1, <3>2 DEF AuditTypeOK
      <4> QED
        BY <3>0, <4>1, <4>2 DEF AuditTypeOK
    <3>5. ChainAtEnd'
      <4>1. SUFFICES ASSUME ~auditShared', ~auditHalf', NEW q \in AuditProc, AuditLoaded(q)'
                     PROVE  /\ \A r \in AuditProc : AuditLoaded(r)' => r = q
                            /\ VerifiedUpTo(Len(auditFile))'
                            /\ auditChain'[q].sequence = Len(auditFile)
                            /\ auditChain'[q].hash = tail
        BY <3>0 DEF ChainAtEnd
      <4>2. \A r \in AuditProc : ~AuditLoaded(r)
        BY <3>3, <4>1
      <4>3. \A r \in AuditProc : AuditLoaded(r)' => r = p
        BY <3>2, <4>2 DEF AuditLoaded, AuditTypeOK
      <4>4. q = p /\ VerifiedUpTo(Len(auditFile)) /\ auditChain'[p] = loaded
        BY <3>2, <4>1, <4>3 DEF AuditLoaded, Rejected, Chain, AuditTypeOK
      <4>5. VerifiedUpTo(Len(auditFile))'
        BY <3>0, <4>4 DEF VerifiedUpTo
      <4> QED
        BY <4>3, <4>4, <4>5 DEF Chain
    <3>6. WholeIsEnded' /\ AckedVerifies'
      <4>1. ~auditShared' => ~auditShared
        BY <3>3 DEF AuditTypeOK
      <4>2. VerifiedHashes' = VerifiedHashes
        BY <3>0 DEF VerifiedHashes, VerifiedUpTo
      <4> QED
        BY <3>0, <4>1, <4>2 DEF WholeIsEnded, AckedVerifies
    <3> QED
      BY <3>4, <3>5, <3>6
  <2>3. ASSUME NEW p \in AuditProc, RecordEvent(p) PROVE AuditInv'
    <3> DEFINE event == Head(auditQueue[p])
               next == Chain("loaded", auditChain[p].sequence + 1, event)
    <3>0. /\ Recordable(p) /\ AppendRecord(p, TRUE, TRUE)
          /\ auditChain' = [auditChain EXCEPT ![p] = next]
          /\ auditQueue' = [auditQueue EXCEPT ![p] = Tail(auditQueue[p])]
          /\ auditAcked' = auditAcked \cup {event}
          /\ UNCHANGED <<auditEvents, auditFaults, auditShared, auditHalf>>
      BY <2>3 DEF RecordEvent, AuditTypeOK
    <3>1. event \in Nat /\ Tail(auditQueue[p]) \in Seq(Nat)
      BY <3>0, HeadTailProperties DEF Recordable, AuditTypeOK
    <3>2. next \in AuditChains
      BY <3>1 DEF Chain, AuditChains, AuditTypeOK
    <3>3. AuditTypeOK'
      <4>1. auditFile' \in Seq(AuditLines)
        BY <3>0, AppendRecordType DEF Recordable
      <4> QED
        BY <3>0, <3>1, <3>2, <4>1 DEF AuditTypeOK
    <3>4. ASSUME ~auditShared, ~auditHalf
          PROVE  /\ event \in VerifiedHashes' /\ VerifiedHashes \subseteq VerifiedHashes'
                 /\ VerifiedUpTo(Len(auditFile))'
                 /\ auditFile' # <<>> /\ Len(auditFile') = auditChain[p].sequence + 1
                 /\ auditFile'[Len(auditFile')].record.hash = event
                 /\ \A i \in 1..Len(auditFile') : auditFile'[i].whole => auditFile'[i].newline
                 /\ \A q \in AuditProc : AuditLoaded(q) => q = p
      <4>1. /\ VerifiedUpTo(Len(auditFile)) /\ auditChain[p].sequence = Len(auditFile)
            /\ \A q \in AuditProc : AuditLoaded(q) => q = p
        BY <3>0, <3>4 DEF ChainAtEnd, AuditLoaded, Recordable
      <4>2. PICK record \in AuditRecords :
              /\ record.sequence = Len(auditFile) + 1 /\ record.hash = event
              /\ record.previous = IF auditFile = <<>> THEN Genesis
                                   ELSE auditFile[Len(auditFile)].record.hash
              /\ [record |-> record, whole |-> TRUE, newline |-> TRUE] \in AuditLines
              /\ auditFile' = Append(auditFile, [record |-> record, whole |-> TRUE, newline |-> TRUE])
        BY <3>0, <3>4, AppendedAtEnd
      <4> DEFINE line == [record |-> record, whole |-> TRUE, newline |-> TRUE]
      <4>3. line \in AuditLines /\ line.whole /\ line.newline /\ line.record = record
        BY <4>2
      <4> HIDE DEF event
      <4>4. auditFile' = Append(auditFile, line)
        BY <4>2
      <4> HIDE DEF line
      <4>5. VerifiedUpTo(Len(auditFile))' /\ event \in VerifiedHashes'
        BY <4>1, <4>2, <4>3, <4>4, NextVerifies
      <4>6. /\ auditFile' # <<>> /\ Len(auditFile') = Len(auditFile) + 1
            /\ \A i \in 1..Len(auditFile) : auditFile'[i] = auditFile[i]
            /\ auditFile'[Len(auditFile) + 1] = line
            /\ VerifiedHashes \subseteq VerifiedHashes'
        BY <4>3, <4>4, AddedLine
      <4>7. \A i \in 1..Len(auditFile') : i \in 1..Len(auditFile) \/ i = Len(auditFile) + 1
        BY <4>6 DEF AuditTypeOK
      <4>8. \A i \in 1..Len(auditFile) : auditFile[i].whole => auditFile[i].newline
        BY <3>4 DEF WholeIsEnded
      <4>9. \A i \in 1..Len(auditFile') : auditFile'[i].whole => auditFile'[i].newline
        BY <4>3, <4>6, <4>7, <4>8
      <4> QED
        BY <4>1, <4>2, <4>3, <4>5, <4>6, <4>9
    <3> HIDE DEF event
    <3>5. auditChain'[p] = next /\ \A q \in AuditProc \ {p} : auditChain'[q] = auditChain[q]
      BY <3>0 DEF AuditTypeOK
    <3>6. ChainAtEnd'
      <4>1. SUFFICES ASSUME ~auditShared, ~auditHalf, NEW q \in AuditProc, AuditLoaded(q)'
                     PROVE  /\ \A r \in AuditProc : AuditLoaded(r)' => r = q
                            /\ VerifiedUpTo(Len(auditFile))'
                            /\ auditChain'[q].sequence = Len(auditFile')
                            /\ auditChain'[q].hash = IF auditFile' = <<>> THEN Genesis
                                                     ELSE auditFile'[Len(auditFile')].record.hash
        BY <3>0 DEF ChainAtEnd
      <4>2. \A r \in AuditProc : AuditLoaded(r)' => r = p
        BY <3>4, <3>5, <4>1 DEF AuditLoaded
      <4>3. q = p /\ auditChain'[q] = next
        BY <3>5, <4>1, <4>2
      <4> QED
        BY <3>4, <4>1, <4>2, <4>3 DEF Chain
    <3>7. WholeIsEnded'
      BY <3>0, <3>4 DEF WholeIsEnded
    <3>8. AckedVerifies'
      <4>1. SUFFICES ASSUME ~auditShared, ~auditHalf PROVE auditAcked' \subseteq VerifiedHashes'
        BY <3>0 DEF AckedVerifies
      <4>2. auditAcked \subseteq VerifiedHashes
        BY <4>1 DEF AckedVerifies
      <4>3. event \in VerifiedHashes' /\ VerifiedHashes \subseteq VerifiedHashes'
        BY <3>4, <4>1
      <4>4. auditAcked' = auditAcked \cup {event}
        BY <3>0 DEF event
      <4> QED
        BY <4>2, <4>3, <4>4
    <3> QED
      BY <3>3, <3>6, <3>7, <3>8
  <2>4. ASSUME NEW p \in AuditProc, FailRecord(p) \/ EndProcess(p) PROVE AuditInv'
    <3>0. UNCHANGED <<auditEvents, auditAcked, auditShared>>
      BY <2>4 DEF FailRecord, EndProcess
    <3>1. /\ auditFile' \in Seq(AuditLines) /\ auditHalf' \in BOOLEAN /\ (auditHalf => auditHalf')
          /\ ~auditShared /\ ~auditHalf' =>
               /\ VerifiedHashes \subseteq VerifiedHashes'
               /\ \A i \in 1..Len(auditFile') : auditFile'[i].whole => auditFile'[i].newline
      <4>1. CASE Recordable(p) /\ Interrupted(p)
        BY <4>1, InterruptedKeeps
      <4>2. CASE UNCHANGED <<auditFile, auditHalf>>
        BY <4>2 DEF AuditTypeOK, WholeIsEnded, VerifiedHashes, VerifiedUpTo
      <4> QED
        BY <2>4, <4>1, <4>2 DEF FailRecord, EndProcess
    <3>2. PICK chain \in {Rejected, Unloaded}, queue \in Seq(Nat) :
            /\ auditChain' = [auditChain EXCEPT ![p] = chain]
            /\ auditQueue' = [auditQueue EXCEPT ![p] = queue]
      <4>1. CASE FailRecord(p)
        <5>1. Tail(auditQueue[p]) \in Seq(Nat)
          BY <4>1, HeadTailProperties DEF FailRecord, Recordable, AuditTypeOK
        <5> QED
          BY <4>1, <5>1 DEF FailRecord, AuditTypeOK
      <4>2. CASE EndProcess(p)
        <5>1. <<>> \in Seq(Nat)
          OBVIOUS
        <5> QED
          BY <4>2, <5>1 DEF EndProcess
      <4> QED
        BY <2>4, <4>1, <4>2
    <3>3. chain \in AuditChains /\ chain.status # "loaded"
      BY DEF Rejected, Unloaded, Chain, AuditChains
    <3>4. AuditTypeOK'
      BY <3>0, <3>1, <3>2, <3>3 DEF AuditTypeOK
    <3>5. ChainAtEnd'
      <4>1. \A q \in AuditProc : AuditLoaded(q)' => q # p /\ AuditLoaded(q) /\ auditChain'[q] = auditChain[q]
        BY <3>2, <3>3 DEF AuditLoaded, AuditTypeOK
      <4>2. CASE AuditLoaded(p)
        BY <3>0, <3>1, <4>1, <4>2 DEF ChainAtEnd
      <4>3. CASE ~AuditLoaded(p)
        <5>1. UNCHANGED <<auditFile, auditHalf, auditShared>>
          BY <2>4, <4>3 DEF FailRecord, EndProcess, Recordable, AuditLoaded
        <5> QED
          BY <4>1, <5>1 DEF ChainAtEnd, VerifiedUpTo
      <4> QED
        BY <4>2, <4>3
    <3> QED
      BY <3>0, <3>1, <3>4, <3>5 DEF WholeIsEnded, AckedVerifies
  <2>5. ASSUME NEW p \in AuditProc, RejectRecord(p) PROVE AuditInv'
    <3>1. Tail(auditQueue[p]) \in Seq(Nat)
      BY <2>5, HeadTailProperties DEF RejectRecord, AuditTypeOK
    <3>2. AuditTypeOK'
      BY <2>5, <3>1 DEF RejectRecord, AuditTypeOK
    <3>3. UNCHANGED <<auditFile, auditChain, auditAcked, auditShared, auditHalf>>
      BY <2>5 DEF RejectRecord
    <3>4. ChainAtEnd'
      BY <3>3 DEF ChainAtEnd, AuditLoaded, VerifiedUpTo
    <3>5. WholeIsEnded'
      BY <3>3 DEF WholeIsEnded
    <3>6. \A n : VerifiedUpTo(n)' <=> VerifiedUpTo(n)
      BY <3>3 DEF VerifiedUpTo
    <3>7. VerifiedHashes' = VerifiedHashes
      BY <3>3, <3>6 DEF VerifiedHashes
    <3>8. AckedVerifies'
      BY <3>3, <3>7 DEF AckedVerifies
    <3> QED
      BY <3>2, <3>4, <3>5, <3>8
  <2>6. CASE UNCHANGED auditVars
    <3>1. UNCHANGED <<auditFile, auditChain, auditQueue, auditEvents, auditAcked, auditShared, auditHalf>>
      BY <2>6 DEF auditVars, auditHistory
    <3>2. AuditTypeOK' /\ WholeIsEnded'
      BY <3>1 DEF AuditTypeOK, WholeIsEnded
    <3>3. \A n : VerifiedUpTo(n)' <=> VerifiedUpTo(n)
      BY <3>1 DEF VerifiedUpTo
    <3>4. ChainAtEnd'
      BY <3>1, <3>3 DEF ChainAtEnd, AuditLoaded
    <3>5. VerifiedHashes' = VerifiedHashes
      BY <3>1, <3>3 DEF VerifiedHashes
    <3>6. AckedVerifies'
      BY <3>1, <3>5 DEF AckedVerifies
    <3> QED
      BY <3>2, <3>4, <3>6
  <2> QED
    BY <1>1, <2>1, <2>2, <2>3, <2>4, <2>5, <2>6 DEF AuditNext
<1> QED
  BY AuditInitInv, <1>1, PTL DEF AuditSpec

\* Unless two processes wrote the file at once or a fault took only a newline, every
\* event whose record() resolved is in the part of the journal that verifies,
\* whatever appends failed and whatever processes ended before (audit-log.ts).
THEOREM JournalVerifies == AuditSpec => []AckedVerifies
<1>1. AuditInv => AckedVerifies
  BY DEF AuditInv
<1> QED
  BY <1>1, AuditInvariance, PTL

-----------------------------------------------------------------------------
(* The credential store *)

CredPcs == {"idle", "refresh", "set", "loaded", "written"}
CredJobs ==
  [pc : CredPcs, account : Account, process : CredProcess, held : Nat, db : [Account -> Nat]]
Accounts ==
  [rotates : BOOLEAN, valid : SUBSET Nat, revoked : SUBSET Nat, issued : Nat, expired : Nat]

CredTypeOK ==
  /\ idp \in [Account -> Accounts]
  /\ credFile \in [Account -> Nat]
  /\ credTemp \in [CredProcess -> [Account -> Nat] \cup {NoFile}]
  /\ cred \in [CredJob -> CredJobs]
  /\ credCrossed \in BOOLEAN
  /\ credLost \subseteq Account

\* A job that has a token to save, or a deletion, and that token, 0 for none.
Holding(j) == cred[j].pc \in {"set", "loaded", "written"}
Payload(j) == IF cred[j].pc = "set" THEN cred[j].held ELSE cred[j].db[Mine(j)]

Accepted(a) == idp[a].valid \cup idp[a].revoked \cup {0}

\* Unless saves crossed, no token is anywhere before its provider has handed it out.
TokensIssued ==
  ~credCrossed =>
    /\ \A a \in Account : credFile[a] <= idp[a].issued
    /\ \A j \in CredJob :
         /\ cred[j].pc = "refresh" => cred[j].held \in 1..idp[Mine(j)].issued
         /\ Holding(j) => Payload(j) <= idp[Mine(j)].issued

\* Unless saves crossed, one job saves at a time, and what it renames is the file
\* as it is with the job's own entry changed.
OneSaves ==
  ~credCrossed =>
    \A j \in CredJob : Saving(j) =>
      /\ \A k \in CredJob : Saving(k) => k = j
      /\ \A b \in Account \ {Mine(j)} : cred[j].db[b] = credFile[b]
      /\ cred[j].pc = "written" => credTemp[CredPid(j)] = cred[j].db

\* What a job is about to save is accepted, and where the provider retires tokens
\* nobody else can have it retired.
HeldIsGood ==
  ~credCrossed =>
    \A j \in CredJob : Holding(j) =>
      /\ Payload(j) \in Accepted(Mine(j))
      /\ idp[Mine(j)].rotates /\ Payload(j) # 0 =>
           /\ Payload(j) # credFile[Mine(j)]
           /\ \A k \in CredJob \ {j} : Mine(k) = Mine(j) =>
                /\ Holding(k) => Payload(k) # Payload(j)
                /\ cred[k].pc = "refresh" => cred[k].held # Payload(j)

\* A stored token that is no longer accepted is about to be replaced.
StaleIsReplaced ==
  ~credCrossed =>
    \A a \in Account \ credLost :
      credFile[a] \in Accepted(a) \/ \E j \in CredJob : Mine(j) = a /\ Holding(j)

CredInv == CredTypeOK /\ TokensIssued /\ OneSaves /\ HeldIsGood /\ StaleIsReplaced

\* The invariant holds of an empty credential database and idle jobs.
LEMMA CredInitInv == CredInit => CredInv
<1> SUFFICES ASSUME CredInit PROVE CredInv
  OBVIOUS
<1> USE CredentialAssumption
<1>1. EmptyDb \in [Account -> Nat]
  BY DEF EmptyDb
<1>2. \A rotates \in BOOLEAN : NewAccount(rotates) \in Accounts
  BY DEF NewAccount, Accounts
<1>3. PICK place \in Placements, of \in [CredJob -> Account] :
        cred = [j \in CredJob |-> IdleJob(of[j], place[j])]
  BY DEF CredInit
<1>4. \A j \in CredJob : IdleJob(of[j], place[j]) \in CredJobs /\ IdleJob(of[j], place[j]).pc = "idle"
  BY <1>1 DEF IdleJob, CredJobs, CredPcs
<1>5. cred \in [CredJob -> CredJobs] /\ \A j \in CredJob : cred[j].pc = "idle"
  BY <1>3, <1>4
<1>6. CredTypeOK
  BY <1>1, <1>2, <1>5 DEF CredInit, CredTypeOK
<1>7. \A a \in Account : credFile[a] = 0 /\ credFile[a] <= idp[a].issued
  BY <1>6 DEF CredInit, EmptyDb, CredTypeOK, Accounts
<1>8. TokensIssued /\ OneSaves /\ HeldIsGood
  BY <1>5, <1>7 DEF TokensIssued, OneSaves, HeldIsGood, Saving, Holding
<1>9. StaleIsReplaced
  BY <1>7 DEF StaleIsReplaced, Accepted
<1> QED
  BY <1>6, <1>8, <1>9 DEF CredInv

\* A step of one job leaves the others, and whose it is, alone.
LEMMA JobMoves ==
  ASSUME CredTypeOK, NEW j \in CredJob, NEW job \in CredJobs,
         job.account = Mine(j), job.process = CredPid(j), cred' = [cred EXCEPT ![j] = job]
  PROVE  /\ cred' \in [CredJob -> CredJobs]
         /\ cred'[j] = job
         /\ \A k \in CredJob \ {j} : cred'[k] = cred[k]
         /\ \A k \in CredJob : cred'[k].account = Mine(k) /\ cred'[k].process = CredPid(k)
BY DEF CredTypeOK, Mine, CredPid

\* The account, the process and the token of a job are what their names say.
LEMMA MineType ==
  ASSUME CredTypeOK, NEW j \in CredJob
  PROVE  /\ Mine(j) \in Account /\ CredPid(j) \in CredProcess /\ cred[j].held \in Nat
         /\ cred[j].db \in [Account -> Nat] /\ Payload(j) \in Nat /\ cred[j].pc \in CredPcs
         /\ idp[Mine(j)] \in Accounts
BY DEF CredTypeOK, Mine, CredPid, CredJobs, Payload

\* A job that ends is back to an idle one.
LEMMA EndedType ==
  ASSUME CredTypeOK, NEW j \in CredJob
  PROVE  /\ Ended(j) \in CredJobs /\ Ended(j).pc = "idle"
         /\ Ended(j).account = Mine(j) /\ Ended(j).process = CredPid(j)
<1>1. EmptyDb \in [Account -> Nat]
  BY DEF EmptyDb
<1> QED
  BY <1>1, MineType DEF Ended, IdleJob, CredJobs, CredPcs

\* A token the provider adds is new, and only the retired one is lost.
LEMMA GrantMoves ==
  ASSUME CredTypeOK, NEW a \in Account, NEW retired \in SUBSET Nat, Grant(a, retired)
  PROVE  /\ idp' \in [Account -> Accounts]
         /\ idp'[a].issued = idp[a].issued + 1 /\ idp'[a].rotates = idp[a].rotates
         /\ idp'[a].valid = (idp[a].valid \ retired) \cup {idp[a].issued + 1}
         /\ idp'[a].revoked = idp[a].revoked
         /\ \A b \in Account \ {a} : idp'[b] = idp[b]
BY DEF CredTypeOK, Grant, Accounts

\* A job that comes to have no token in hand and to save nothing.
LEMMA JobLeaves ==
  ASSUME CredInv, NEW j \in CredJob, NEW job \in CredJobs,
         job.account = Mine(j), job.process = CredPid(j), cred' = [cred EXCEPT ![j] = job],
         job.pc = "idle", cred[j].pc \in {"idle", "refresh"},
         UNCHANGED <<idp, credFile, credTemp, credCrossed, credLost>>
  PROVE  CredInv'
<1> USE DEF CredInv
<1>1. /\ cred' \in [CredJob -> CredJobs]
      /\ cred'[j] = job
      /\ \A k \in CredJob \ {j} : cred'[k] = cred[k]
      /\ \A k \in CredJob : cred'[k].account = Mine(k) /\ cred'[k].process = CredPid(k)
  BY JobMoves
<1>2. \A k \in CredJob : Mine(k)' = Mine(k) /\ CredPid(k)' = CredPid(k)
  BY <1>1 DEF Mine, CredPid
<1>3. \A k \in CredJob : Holding(k)' => k # j
  BY <1>1 DEF Holding
<1>4. \A k \in CredJob \ {j} : (Holding(k)' <=> Holding(k)) /\ Payload(k)' = Payload(k) /\ (Saving(k)' <=> Saving(k))
  BY <1>1, <1>2 DEF Holding, Payload, Saving
<1>5. ~Holding(j) /\ ~Holding(j)' /\ ~Saving(j)'
  BY <1>1 DEF Holding, Saving
<1>6. CredTypeOK'
  BY <1>1 DEF CredTypeOK
<1>7. TokensIssued'
  BY <1>1, <1>2, <1>3, <1>4 DEF TokensIssued
<1>8. OneSaves'
  BY <1>1, <1>2, <1>4, <1>5 DEF OneSaves
<1>9. HeldIsGood'
  BY <1>1, <1>2, <1>4, <1>5 DEF HeldIsGood, Accepted
<1>10. StaleIsReplaced'
  BY <1>2, <1>4, <1>5 DEF StaleIsReplaced, Accepted
<1> QED
  BY <1>6, <1>7, <1>8, <1>9, <1>10

\* What the steps of one job leave alone, told by the job that makes it.
LEMMA OthersStay ==
  ASSUME CredTypeOK, NEW j \in CredJob, NEW job \in CredJobs,
         job.account = Mine(j), job.process = CredPid(j), cred' = [cred EXCEPT ![j] = job]
  PROVE  /\ cred' \in [CredJob -> CredJobs] /\ cred'[j] = job
         /\ \A k \in CredJob : Mine(k)' = Mine(k) /\ CredPid(k)' = CredPid(k)
         /\ \A k \in CredJob \ {j} :
              /\ cred'[k] = cred[k] /\ (Holding(k)' <=> Holding(k))
              /\ Payload(k)' = Payload(k) /\ (Saving(k)' <=> Saving(k))
         /\ Holding(j)' <=> (job.pc \in {"set", "loaded", "written"})
         /\ Saving(j)' <=> (job.pc \in {"loaded", "written"})
         /\ Payload(j)' = IF job.pc = "set" THEN job.held ELSE job.db[Mine(j)]
<1>1. /\ cred' \in [CredJob -> CredJobs]
      /\ cred'[j] = job
      /\ \A k \in CredJob \ {j} : cred'[k] = cred[k]
      /\ \A k \in CredJob : cred'[k].account = Mine(k) /\ cred'[k].process = CredPid(k)
  BY JobMoves
<1>2. \A k \in CredJob : Mine(k)' = Mine(k) /\ CredPid(k)' = CredPid(k)
  BY <1>1 DEF Mine, CredPid
<1> QED
  BY <1>1, <1>2 DEF Holding, Payload, Saving

\* A token that a login or a rotation grants to a job is nobody else's.
LEMMA GrantedIsGood ==
  ASSUME CredInv, NEW j \in CredJob, cred[j].pc \in {"idle", "refresh"},
         NEW retired \in SUBSET Nat, Grant(Mine(j), retired),
         \/ retired = {}
         \/ retired = {cred[j].held} /\ cred[j].pc = "refresh" /\ idp[Mine(j)].rotates,
         cred' = [cred EXCEPT ![j] = [cred[j] EXCEPT !.pc = "set", !.held = idp[Mine(j)].issued + 1]],
         UNCHANGED <<credFile, credTemp, credCrossed, credLost>>
  PROVE  CredInv'
<1> DEFINE a == Mine(j)
           new == idp[a].issued + 1
           job == [cred[j] EXCEPT !.pc = "set", !.held = new]
<1> USE DEF CredInv
<1>0. a \in Account /\ idp[a] \in Accounts /\ cred[j] \in CredJobs /\ new \in Nat /\ idp[a].issued \in Nat
  BY MineType DEF CredTypeOK, Accounts
<1>1. job \in CredJobs /\ job.account = a /\ job.process = CredPid(j) /\ job.pc = "set" /\ job.held = new
  BY <1>0 DEF CredJobs, CredPcs, Mine, CredPid
<1>2. cred' = [cred EXCEPT ![j] = job]
  OBVIOUS
<1> HIDE DEF job
<1>3. /\ cred' \in [CredJob -> CredJobs] /\ cred'[j] = job
      /\ \A k \in CredJob : Mine(k)' = Mine(k) /\ CredPid(k)' = CredPid(k)
      /\ \A k \in CredJob \ {j} :
           /\ cred'[k] = cred[k] /\ (Holding(k)' <=> Holding(k))
           /\ Payload(k)' = Payload(k) /\ (Saving(k)' <=> Saving(k))
      /\ Holding(j)' /\ ~Saving(j)' /\ Payload(j)' = new
  BY <1>1, <1>2, OthersStay
<1>4. /\ idp' \in [Account -> Accounts]
      /\ idp'[a].issued = new /\ idp'[a].rotates = idp[a].rotates
      /\ idp'[a].valid = (idp[a].valid \ retired) \cup {new}
      /\ idp'[a].revoked = idp[a].revoked
      /\ \A b \in Account \ {a} : idp'[b] = idp[b]
  BY <1>0, GrantMoves
<1>5. CredTypeOK'
  BY <1>3, <1>4 DEF CredTypeOK
<1> HIDE DEF a, new
<1>6. \A b \in Account : idp'[b].issued \in Nat /\ idp[b].issued \in Nat /\ idp[b].issued <= idp'[b].issued
                         /\ idp'[b].rotates = idp[b].rotates
  <2>1. \A b \in Account : idp'[b].issued \in Nat /\ idp[b].issued \in Nat
    BY <1>4 DEF CredTypeOK, Accounts
  <2>2. idp[a].issued <= new
    BY <1>0 DEF new
  <2> QED
    BY <1>4, <2>1, <2>2
<1>7. TokensIssued'
  <2>0. SUFFICES ASSUME ~credCrossed PROVE TokensIssued'
    BY DEF TokensIssued
  <2>1. ASSUME NEW b \in Account PROVE credFile'[b] <= idp'[b].issued
    BY <1>6, <2>0 DEF TokensIssued, CredTypeOK
  <2>2. ASSUME NEW k \in CredJob PROVE /\ cred'[k].pc = "refresh" => cred'[k].held \in 1..idp'[Mine(k)].issued
                                       /\ Holding(k)' => Payload(k)' <= idp'[Mine(k)].issued
    <3>1. CASE k = j
      BY <1>0, <1>1, <1>3, <1>4, <3>1 DEF a
    <3>2. CASE k # j
      <4>1. Mine(k) \in Account /\ Payload(k) \in Nat /\ cred[k].held \in Nat
        BY MineType
      <4> QED
        BY <1>3, <1>6, <2>0, <3>2, <4>1 DEF TokensIssued
    <3> QED
      BY <3>1, <3>2
  <2> QED
    BY <1>3, <2>1, <2>2 DEF TokensIssued
<1>8. OneSaves'
  <2> SUFFICES ASSUME ~credCrossed, NEW k \in CredJob, Saving(k)'
               PROVE  /\ \A l \in CredJob : Saving(l)' => l = k
                      /\ \A b \in Account \ {Mine(k)} : cred'[k].db[b] = credFile[b]
                      /\ cred'[k].pc = "written" => credTemp[CredPid(k)] = cred'[k].db
    BY <1>3 DEF OneSaves
  <2>1. k # j /\ Saving(k) /\ cred'[k] = cred[k]
    BY <1>3
  <2> QED
    BY <1>3, <2>1 DEF OneSaves
<1>9. ASSUME ~credCrossed, NEW k \in CredJob \ {j}, Holding(k)
      PROVE  /\ Payload(k) \in idp'[Mine(k)].valid \cup idp'[Mine(k)].revoked \cup {0}
             /\ Payload(k) # 0 /\ idp[Mine(k)].rotates /\ Mine(k) = a =>
                  Payload(k) # new
  <2>1. Payload(k) \in Accepted(Mine(k)) /\ Mine(k) \in Account /\ Payload(k) \in Nat
    BY <1>9, MineType DEF HeldIsGood
  <2>2. CASE Mine(k) = a
    <3>1. Payload(k) = 0 \/ Payload(k) \notin retired
      <4>1. CASE retired = {cred[j].held} /\ cred[j].pc = "refresh" /\ idp[Mine(j)].rotates
        BY <1>9, <2>2, <4>1 DEF HeldIsGood, a
      <4> QED
        BY <4>1
    <3>2. Payload(k) <= idp[a].issued
      BY <1>9, <2>2 DEF TokensIssued
    <3> QED
      BY <1>0, <1>4, <2>1, <2>2, <3>1, <3>2 DEF Accepted, new
  <2>3. CASE Mine(k) # a
    BY <1>4, <2>1, <2>3 DEF Accepted
  <2> QED
    BY <2>2, <2>3
<1>10. HeldIsGood'
  <2> SUFFICES ASSUME ~credCrossed, NEW k \in CredJob, Holding(k)'
               PROVE  /\ Payload(k)' \in Accepted(Mine(k))'
                      /\ idp'[Mine(k)].rotates /\ Payload(k)' # 0 =>
                           /\ Payload(k)' # credFile[Mine(k)]
                           /\ \A l \in CredJob \ {k} : Mine(l) = Mine(k) =>
                                /\ Holding(l)' => Payload(l)' # Payload(k)'
                                /\ cred'[l].pc = "refresh" => cred'[l].held # Payload(k)'
    BY <1>3 DEF HeldIsGood
  <2>1. CASE k = j
    <3>1. Payload(k)' \in Accepted(Mine(k))'
      BY <1>3, <1>4, <2>1 DEF Accepted, a
    <3>2. credFile[a] # new
      BY <1>0 DEF TokensIssued, CredTypeOK, new
    <3>3. ASSUME NEW l \in CredJob \ {k}, Mine(l) = a
          PROVE  /\ Holding(l)' => Payload(l)' # new
                 /\ cred'[l].pc = "refresh" => cred'[l].held # new
      <4>1. Payload(l) \in Nat /\ cred[l].held \in Nat
        BY MineType
      <4>2. Holding(l) => Payload(l) <= idp[a].issued
        BY <3>3 DEF TokensIssued
      <4>3. cred[l].pc = "refresh" => cred[l].held <= idp[a].issued
        BY <1>0, <3>3 DEF TokensIssued
      <4> QED
        BY <1>0, <1>3, <2>1, <3>3, <4>1, <4>2, <4>3 DEF new
    <3> QED
      BY <1>3, <2>1, <3>1, <3>2, <3>3 DEF a
  <2>2. CASE k # j
    <3>1. Holding(k) /\ Payload(k)' = Payload(k) /\ Mine(k) \in Account
      BY <1>3, <2>2, MineType
    <3>2. Payload(k)' \in Accepted(Mine(k))'
      BY <1>3, <1>9, <2>2, <3>1 DEF Accepted
    <3>3. ASSUME idp[Mine(k)].rotates, Payload(k) # 0
          PROVE  /\ Payload(k) # credFile[Mine(k)]
                 /\ \A l \in CredJob \ {k} : Mine(l) = Mine(k) =>
                      /\ Holding(l)' => Payload(l)' # Payload(k)
                      /\ cred'[l].pc = "refresh" => cred'[l].held # Payload(k)
      <4>1. /\ Payload(k) # credFile[Mine(k)]
            /\ \A l \in CredJob \ {k} : Mine(l) = Mine(k) =>
                 /\ Holding(l) => Payload(l) # Payload(k)
                 /\ cred[l].pc = "refresh" => cred[l].held # Payload(k)
        BY <3>1, <3>3 DEF HeldIsGood
      <4>2. Mine(j) = Mine(k) => Payload(j)' # Payload(k)
        BY <1>3, <1>9, <2>2, <3>1, <3>3 DEF a
      <4> QED
        BY <1>1, <1>3, <4>1, <4>2
    <3> QED
      BY <1>6, <3>1, <3>2, <3>3
  <2> QED
    BY <2>1, <2>2
<1>11. StaleIsReplaced'
  <2> SUFFICES ASSUME ~credCrossed, NEW b \in Account \ credLost
               PROVE  credFile[b] \in Accepted(b)' \/ \E k \in CredJob : Mine(k) = b /\ Holding(k)'
    BY <1>3 DEF StaleIsReplaced
  <2>1. CASE b = a
    BY <1>3, <2>1 DEF a
  <2>2. CASE b # a
    <3>1. credFile[b] \in Accepted(b) \/ \E k \in CredJob \ {j} : Mine(k) = b /\ Holding(k)
      BY <2>2 DEF StaleIsReplaced, a
    <3> QED
      BY <1>3, <1>4, <2>2, <3>1 DEF Accepted
  <2> QED
    BY <2>1, <2>2
<1> QED
  BY <1>5, <1>7, <1>8, <1>10, <1>11

\* A job that reads a stored token to refresh it takes none that another has in hand.
LEMMA GetKeeps ==
  ASSUME CredInv, NEW j \in CredJob, GetCredential(j) PROVE CredInv'
<1> DEFINE a == Mine(j)
           job == [cred[j] EXCEPT !.pc = "refresh", !.held = credFile[a]]
<1> USE DEF CredInv
<1>0. a \in Account /\ cred[j] \in CredJobs /\ credFile[a] \in Nat /\ idp[a].issued \in Nat
  BY MineType DEF CredTypeOK, Accounts
<1>1. /\ job \in CredJobs /\ job.account = a /\ job.process = CredPid(j)
      /\ job.pc = "refresh" /\ job.held = credFile[a]
  BY <1>0 DEF CredJobs, CredPcs, Mine, CredPid
<1>2. /\ cred' = [cred EXCEPT ![j] = job] /\ cred[j].pc = "idle" /\ credFile[a] # 0
      /\ UNCHANGED <<idp, credFile, credTemp, credCrossed, credLost>>
  BY <1>0 DEF GetCredential, KeepHistory, CredTypeOK
<1> HIDE DEF job
<1>3. /\ cred' \in [CredJob -> CredJobs] /\ cred'[j] = job
      /\ \A k \in CredJob : Mine(k)' = Mine(k) /\ CredPid(k)' = CredPid(k)
      /\ \A k \in CredJob \ {j} :
           /\ cred'[k] = cred[k] /\ (Holding(k)' <=> Holding(k))
           /\ Payload(k)' = Payload(k) /\ (Saving(k)' <=> Saving(k))
      /\ ~Holding(j)' /\ ~Saving(j)'
  BY <1>1, <1>2, OthersStay
<1>4. CredTypeOK'
  BY <1>2, <1>3 DEF CredTypeOK
<1>5. TokensIssued'
  <2>1. ~credCrossed => credFile[a] \in 1..idp[a].issued
    BY <1>0, <1>2 DEF TokensIssued
  <2> QED
    BY <1>1, <1>2, <1>3, <2>1 DEF TokensIssued, a
<1>6. OneSaves'
  BY <1>2, <1>3 DEF OneSaves
<1>7. HeldIsGood'
  BY <1>1, <1>2, <1>3 DEF HeldIsGood, Accepted
<1>8. StaleIsReplaced'
  <2>1. ~Holding(j)
    BY <1>2 DEF Holding
  <2> QED
    BY <1>2, <1>3, <2>1 DEF StaleIsReplaced, Accepted
<1> QED
  BY <1>4, <1>5, <1>6, <1>7, <1>8

\* A job that comes to hold a token that is accepted, or none, for an account whose
\* tokens its provider does not retire, or that is going to delete it.
LEMMA HoldKeeps ==
  ASSUME CredInv, NEW j \in CredJob, cred[j].pc \in {"idle", "refresh"}, NEW token \in Nat,
         token = 0 \/ (/\ token \in idp[Mine(j)].valid /\ ~idp[Mine(j)].rotates
                       /\ ~credCrossed => token <= idp[Mine(j)].issued),
         cred' = [cred EXCEPT ![j] = [cred[j] EXCEPT !.pc = "set", !.held = token]],
         idp' \in [Account -> Accounts],
         \A b \in Account : /\ idp'[b].issued = idp[b].issued /\ idp'[b].rotates = idp[b].rotates
                            /\ Accepted(b) \subseteq Accepted(b)',
         UNCHANGED <<credFile, credTemp, credCrossed, credLost>>
  PROVE  CredInv'
<1> DEFINE a == Mine(j)
           job == [cred[j] EXCEPT !.pc = "set", !.held = token]
<1> USE DEF CredInv
<1>0. a \in Account /\ cred[j] \in CredJobs /\ idp[a].issued \in Nat
  BY MineType DEF CredTypeOK, Accounts
<1>1. job \in CredJobs /\ job.account = a /\ job.process = CredPid(j) /\ job.pc = "set" /\ job.held = token
  BY <1>0 DEF CredJobs, CredPcs, Mine, CredPid
<1>2. cred' = [cred EXCEPT ![j] = job]
  OBVIOUS
<1> HIDE DEF job
<1>3. /\ cred' \in [CredJob -> CredJobs] /\ cred'[j] = job
      /\ \A k \in CredJob : Mine(k)' = Mine(k) /\ CredPid(k)' = CredPid(k)
      /\ \A k \in CredJob \ {j} :
           /\ cred'[k] = cred[k] /\ (Holding(k)' <=> Holding(k))
           /\ Payload(k)' = Payload(k) /\ (Saving(k)' <=> Saving(k))
      /\ Holding(j)' /\ ~Saving(j)' /\ Payload(j)' = token
  BY <1>1, <1>2, OthersStay
<1>4. CredTypeOK'
  BY <1>3 DEF CredTypeOK
<1> HIDE DEF a
<1>5. \A k \in CredJob : Mine(k) \in Account
  BY MineType
<1>6. TokensIssued'
  BY <1>0, <1>1, <1>3, <1>5 DEF TokensIssued, a
<1>7. OneSaves'
  <2> SUFFICES ASSUME ~credCrossed, NEW k \in CredJob, Saving(k)'
               PROVE  /\ \A l \in CredJob : Saving(l)' => l = k
                      /\ \A b \in Account \ {Mine(k)} : cred'[k].db[b] = credFile[b]
                      /\ cred'[k].pc = "written" => credTemp[CredPid(k)] = cred'[k].db
    BY <1>3 DEF OneSaves
  <2>1. k # j /\ Saving(k) /\ cred'[k] = cred[k]
    BY <1>3
  <2> QED
    BY <1>3, <2>1 DEF OneSaves
<1>8. HeldIsGood'
  <2>1. token \in Accepted(a)
    BY DEF Accepted, a
  <2>2. \A k \in CredJob : idp'[Mine(k)].rotates = idp[Mine(k)].rotates /\ Accepted(Mine(k)) \subseteq Accepted(Mine(k))'
    BY <1>3, <1>5
  <2>3. idp[a].rotates => token = 0
    BY DEF a
  <2> SUFFICES ASSUME ~credCrossed, NEW k \in CredJob, Holding(k)'
               PROVE  /\ Payload(k)' \in Accepted(Mine(k))'
                      /\ idp'[Mine(k)].rotates /\ Payload(k)' # 0 =>
                           /\ Payload(k)' # credFile[Mine(k)]
                           /\ \A l \in CredJob \ {k} : Mine(l) = Mine(k) =>
                                /\ Holding(l)' => Payload(l)' # Payload(k)'
                                /\ cred'[l].pc = "refresh" => cred'[l].held # Payload(k)'
    BY <1>3 DEF HeldIsGood
  <2>4. CASE k = j
    <3>1. Payload(k)' = token /\ token \in Accepted(Mine(k))'
      BY <1>3, <2>1, <2>2, <2>4 DEF a
    <3>2. idp'[Mine(k)].rotates => token = 0
      BY <2>2, <2>3, <2>4 DEF a
    <3> QED
      BY <3>1, <3>2
  <2>5. CASE k # j
    <3>1. Holding(k) /\ Payload(k)' = Payload(k) /\ Payload(k) \in Accepted(Mine(k))
      BY <1>3, <2>5 DEF HeldIsGood
    <3>2. ASSUME idp[Mine(k)].rotates, Payload(k) # 0
          PROVE  /\ Payload(k) # credFile[Mine(k)]
                 /\ \A l \in CredJob \ {k} : Mine(l) = Mine(k) =>
                      /\ Holding(l)' => Payload(l)' # Payload(k)
                      /\ cred'[l].pc = "refresh" => cred'[l].held # Payload(k)
      <4>1. /\ Payload(k) # credFile[Mine(k)]
            /\ \A l \in CredJob \ {k} : Mine(l) = Mine(k) =>
                 /\ Holding(l) => Payload(l) # Payload(k)
                 /\ cred[l].pc = "refresh" => cred[l].held # Payload(k)
        BY <3>1, <3>2 DEF HeldIsGood
      <4>2. Mine(j) = Mine(k) => Payload(j)' # Payload(k)
        BY <1>3, <2>3, <3>2 DEF a
      <4> QED
        BY <1>1, <1>3, <4>1, <4>2
    <3> QED
      BY <2>2, <3>1, <3>2
  <2> QED
    BY <2>4, <2>5
<1>9. StaleIsReplaced'
  <2> SUFFICES ASSUME ~credCrossed, NEW b \in Account \ credLost
               PROVE  credFile[b] \in Accepted(b)' \/ \E k \in CredJob : Mine(k) = b /\ Holding(k)'
    BY <1>3 DEF StaleIsReplaced
  <2>1. CASE credFile[b] \in Accepted(b)
    BY <2>1
  <2>2. CASE \E k \in CredJob : Mine(k) = b /\ Holding(k)
    BY <1>3, <2>2
  <2> QED
    BY <2>1, <2>2 DEF StaleIsReplaced
<1> QED
  BY <1>4, <1>6, <1>7, <1>8, <1>9

\* A save that is loaded is of the file as it is.
LEMMA LoadKeeps ==
  ASSUME CredInv, NEW j \in CredJob, LoadCredentials(j) PROVE CredInv'
<1> DEFINE a == Mine(j)
           base == [credFile EXCEPT ![a] = cred[j].held]
           job == [cred[j] EXCEPT !.pc = "loaded", !.held = 0, !.db = base]
<1> USE DEF CredInv
<1>0. a \in Account /\ cred[j] \in CredJobs /\ cred[j].held \in Nat /\ base \in [Account -> Nat]
  BY MineType DEF CredTypeOK
<1>1. /\ job \in CredJobs /\ job.account = a /\ job.process = CredPid(j)
      /\ job.pc = "loaded" /\ job.db = base
  BY <1>0 DEF CredJobs, CredPcs, Mine, CredPid
<1>2. /\ cred' = [cred EXCEPT ![j] = job] /\ cred[j].pc = "set"
      /\ credCrossed' = (credCrossed \/ \E k \in CredJob \ {j} : Saving(k))
      /\ UNCHANGED <<idp, credFile, credTemp, credLost>>
  BY <1>0 DEF LoadCredentials, CredTypeOK
<1>3. base[a] = cred[j].held /\ \A b \in Account \ {a} : base[b] = credFile[b]
  BY <1>0 DEF CredTypeOK
<1> HIDE DEF job, base
<1>4. /\ cred' \in [CredJob -> CredJobs] /\ cred'[j] = job
      /\ \A k \in CredJob : Mine(k)' = Mine(k) /\ CredPid(k)' = CredPid(k)
      /\ \A k \in CredJob \ {j} :
           /\ cred'[k] = cred[k] /\ (Holding(k)' <=> Holding(k))
           /\ Payload(k)' = Payload(k) /\ (Saving(k)' <=> Saving(k))
      /\ Holding(j)' /\ Saving(j)' /\ Payload(j)' = cred[j].held
  BY <1>1, <1>2, <1>3, OthersStay
<1>5. Holding(j) /\ Payload(j) = cred[j].held
  BY <1>2 DEF Holding, Payload
<1>6. \A k \in CredJob : (Holding(k)' <=> Holding(k)) /\ Payload(k)' = Payload(k)
  BY <1>4, <1>5
<1>7. \A k \in CredJob : cred'[k].pc = "refresh" => cred[k].pc = "refresh" /\ cred'[k].held = cred[k].held
  BY <1>1, <1>4
<1>8. credCrossed' \in BOOLEAN /\ (~credCrossed' => ~credCrossed /\ \A k \in CredJob \ {j} : ~Saving(k))
  BY <1>2 DEF CredTypeOK
<1>9. CredTypeOK'
  BY <1>2, <1>4, <1>8 DEF CredTypeOK
<1> HIDE DEF a
<1>10. TokensIssued'
  BY <1>2, <1>4, <1>6, <1>7, <1>8 DEF TokensIssued
<1>11. OneSaves'
  <2> SUFFICES ASSUME ~credCrossed', NEW k \in CredJob, Saving(k)'
               PROVE  /\ \A l \in CredJob : Saving(l)' => l = k
                      /\ \A b \in Account \ {Mine(k)} : cred'[k].db[b] = credFile[b]
                      /\ cred'[k].pc = "written" => credTemp[CredPid(k)] = cred'[k].db
    BY <1>2, <1>4 DEF OneSaves
  <2>1. k = j /\ \A l \in CredJob : Saving(l)' => l = j
    BY <1>4, <1>8
  <2> QED
    <3>1. cred'[k].db = base /\ cred'[k].pc = "loaded" /\ Mine(k) = a
      BY <1>1, <1>4, <2>1 DEF a
    <3> QED
      BY <1>3, <2>1, <3>1
<1>12. HeldIsGood'
  BY <1>2, <1>4, <1>6, <1>7, <1>8 DEF HeldIsGood, Accepted
<1>13. StaleIsReplaced'
  BY <1>2, <1>4, <1>6, <1>8 DEF StaleIsReplaced, Accepted
<1> QED
  BY <1>9, <1>10, <1>11, <1>12, <1>13

\* The temporary file is the process's, and so the saving job's.
LEMMA WriteKeeps ==
  ASSUME CredInv, NEW j \in CredJob, WriteTemporary(j) PROVE CredInv'
<1> DEFINE a == Mine(j)
           job == [cred[j] EXCEPT !.pc = "written"]
<1> USE DEF CredInv
<1>0. a \in Account /\ cred[j] \in CredJobs /\ cred[j].db \in [Account -> Nat] /\ CredPid(j) \in CredProcess
  BY MineType DEF CredTypeOK
<1>1. /\ job \in CredJobs /\ job.account = a /\ job.process = CredPid(j)
      /\ job.pc = "written" /\ job.db = cred[j].db
  BY <1>0 DEF CredJobs, CredPcs, Mine, CredPid
<1>2. /\ cred' = [cred EXCEPT ![j] = job] /\ cred[j].pc = "loaded"
      /\ credTemp' = [credTemp EXCEPT ![CredPid(j)] = cred[j].db]
      /\ UNCHANGED <<idp, credFile, credCrossed, credLost>>
  BY <1>0 DEF WriteTemporary, To, KeepHistory, CredTypeOK
<1> HIDE DEF job
<1>3. /\ cred' \in [CredJob -> CredJobs] /\ cred'[j] = job
      /\ \A k \in CredJob : Mine(k)' = Mine(k) /\ CredPid(k)' = CredPid(k)
      /\ \A k \in CredJob \ {j} :
           /\ cred'[k] = cred[k] /\ (Holding(k)' <=> Holding(k))
           /\ Payload(k)' = Payload(k) /\ (Saving(k)' <=> Saving(k))
      /\ Holding(j)' /\ Saving(j)' /\ Payload(j)' = cred[j].db[a]
  BY <1>1, <1>2, OthersStay
<1>4. Holding(j) /\ Saving(j) /\ Payload(j) = cred[j].db[a]
  BY <1>2 DEF Holding, Saving, Payload
<1> HIDE DEF a
<1>5. \A k \in CredJob : (Holding(k)' <=> Holding(k)) /\ Payload(k)' = Payload(k) /\ (Saving(k)' <=> Saving(k))
  BY <1>3, <1>4
<1>6. \A k \in CredJob : cred'[k].pc = "refresh" => cred[k].pc = "refresh" /\ cred'[k].held = cred[k].held
  BY <1>1, <1>3
<1>7. CredTypeOK'
  BY <1>0, <1>2, <1>3 DEF CredTypeOK
<1>8. TokensIssued'
  BY <1>2, <1>3, <1>5, <1>6 DEF TokensIssued
<1>9. OneSaves'
  <2> SUFFICES ASSUME ~credCrossed, NEW k \in CredJob, Saving(k)'
               PROVE  /\ \A l \in CredJob : Saving(l)' => l = k
                      /\ \A b \in Account \ {Mine(k)} : cred'[k].db[b] = credFile[b]
                      /\ cred'[k].pc = "written" => credTemp'[CredPid(k)] = cred'[k].db
    BY <1>2, <1>3 DEF OneSaves
  <2>1. k = j /\ \A l \in CredJob : Saving(l)' => l = k
    BY <1>4, <1>5 DEF OneSaves
  <2>2. \A b \in Account \ {Mine(k)} : cred[k].db[b] = credFile[b]
    BY <1>4, <2>1 DEF OneSaves
  <2>3. cred'[k].db = cred[k].db /\ credTemp'[CredPid(k)] = cred[k].db
    BY <1>0, <1>1, <1>2, <1>3, <2>1 DEF CredTypeOK
  <2> QED
    BY <2>1, <2>2, <2>3
<1>10. HeldIsGood'
  BY <1>2, <1>3, <1>5, <1>6 DEF HeldIsGood, Accepted
<1>11. StaleIsReplaced'
  BY <1>2, <1>3, <1>5 DEF StaleIsReplaced, Accepted
<1> QED
  BY <1>7, <1>8, <1>9, <1>10, <1>11

\* What is renamed over the database is the database, but for the job's own entry.
LEMMA RenameKeeps ==
  ASSUME CredInv, NEW j \in CredJob, RenameTemporary(j) PROVE CredInv'
<1> DEFINE a == Mine(j)
           content == credTemp[CredPid(j)]
           job == Ended(j)
<1> USE DEF CredInv
<1>0. a \in Account /\ cred[j] \in CredJobs /\ CredPid(j) \in CredProcess /\ cred[j].db \in [Account -> Nat]
      /\ content \in [Account -> Nat] \cup {NoFile}
  BY MineType DEF CredTypeOK
<1>1. job \in CredJobs /\ job.account = a /\ job.process = CredPid(j) /\ job.pc = "idle"
  BY EndedType
<1>2. /\ cred' = [cred EXCEPT ![j] = job] /\ cred[j].pc = "written"
      /\ credTemp' = [credTemp EXCEPT ![CredPid(j)] = NoFile]
      /\ IF content # NoFile THEN credFile' = content /\ UNCHANGED credLost
         ELSE credLost' = credLost \cup {a} /\ UNCHANGED credFile
      /\ UNCHANGED <<idp, credCrossed>>
  BY DEF RenameTemporary, Ends
<1> HIDE DEF job
<1>3. /\ cred' \in [CredJob -> CredJobs] /\ cred'[j] = job
      /\ \A k \in CredJob : Mine(k)' = Mine(k) /\ CredPid(k)' = CredPid(k)
      /\ \A k \in CredJob \ {j} :
           /\ cred'[k] = cred[k] /\ (Holding(k)' <=> Holding(k))
           /\ Payload(k)' = Payload(k) /\ (Saving(k)' <=> Saving(k))
      /\ ~Holding(j)' /\ ~Saving(j)'
  BY <1>1, <1>2, OthersStay
<1>4. Holding(j) /\ Saving(j) /\ Payload(j) = cred[j].db[a]
  BY <1>2 DEF Holding, Saving, Payload
<1> HIDE DEF a, content
<1>5. CredTypeOK'
  <2>1. credFile' \in [Account -> Nat] /\ credLost' \subseteq Account
    BY <1>0, <1>2 DEF CredTypeOK
  <2>2. credTemp' \in [CredProcess -> [Account -> Nat] \cup {NoFile}]
    BY <1>0, <1>2 DEF CredTypeOK
  <2> QED
    BY <1>2, <1>3, <2>1, <2>2 DEF CredTypeOK
<1>6. ASSUME ~credCrossed
      PROVE  /\ credFile' \in [Account -> Nat] /\ credFile'[a] = Payload(j) /\ credLost' = credLost
             /\ \A b \in Account \ {a} : credFile'[b] = credFile[b]
  <2>1. content = cred[j].db /\ \A b \in Account \ {a} : cred[j].db[b] = credFile[b]
    BY <1>2, <1>4, <1>6 DEF OneSaves, a, content
  <2>2. content # NoFile
    BY <1>0, <2>1, CredentialAssumption
  <2> QED
    BY <1>0, <1>2, <1>4, <2>1, <2>2
<1>7. TokensIssued'
  <2>1. ASSUME ~credCrossed, NEW b \in Account PROVE credFile'[b] <= idp[b].issued
    BY <1>4, <1>6, <2>1 DEF TokensIssued, a
  <2>2. \A k \in CredJob : Holding(k)' \/ cred'[k].pc = "refresh" => k # j
    BY <1>1, <1>3
  <2> QED
    BY <1>2, <1>3, <2>1, <2>2 DEF TokensIssued
<1>8. OneSaves'
  <2>1. ~credCrossed => \A k \in CredJob : ~Saving(k)'
    BY <1>3, <1>4 DEF OneSaves
  <2> QED
    BY <1>2, <2>1 DEF OneSaves
<1>9. HeldIsGood'
  <2> SUFFICES ASSUME ~credCrossed, NEW k \in CredJob, Holding(k)'
               PROVE  /\ Payload(k)' \in Accepted(Mine(k))'
                      /\ idp[Mine(k)].rotates /\ Payload(k)' # 0 =>
                           /\ Payload(k)' # credFile'[Mine(k)]
                           /\ \A l \in CredJob \ {k} : Mine(l) = Mine(k) =>
                                /\ Holding(l)' => Payload(l)' # Payload(k)'
                                /\ cred'[l].pc = "refresh" => cred'[l].held # Payload(k)'
    BY <1>2, <1>3 DEF HeldIsGood
  <2>1. k # j /\ Holding(k) /\ Payload(k)' = Payload(k) /\ Mine(k) \in Account
    BY <1>3, MineType
  <2>2. Payload(k) \in Accepted(Mine(k)) /\ Accepted(Mine(k))' = Accepted(Mine(k))
    BY <1>2, <1>3, <2>1 DEF HeldIsGood, Accepted
  <2>3. ASSUME idp[Mine(k)].rotates, Payload(k) # 0
        PROVE  /\ Payload(k) # credFile'[Mine(k)]
               /\ \A l \in CredJob \ {k} : Mine(l) = Mine(k) =>
                    /\ Holding(l)' => Payload(l)' # Payload(k)
                    /\ cred'[l].pc = "refresh" => cred'[l].held # Payload(k)
    <3>1. /\ Payload(k) # credFile[Mine(k)]
          /\ \A l \in CredJob \ {k} : Mine(l) = Mine(k) =>
               /\ Holding(l) => Payload(l) # Payload(k)
               /\ cred[l].pc = "refresh" => cred[l].held # Payload(k)
      BY <2>1, <2>3 DEF HeldIsGood
    <3>2. Payload(k) # credFile'[Mine(k)]
      BY <1>4, <1>6, <2>1, <3>1 DEF a
    <3> QED
      BY <1>1, <1>3, <3>1, <3>2
  <2> QED
    BY <2>1, <2>2, <2>3
<1>10. StaleIsReplaced'
  <2> SUFFICES ASSUME ~credCrossed, NEW b \in Account \ credLost
               PROVE  credFile'[b] \in Accepted(b)' \/ \E k \in CredJob : Mine(k) = b /\ Holding(k)'
    BY <1>2, <1>3, <1>6 DEF StaleIsReplaced
  <2>1. Accepted(b)' = Accepted(b)
    BY <1>2 DEF Accepted
  <2>2. CASE b = a
    BY <1>4, <1>6, <2>1, <2>2 DEF HeldIsGood, a
  <2>3. CASE b # a
    <3>1. credFile[b] \in Accepted(b) \/ \E k \in CredJob \ {j} : Mine(k) = b /\ Holding(k)
      BY <2>3 DEF StaleIsReplaced, a
    <3> QED
      BY <1>3, <1>6, <2>1, <2>3, <3>1
  <2> QED
    BY <2>2, <2>3
<1> QED
  BY <1>5, <1>7, <1>8, <1>9, <1>10

\* Only the clock of access tokens moves, or nothing of what the invariant is about.
LEMMA IdleStepsKeep ==
  ASSUME CredInv, UNCHANGED <<credFile, credTemp, cred, credCrossed, credLost>>,
         idp' \in [Account -> Accounts],
         \A a \in Account : /\ idp'[a].issued = idp[a].issued /\ idp'[a].rotates = idp[a].rotates
                            /\ idp'[a].valid = idp[a].valid /\ idp'[a].revoked = idp[a].revoked
  PROVE  CredInv'
<1> USE DEF CredInv
<1>1. \A k \in CredJob : /\ Mine(k)' = Mine(k) /\ CredPid(k)' = CredPid(k) /\ Payload(k)' = Payload(k)
                         /\ (Holding(k)' <=> Holding(k)) /\ (Saving(k)' <=> Saving(k))
  BY DEF Mine, CredPid, Payload, Holding, Saving
<1>2. \A k \in CredJob : Mine(k) \in Account
  BY MineType
<1>3. \A a \in Account : Accepted(a)' = Accepted(a)
  BY DEF Accepted
<1>4. CredTypeOK'
  BY DEF CredTypeOK
<1>5. TokensIssued'
  BY <1>1, <1>2 DEF TokensIssued
<1>6. OneSaves'
  BY <1>1 DEF OneSaves
<1>7. HeldIsGood'
  <2>1. \A k \in CredJob : Accepted(Mine(k))' = Accepted(Mine(k)) /\ idp'[Mine(k)].rotates = idp[Mine(k)].rotates
    BY <1>1, <1>2, <1>3
  <2> QED
    BY <1>1, <2>1 DEF HeldIsGood
<1>8. StaleIsReplaced'
  BY <1>1, <1>3 DEF StaleIsReplaced
<1> QED
  BY <1>4, <1>5, <1>6, <1>7, <1>8

\* A process that is killed takes the tokens its jobs had in hand with it.
LEMMA KillKeeps ==
  ASSUME CredInv, NEW p \in CredProcess, KillProcess(p) PROVE CredInv'
<1> DEFINE dead == {j \in CredJob : CredPid(j) = p}
<1> USE DEF CredInv
<1>1. /\ credLost' = credLost \cup {Mine(j) : j \in {k \in dead : cred[k].pc # "idle"}}
      /\ cred' = [j \in CredJob |-> IF j \in dead THEN Ended(j) ELSE cred[j]]
      /\ UNCHANGED <<idp, credFile, credTemp, credCrossed>>
  BY DEF KillProcess
<1>2. \A j \in CredJob : /\ Ended(j) \in CredJobs /\ Ended(j).pc = "idle"
                         /\ Ended(j).account = Mine(j) /\ Ended(j).process = CredPid(j)
  BY EndedType
<1>3. /\ cred' \in [CredJob -> CredJobs]
      /\ \A k \in CredJob : Mine(k)' = Mine(k) /\ CredPid(k)' = CredPid(k)
      /\ \A k \in dead : cred'[k].pc = "idle" /\ ~Holding(k)' /\ ~Saving(k)'
      /\ \A k \in CredJob \ dead :
           /\ cred'[k] = cred[k] /\ (Holding(k)' <=> Holding(k))
           /\ Payload(k)' = Payload(k) /\ (Saving(k)' <=> Saving(k))
  <2>1. cred' \in [CredJob -> CredJobs]
    BY <1>1, <1>2 DEF CredTypeOK
  <2>2. \A k \in CredJob : cred'[k].account = Mine(k) /\ cred'[k].process = CredPid(k)
    BY <1>1, <1>2 DEF Mine, CredPid
  <2>3. \A k \in CredJob \ dead : cred'[k] = cred[k]
    BY <1>1
  <2>4. \A k \in dead : cred'[k].pc = "idle"
    BY <1>1, <1>2
  <2>5. \A k \in CredJob : Mine(k)' = Mine(k) /\ CredPid(k)' = CredPid(k)
    BY <2>2 DEF Mine, CredPid
  <2>6. \A k \in CredJob \ dead : /\ (Holding(k)' <=> Holding(k)) /\ Payload(k)' = Payload(k)
                                  /\ (Saving(k)' <=> Saving(k))
    BY <2>3, <2>5 DEF Holding, Payload, Saving
  <2>7. \A k \in dead : ~Holding(k)' /\ ~Saving(k)'
    BY <2>4 DEF Holding, Saving
  <2> QED
    BY <2>1, <2>3, <2>4, <2>5, <2>6, <2>7
<1>4. \A k \in dead : Holding(k) => Mine(k) \in credLost'
  BY <1>1 DEF Holding
<1>5. credLost' \subseteq Account /\ credLost \subseteq credLost'
  <2>1. \A k \in CredJob : Mine(k) \in Account
    BY MineType
  <2> QED
    BY <1>1, <2>1 DEF CredTypeOK
<1> HIDE DEF dead
<1>6. CredTypeOK'
  BY <1>1, <1>3, <1>5 DEF CredTypeOK
<1>7. TokensIssued'
  BY <1>1, <1>3 DEF TokensIssued
<1>8. OneSaves'
  <2> SUFFICES ASSUME ~credCrossed, NEW k \in CredJob, Saving(k)'
               PROVE  /\ \A l \in CredJob : Saving(l)' => l = k
                      /\ \A b \in Account \ {Mine(k)} : cred'[k].db[b] = credFile[b]
                      /\ cred'[k].pc = "written" => credTemp[CredPid(k)] = cred'[k].db
    BY <1>1, <1>3 DEF OneSaves
  <2>1. k \notin dead /\ Saving(k) /\ cred'[k] = cred[k] /\ \A l \in CredJob : Saving(l)' => Saving(l)
    BY <1>3
  <2> QED
    BY <2>1 DEF OneSaves
<1>9. HeldIsGood'
  <2>1. \A k \in CredJob : Accepted(Mine(k))' = Accepted(Mine(k))
    BY <1>1, <1>3 DEF Accepted
  <2> SUFFICES ASSUME ~credCrossed, NEW k \in CredJob, Holding(k)'
               PROVE  /\ Payload(k)' \in Accepted(Mine(k))
                      /\ idp[Mine(k)].rotates /\ Payload(k)' # 0 =>
                           /\ Payload(k)' # credFile[Mine(k)]
                           /\ \A l \in CredJob \ {k} : Mine(l) = Mine(k) =>
                                /\ Holding(l)' => Payload(l)' # Payload(k)'
                                /\ cred'[l].pc = "refresh" => cred'[l].held # Payload(k)'
    BY <1>1, <1>3, <2>1 DEF HeldIsGood
  <2>2. Holding(k) /\ Payload(k)' = Payload(k)
    BY <1>3
  <2>3. \A l \in CredJob : /\ Holding(l)' => Holding(l) /\ Payload(l)' = Payload(l)
                           /\ cred'[l].pc = "refresh" => cred'[l] = cred[l]
    BY <1>3
  <2> QED
    BY <2>2, <2>3 DEF HeldIsGood
<1>10. StaleIsReplaced'
  <2> SUFFICES ASSUME ~credCrossed, NEW b \in Account \ credLost'
               PROVE  credFile[b] \in Accepted(b) \/ \E k \in CredJob : Mine(k) = b /\ Holding(k)'
    BY <1>1, <1>3 DEF StaleIsReplaced, Accepted
  <2>1. credFile[b] \in Accepted(b) \/ \E k \in CredJob : Mine(k) = b /\ Holding(k)
    BY <1>5 DEF StaleIsReplaced
  <2> QED
    BY <1>3, <1>4, <2>1
<1> QED
  BY <1>6, <1>7, <1>8, <1>9, <1>10

\* Every login, refresh and deletion of every job, every kill and every step of the
\* provider keeps the invariant.
THEOREM CredentialInvariance == CredSpec => []CredInv
<1>1. ASSUME CredInv, [CredNext]_credVars PROVE CredInv'
  <2> USE <1>1
  <2>0. CredTypeOK
    BY DEF CredInv
  <2>1. ASSUME NEW j \in CredJob, LoginGranted(j) PROVE CredInv'
    <3>1. cred' = [cred EXCEPT ![j] = [cred[j] EXCEPT !.pc = "set", !.held = idp[Mine(j)].issued + 1]]
      BY <2>0, <2>1 DEF LoginGranted, CredTypeOK
    <3>2. cred[j].pc = "idle" /\ Grant(Mine(j), {}) /\ UNCHANGED <<credFile, credTemp, credCrossed, credLost>>
      BY <2>1 DEF LoginGranted, KeepHistory
    <3> QED
      BY <3>1, <3>2, GrantedIsGood
  <2>2. ASSUME NEW j \in CredJob, RefreshToken(j) PROVE CredInv'
    <3> DEFINE a == Mine(j)
    <3>0. a \in Account /\ cred[j].held \in Nat /\ cred[j] \in CredJobs /\ idp[a] \in Accounts /\ idp[a].issued \in Nat
      BY <2>0, MineType DEF CredTypeOK, Accounts
    <3>1. cred[j].pc = "refresh" /\ cred[j].held \in idp[a].valid /\ UNCHANGED <<credFile, credTemp, credCrossed, credLost>>
      BY <2>2 DEF RefreshToken, KeepHistory
    <3>2. CASE /\ idp[a].rotates /\ Grant(a, {cred[j].held})
               /\ cred' = [cred EXCEPT ![j].pc = "set", ![j].held = Refreshed(@, idp[a].issued + 1)]
      <4>1. Refreshed(cred[j].held, idp[a].issued + 1) = idp[a].issued + 1
        BY <3>0 DEF Refreshed
      <4>2. cred' = [cred EXCEPT ![j] = [cred[j] EXCEPT !.pc = "set", !.held = idp[a].issued + 1]]
        BY <2>0, <3>2, <4>1 DEF CredTypeOK, CredJobs
      <4>3. {cred[j].held} \in SUBSET Nat
        BY <3>0
      <4> QED
        BY <3>1, <3>2, <4>2, <4>3, GrantedIsGood
    <3>3. CASE /\ ~idp[a].rotates
               /\ cred' = [cred EXCEPT ![j].pc = "set", ![j].held = Refreshed(@, 0)]
               /\ idp' = [idp EXCEPT ![a].expired = 0]
      <4>1. Refreshed(cred[j].held, 0) = cred[j].held
        BY DEF Refreshed
      <4>2. cred' = [cred EXCEPT ![j] = [cred[j] EXCEPT !.pc = "set", !.held = cred[j].held]]
        BY <2>0, <3>3, <4>1 DEF CredTypeOK, CredJobs
      <4>3. ~credCrossed => cred[j].held <= idp[a].issued
        BY <3>0, <3>1 DEF CredInv, TokensIssued
      <4>4. [idp[a] EXCEPT !.expired = 0] \in Accounts
        BY <3>0 DEF Accounts
      <4>5. idp' \in [Account -> Accounts]
        BY <2>0, <3>3, <4>4 DEF CredTypeOK
      <4>6. \A b \in Account : /\ idp'[b].issued = idp[b].issued /\ idp'[b].rotates = idp[b].rotates
                               /\ Accepted(b) \subseteq Accepted(b)'
        BY <2>0, <3>3 DEF CredTypeOK, Accounts, Accepted
      <4>7. cred[j].held \in Nat /\ cred[j].held \in idp[Mine(j)].valid /\ ~idp[Mine(j)].rotates
        BY <3>0, <3>1, <3>3
      <4> QED
        BY <3>1, <4>2, <4>3, <4>5, <4>6, <4>7, HoldKeeps
    <3> QED
      BY <2>2, <3>2, <3>3 DEF RefreshToken
  <2>3. ASSUME NEW j \in CredJob, RefreshRefused(j) PROVE CredInv'
    <3>1. /\ Ended(j) \in CredJobs /\ Ended(j).pc = "idle"
          /\ Ended(j).account = Mine(j) /\ Ended(j).process = CredPid(j)
      BY <2>0, EndedType
    <3> QED
      BY <2>3, <3>1, JobLeaves DEF RefreshRefused, Ends, KeepHistory
  <2>4. ASSUME NEW j \in CredJob, Logout(j) PROVE CredInv'
    <3> DEFINE a == Mine(j)
    <3>0. a \in Account /\ cred[j] \in CredJobs /\ idp[a] \in Accounts /\ credFile[a] \in Nat
      BY <2>0, MineType DEF CredTypeOK
    <3>1. cred[j].pc = "idle" /\ UNCHANGED <<credFile, credTemp, credCrossed, credLost>>
      BY <2>4 DEF Logout, KeepHistory
    <3>2. cred' = [cred EXCEPT ![j] = [cred[j] EXCEPT !.pc = "set", !.held = 0]]
      BY <2>0, <2>4 DEF Logout, CredTypeOK, CredJobs
    <3> DEFINE account == [idp[a] EXCEPT !.valid = idp[a].valid \ {credFile[a]},
                                         !.revoked = idp[a].revoked \cup {credFile[a]}]
    <3>3. UNCHANGED idp \/ idp' = [idp EXCEPT ![a] = account]
      BY <2>0, <2>4 DEF Logout, CredTypeOK, Accounts
    <3>4. account \in Accounts
      BY <3>0 DEF Accounts
    <3>5. /\ account.issued = idp[a].issued /\ account.rotates = idp[a].rotates
          /\ idp[a].valid \cup idp[a].revoked \subseteq account.valid \cup account.revoked
      BY <3>0 DEF Accounts
    <3> HIDE DEF account
    <3>6. /\ idp' \in [Account -> Accounts]
          /\ \A b \in Account : /\ idp'[b].issued = idp[b].issued /\ idp'[b].rotates = idp[b].rotates
                                 /\ Accepted(b) \subseteq Accepted(b)'
      <4>1. CASE UNCHANGED idp
        BY <2>0, <4>1 DEF CredTypeOK, Accepted
      <4>2. CASE idp' = [idp EXCEPT ![a] = account]
        <5>1. idp'[a] = account /\ \A b \in Account \ {a} : idp'[b] = idp[b]
          BY <2>0, <3>0, <4>2 DEF CredTypeOK
        <5> QED
          BY <2>0, <3>4, <3>5, <4>2, <5>1 DEF CredTypeOK, Accepted
      <4> QED
        BY <3>3, <4>1, <4>2
    <3> QED
      BY <3>1, <3>2, <3>6, HoldKeeps
  <2>5. ASSUME NEW a \in Account, ExpireAccess(a) PROVE CredInv'
    <3>1. /\ idp' = [idp EXCEPT ![a].expired = idp[a].issued]
          /\ UNCHANGED <<credFile, credTemp, cred, credCrossed, credLost>>
      BY <2>5 DEF ExpireAccess, KeepHistory
    <3>2. [idp[a] EXCEPT !.expired = idp[a].issued] \in Accounts
      BY <2>0 DEF CredTypeOK, Accounts
    <3>3. idp' \in [Account -> Accounts]
      BY <2>0, <3>1, <3>2 DEF CredTypeOK
    <3>4. \A b \in Account : /\ idp'[b].issued = idp[b].issued /\ idp'[b].rotates = idp[b].rotates
                             /\ idp'[b].valid = idp[b].valid /\ idp'[b].revoked = idp[b].revoked
      BY <2>0, <3>1 DEF CredTypeOK, Accounts
    <3> QED
      BY <3>1, <3>3, <3>4, IdleStepsKeep
  <2>6. CASE UNCHANGED credVars
    BY <2>0, <2>6, IdleStepsKeep DEF credVars, CredTypeOK
  <2> QED
    BY <1>1, <2>1, <2>2, <2>3, <2>4, <2>5, <2>6, GetKeeps, LoadKeeps, WriteKeeps, RenameKeeps, KillKeeps
       DEF CredNext
<1> QED
  BY CredInitInv, <1>1, PTL DEF CredSpec

\* Unless two saves crossed, an account no job works on, and no job lost a token of,
\* has no credential or a refresh token its provider accepts (or the user revoked):
\* any number of processes, accounts and tokens (the credential store's get, set
\* and delete, each a read, a temporary file and a rename).
THEOREM TokensStayUsable == CredSpec => []StoredTokenUsable
<1>1. CredInv => StoredTokenUsable
  <2>1. \A j \in CredJob : Holding(j) => cred[j].pc # "idle"
    BY DEF Holding
  <2> QED
    BY <2>1 DEF CredInv, StaleIsReplaced, StoredTokenUsable, Accepted
<1> QED
  BY <1>1, CredentialInvariance, PTL

-----------------------------------------------------------------------------
(* The action runtime *)

ActPcs == {"idle", "next", "approval", "running", "journaling"}
ActLines == [ids : SUBSET ActionId, whole : BOOLEAN]

ActTypeOK ==
  /\ actPc \in [ActionTask -> ActPcs]
  /\ actTodo \in [ActionTask -> Seq(ActionIntent)]
  /\ actLedger.risk \in Nat
  /\ actRuns \in [ActionId -> Nat]
  /\ actRaced \in [ActionId -> Nat]
  /\ actJournal \in Seq(ActLines)
  /\ actTorn \in BOOLEAN
  /\ actDeaths \in Nat

\* A task in the middle of an action has it in hand, and the policy let it through
\* only with a tool that exists.
Engaged ==
  /\ \A t \in ActionTask :
       actPc[t] \in {"approval", "running", "journaling"} => actTodo[t] # <<>>
  /\ \A t \in InFlight : Tool[Current(t).tool] # NoTool

\* The tasks that have yet to run the action id, if they are let.
Pending(id) ==
  {t \in ActionTask : actPc[t] \in {"approval", "running"} /\ Current(t).id = id}

\* What ran once is cached, or its receipt is being journaled.
RanIsSettled ==
  \A id \in ActionId : actRuns[id] > 0 =>
    \/ Cached(id) # {}
    \/ \E t \in ActionTask : actPc[t] = "journaling" /\ Current(t).id = id

\* So every task that may still run it has raced.
OnceEach == \A id \in ActionId : actRuns[id] + Cardinality(Pending(id)) <= 1 + actRaced[id]

\* There is a last line to be torn, and it is not where a receipt that was
\* returned without a warning is.
TornHasLine == actTorn => actJournal # <<>>

AckedOnDisk ==
  \A id \in actAcked : id \in actWarned \/ \E i \in EndedLines : id \in actJournal[i].ids

ActInv ==
  /\ ActTypeOK /\ Engaged
  /\ RiskOverrunBounded
  /\ RanIsSettled /\ OnceEach
  /\ TornHasLine /\ AckedOnDisk

\* The invariant says what the property does.
LEMMA ActInvAccounts == ActInv => ActionsAccounted
<1> SUFFICES ASSUME ActInv PROVE ActionsAccounted
  OBVIOUS
<1>1. \A id \in ActionId : IsFiniteSet(Pending(id)) /\ Cardinality(Pending(id)) \in Nat
  <2>1. \A id \in ActionId : Pending(id) \in SUBSET ActionTask
    BY DEF Pending
  <2> QED
    BY <2>1, FS_Subset, FS_CardinalityType, ActionAssumption
<1>2. RunOnceUnlessRaced
  BY <1>1 DEF ActInv, OnceEach, RunOnceUnlessRaced, ActTypeOK
<1>3. ReceiptsOnDisk
  <2>1. ASSUME NEW id \in KeptReceipts PROVE \E i \in EndedLines : id \in actJournal[i].ids
    BY DEF ActInv, AckedOnDisk, KeptReceipts
  <2>2. KeptReceipts \subseteq UNION {actJournal[i].ids : i \in EndedLines}
    BY <2>1
  <2>3. ASSUME EndedLines \cap CorruptLines = {} PROVE KeptReceipts \subseteq LoadedReceipts
    <3>1. JournalLoads
      BY <2>3 DEF JournalLoads, CorruptLines, EndedLines
    <3>2. EndedLines \subseteq DOMAIN actJournal \ CorruptLines
      BY <2>3 DEF EndedLines
    <3> QED
      BY <2>1, <3>1, <3>2 DEF LoadedReceipts
  <2> QED
    BY <2>2, <2>3 DEF ReceiptsOnDisk
<1> QED
  BY <1>2, <1>3 DEF ActionsAccounted, ActInv

\* Current(t) is one of the intents that were submitted.
LEMMA CurrentType ==
  ASSUME ActTypeOK, NEW t \in ActionTask, actTodo[t] # <<>>
  PROVE  Current(t) \in ActionIntent /\ Current(t).id \in ActionId
<1>1. actTodo[t] \in Seq(ActionIntent)
  BY DEF ActTypeOK
<1>2. Head(actTodo[t]) \in ActionIntent
  BY <1>1, HeadTailProperties
<1> QED
  BY <1>2 DEF Current, ActionId

\* The numbers of tasks in flight, of all tasks, and of those that have an id.
LEMMA TaskNumbers ==
  /\ IsFiniteSet(ActionTask) /\ Cardinality(ActionTask) \in Nat
  /\ \A S \in SUBSET ActionTask : IsFiniteSet(S) /\ Cardinality(S) \in Nat /\ Cardinality(S) <= Cardinality(ActionTask)
  /\ \A S \in SUBSET ActionTask : \A T \in SUBSET S : Cardinality(T) <= Cardinality(S)
  /\ \A S \in SUBSET ActionTask : \A t \in ActionTask :
       /\ Cardinality(S \cup {t}) <= Cardinality(S) + 1
       /\ t \in S => Cardinality(S \ {t}) = Cardinality(S) - 1
<1>1. IsFiniteSet(ActionTask)
  BY ActionAssumption
<1>2. Cardinality(ActionTask) \in Nat
  BY <1>1, FS_CardinalityType
<1>3. \A S \in SUBSET ActionTask : IsFiniteSet(S) /\ Cardinality(S) <= Cardinality(ActionTask)
  BY <1>1, FS_Subset
<1>4. \A S \in SUBSET ActionTask : Cardinality(S) \in Nat
  BY <1>3, FS_CardinalityType
<1>5. \A S \in SUBSET ActionTask : \A T \in SUBSET S : Cardinality(T) <= Cardinality(S)
  BY <1>3, FS_Subset
<1>6. ASSUME NEW S \in SUBSET ActionTask, NEW t \in ActionTask
      PROVE  /\ Cardinality(S \cup {t}) <= Cardinality(S) + 1
             /\ t \in S => Cardinality(S \ {t}) = Cardinality(S) - 1
  <2>1. Cardinality(S \cup {t}) = IF t \in S THEN Cardinality(S) ELSE Cardinality(S) + 1
    BY <1>3, FS_AddElement
  <2>2. Cardinality(S \ {t}) = IF t \in S THEN Cardinality(S) - 1 ELSE Cardinality(S)
    BY <1>3, FS_RemoveElement
  <2> QED
    BY <1>4, <2>1, <2>2
<1> QED
  BY <1>1, <1>2, <1>3, <1>4, <1>5, <1>6

\* A product of natural numbers is one, and grows with its factors.
LEMMA Products ==
  ASSUME NEW m \in Nat, NEW k \in Nat
  PROVE  /\ m * k \in Nat /\ m * (k + 1) = m * k + m
         /\ \A n \in Nat : k <= n => m * k <= m * n
<1>1. m * k \in Nat /\ m * (k + 1) = m * k + m
  OBVIOUS
<1>2. ASSUME NEW n \in Nat, k <= n PROVE m * k <= m * n
  <2>1. PICK d \in Nat : n = k + d
    <3>1. n - k \in Nat /\ n = k + (n - k)
      BY <1>2
    <3> QED
      BY <3>1
  <2>2. m * n = m * k + m * d
    BY <2>1
  <2>3. m * d \in Nat /\ m * k \in Nat
    BY <2>1
  <2> QED
    BY <2>2, <2>3
<1> QED
  BY <1>1, <1>2

\* A task that moves to another point of its course.
LEMMA TaskMoves ==
  ASSUME ActTypeOK, NEW t \in ActionTask, NEW x \in ActPcs, actPc' = [actPc EXCEPT ![t] = x]
  PROVE  /\ actPc' \in [ActionTask -> ActPcs] /\ actPc'[t] = x
         /\ \A q \in ActionTask \ {t} : actPc'[q] = actPc[q]
BY DEF ActTypeOK

\* The risk that is on record, and what the tasks in flight may add.
LEMMA RiskKept ==
  ASSUME ActTypeOK, RiskOverrunBounded, actLedger'.risk \in Nat,
         \/ actLedger'.risk <= actLedger.risk /\ InFlight' \subseteq InFlight
         \/ actLedger'.risk <= actLedger.risk + MaxObserved /\ \E t \in InFlight : InFlight' = InFlight \ {t}
         \/ actLedger'.risk <= ActionConfig.maxRisk
  PROVE  RiskOverrunBounded'
<1> DEFINE k == Cardinality(InFlight)
           l == Cardinality(InFlight')
           n == Cardinality(ActionTask)
<1>1. MaxObserved \in Nat /\ ActionConfig.maxRisk \in Nat /\ actLedger.risk \in Nat
  BY ActionAssumption DEF ActTypeOK
<1>2. InFlight \in SUBSET ActionTask /\ InFlight' \in SUBSET ActionTask
  BY DEF InFlight
<1>3. k \in Nat /\ l \in Nat /\ n \in Nat /\ l <= n
  BY <1>2, TaskNumbers
<1>4. actLedger.risk + MaxObserved * k <= ActionConfig.maxRisk + MaxObserved * n
  BY DEF RiskOverrunBounded
<1>5. SUFFICES actLedger'.risk + MaxObserved * l <= ActionConfig.maxRisk + MaxObserved * n
  BY DEF RiskOverrunBounded
<1>6. MaxObserved * k \in Nat /\ MaxObserved * l \in Nat /\ MaxObserved * n \in Nat
      /\ MaxObserved * l <= MaxObserved * n
  BY <1>1, <1>3, Products
<1>7. CASE actLedger'.risk <= actLedger.risk /\ InFlight' \subseteq InFlight
  <2>1. l <= k
    BY <1>2, <1>7, TaskNumbers
  <2> HIDE DEF k, l, n
  <2>2. MaxObserved * l <= MaxObserved * k
    BY <1>1, <1>3, <2>1, Products
  <2> QED
    BY <1>1, <1>4, <1>6, <1>7, <2>2
<1>8. CASE actLedger'.risk <= actLedger.risk + MaxObserved /\ \E t \in InFlight : InFlight' = InFlight \ {t}
  <2>1. l = k - 1
    <3>1. PICK t \in InFlight : InFlight' = InFlight \ {t}
      BY <1>8
    <3>2. t \in ActionTask
      BY <1>2
    <3> QED
      BY <1>2, <3>1, <3>2, TaskNumbers
  <2> HIDE DEF k, l, n
  <2>2. k = l + 1
    BY <1>3, <2>1
  <2>3. MaxObserved * k = MaxObserved * l + MaxObserved
    BY <1>1, <1>3, <2>2, Products
  <2> QED
    BY <1>1, <1>4, <1>6, <1>8, <2>3
<1>9. CASE actLedger'.risk <= ActionConfig.maxRisk
  <2> HIDE DEF k, l, n
  <2> QED
    BY <1>1, <1>6, <1>9
<1> QED
  BY <1>7, <1>8, <1>9

\* Nobody comes to have an id to run, and nothing runs.
LEMMA OnceKept ==
  ASSUME ActTypeOK, OnceEach, UNCHANGED <<actRuns, actRaced>>,
         \A id \in ActionId : Pending(id)' \subseteq Pending(id)
  PROVE  OnceEach'
<1> SUFFICES ASSUME NEW id \in ActionId
             PROVE  actRuns'[id] + Cardinality(Pending(id)') <= 1 + actRaced'[id]
  BY DEF OnceEach
<1>1. Pending(id) \in SUBSET ActionTask /\ Pending(id)' \in SUBSET Pending(id)
  BY DEF Pending
<1>2. Cardinality(Pending(id)) \in Nat /\ Cardinality(Pending(id)') \in Nat
      /\ Cardinality(Pending(id)') <= Cardinality(Pending(id))
  BY <1>1, TaskNumbers
<1>3. actRuns[id] \in Nat /\ actRaced[id] \in Nat
  BY DEF ActTypeOK
<1>4. actRuns[id] + Cardinality(Pending(id)) <= 1 + actRaced[id]
  BY DEF OnceEach
<1> QED
  BY <1>2, <1>3, <1>4

\* What is on disk stays what it is.
LEMMA DiskKept ==
  ASSUME ActTypeOK, TornHasLine, AckedOnDisk, UNCHANGED <<diskVars, actDeaths>>
  PROVE  /\ actJournal' \in Seq(ActLines) /\ actTorn' \in BOOLEAN /\ actDeaths' \in Nat
         /\ TornHasLine' /\ AckedOnDisk'
BY DEF ActTypeOK, TornHasLine, AckedOnDisk, EndedLines, diskVars

\* A task that begins, goes on to its next intent or leaves, with no receipt to
\* journal.
LEMMA QuietTask ==
  ASSUME ActInv, NEW t \in ActionTask, actPc[t] # "journaling",
         actPc' \in [ActionTask -> ActPcs], actTodo' \in [ActionTask -> Seq(ActionIntent)],
         actPc'[t] \in {"idle", "next"},
         \A q \in ActionTask \ {t} : actPc'[q] = actPc[q] /\ actTodo'[q] = actTodo[q],
         UNCHANGED <<actReceipts, actLedger, actRuns, actRaced, diskVars, actDeaths>>
  PROVE  ActInv'
<1> USE DEF ActInv
<1>1. ActTypeOK' /\ TornHasLine' /\ AckedOnDisk'
  BY DiskKept DEF ActTypeOK
<1>2. Engaged'
  <2>1. \A q \in ActionTask \ {t} : Current(q)' = Current(q)
    BY DEF Current
  <2>2. \A q \in InFlight' : q \in InFlight \ {t}
    BY DEF InFlight
  <2>3. \A q \in InFlight' : Tool[Current(q)'.tool] # NoTool
    BY <2>1, <2>2 DEF Engaged, InFlight
  <2>4. \A q \in ActionTask :
          actPc'[q] \in {"approval", "running", "journaling"} => actTodo'[q] # <<>>
    BY DEF Engaged
  <2> QED
    BY <2>3, <2>4 DEF Engaged
<1>3. RiskOverrunBounded'
  <2>1. InFlight' \subseteq InFlight
    BY DEF InFlight
  <2>2. actLedger'.risk \in Nat /\ actLedger'.risk <= actLedger.risk
    BY DEF ActTypeOK
  <2> QED
    BY <2>1, <2>2, RiskKept
<1>4. OnceEach'
  <2>1. \A id \in ActionId : Pending(id)' \subseteq Pending(id)
    BY DEF Pending, Current
  <2> QED
    BY <2>1, OnceKept
<1>5. RanIsSettled'
  <2>1. \A id \in ActionId : Cached(id)' = Cached(id) /\ actRuns'[id] = actRuns[id]
    BY DEF Cached
  <2>2. \A q \in ActionTask : actPc[q] = "journaling" => actPc'[q] = "journaling" /\ Current(q)' = Current(q)
    BY DEF Current
  <2> QED
    BY <2>1, <2>2 DEF RanIsSettled
<1> QED
  BY <1>1, <1>2, <1>3, <1>4, <1>5

\* A task whose intent is settled without having run, or that the user lets run.
LEMMA DecidedTask ==
  ASSUME ActInv, NEW t \in ActionTask, actTodo[t] # <<>>,
         NEW x \in {"journaling", "running"}, x = "running" => actPc[t] = "approval",
         actPc' = [actPc EXCEPT ![t] = x],
         UNCHANGED <<actTodo, actReceipts, actLedger, actRuns, actRaced, diskVars, actDeaths>>
  PROVE  ActInv'
<1> USE DEF ActInv
<1>0. /\ actPc' \in [ActionTask -> ActPcs] /\ actPc'[t] = x
      /\ \A q \in ActionTask \ {t} : actPc'[q] = actPc[q]
  BY TaskMoves DEF ActPcs
<1>1. ActTypeOK' /\ TornHasLine' /\ AckedOnDisk'
  BY <1>0, DiskKept DEF ActTypeOK
<1>2. \A q \in ActionTask : Current(q)' = Current(q)
  BY DEF Current
<1>3. InFlight' \subseteq InFlight
  BY <1>0 DEF InFlight
<1>4. Engaged'
  <2>1. \A q \in ActionTask :
          actPc'[q] \in {"approval", "running", "journaling"} => actTodo'[q] # <<>>
    BY <1>0 DEF Engaged
  <2>2. \A q \in InFlight' : q \in InFlight /\ q \in ActionTask
    BY <1>3 DEF InFlight
  <2>3. \A q \in InFlight' : Tool[Current(q)'.tool] # NoTool
    BY <1>2, <2>2 DEF Engaged
  <2> QED
    BY <2>1, <2>3 DEF Engaged
<1>5. RiskOverrunBounded'
  <2>1. actLedger'.risk \in Nat /\ actLedger'.risk <= actLedger.risk
    BY DEF ActTypeOK
  <2> QED
    BY <1>3, <2>1, RiskKept
<1>6. OnceEach'
  <2>1. \A id \in ActionId : Pending(id)' \subseteq Pending(id)
    BY <1>0, <1>2 DEF Pending
  <2> QED
    BY <2>1, OnceKept
<1>7. RanIsSettled'
  <2>1. \A q \in ActionTask : actPc[q] = "journaling" => actPc'[q] = "journaling"
    BY <1>0
  <2> QED
    BY <1>2, <2>1 DEF RanIsSettled, Cached
<1> QED
  BY <1>1, <1>4, <1>5, <1>6, <1>7

\* What the policy lets through is within the risk it allows.
LEMMA LetThrough ==
  ASSUME ActTypeOK, NEW intent \in ActionIntent, Evaluate(intent) # "deny"
  PROVE  Tool[intent.tool] # NoTool /\ actLedger.risk <= ActionConfig.maxRisk
<1>1. Tool[intent.tool] # NoTool
  BY DEF Evaluate
<1>2. ~(ProjectedRisk(intent) > ActionConfig.maxRisk)
  <2> DEFINE tool == Tool[intent.tool]
             used == [files |-> Cardinality(actLedger.changed), lines |-> actLedger.lines]
  <2>1. Disposition(intent, tool, ActionConfig, actMode, used, ProjectedRisk(intent)) # "deny"
    BY <1>1 DEF Evaluate
  <2> HIDE DEF tool, used
  <2>2. CoreRuling(intent, tool, ActionConfig, actMode, used, ProjectedRisk(intent)) # "deny"
    BY <2>1 DEF Disposition
  <2>3. ~CoreDenies(intent, tool, ActionConfig, actMode, used, ProjectedRisk(intent))
    BY <2>2 DEF CoreRuling
  <2> QED
    BY <2>3 DEF CoreDenies
<1>3. Risk(intent.claims) \in Nat
  <2>1. intent.claims \in [EffectClass -> Nat]
    BY ActionAssumption DEF Effects
  <2> QED
    BY <2>1 DEF Risk, EffectClass
<1>4. ActionConfig.maxRisk \in Nat /\ actLedger.risk \in Nat
  BY ActionAssumption DEF ActTypeOK
<1>5. ProjectedRisk(intent) = actLedger.risk + Risk(intent.claims)
  BY DEF ProjectedRisk
<1>6. actLedger.risk <= ActionConfig.maxRisk
  BY <1>2, <1>3, <1>4, <1>5
<1> QED
  BY <1>1, <1>6

\* The policy lets an action through: it was not run, or somebody else is at it.
LEMMA TakenTask ==
  ASSUME ActInv, NEW t \in ActionTask, actPc[t] = "next", actTodo[t] # <<>>,
         Cached(Current(t).id) = {}, Evaluate(Current(t)) # "deny",
         NEW x \in {"approval", "running"}, actPc' = [actPc EXCEPT ![t] = x],
         actRaced' = [actRaced EXCEPT ![Current(t).id] = @ + Cardinality(Executing(Current(t).id))],
         UNCHANGED <<actTodo, actReceipts, actLedger, actRuns, diskVars, actDeaths>>
  PROVE  ActInv'
<1> USE DEF ActInv
<1> DEFINE mine == Current(t).id
<1>0. /\ actPc' \in [ActionTask -> ActPcs] /\ actPc'[t] = x
      /\ \A q \in ActionTask \ {t} : actPc'[q] = actPc[q]
  BY TaskMoves DEF ActPcs
<1>1. Current(t) \in ActionIntent /\ mine \in ActionId
  BY CurrentType
<1>2. \A q \in ActionTask : Current(q)' = Current(q)
  BY DEF Current
<1>3. \A id \in ActionId : Executing(id) \in SUBSET ActionTask /\ Pending(id) \in SUBSET Executing(id)
  BY DEF Executing, Pending
<1>4. \A id \in ActionId : Cardinality(Executing(id)) \in Nat /\ Cardinality(Pending(id)) \in Nat
  <2>1. \A id \in ActionId : Pending(id) \in SUBSET ActionTask
    BY <1>3
  <2> QED
    BY <1>3, <2>1, TaskNumbers
<1> DEFINE waited == Cardinality(Executing(mine))
<1>5. waited \in Nat
  BY <1>1, <1>4
<1>6. actRaced' = [actRaced EXCEPT ![mine] = actRaced[mine] + waited]
  OBVIOUS
<1> HIDE DEF mine, waited
<1>7. /\ actRaced' \in [ActionId -> Nat] /\ actRaced'[mine] = actRaced[mine] + waited
      /\ \A id \in ActionId \ {mine} : actRaced'[id] = actRaced[id]
  <2>1. actRaced \in [ActionId -> Nat] /\ mine \in ActionId
    BY <1>1 DEF ActTypeOK
  <2>2. actRaced[mine] + waited \in Nat
    BY <1>5, <2>1
  <2> QED
    BY <1>6, <2>1, <2>2
<1>8. ActTypeOK' /\ TornHasLine' /\ AckedOnDisk'
  BY <1>0, <1>7, DiskKept DEF ActTypeOK
<1>9. Tool[Current(t).tool] # NoTool /\ actLedger.risk <= ActionConfig.maxRisk
  BY <1>1, LetThrough
<1>10. Engaged'
  BY <1>0, <1>2, <1>9 DEF Engaged, InFlight
<1>11. RiskOverrunBounded'
  <2>1. actLedger'.risk \in Nat /\ actLedger'.risk <= ActionConfig.maxRisk
    BY <1>9 DEF ActTypeOK
  <2> QED
    BY <2>1, RiskKept
<1>12. RanIsSettled'
  <2>1. \A q \in ActionTask : actPc[q] = "journaling" => actPc'[q] = "journaling"
    BY <1>0
  <2> QED
    BY <1>2, <2>1 DEF RanIsSettled, Cached
<1>13. ASSUME NEW id \in ActionId
       PROVE  actRuns'[id] + Cardinality(Pending(id)') <= 1 + actRaced'[id]
  <2>1. actRuns[id] \in Nat /\ actRaced[id] \in Nat /\ actRuns' = actRuns
        /\ actRuns[id] + Cardinality(Pending(id)) <= 1 + actRaced[id]
    BY DEF ActTypeOK, OnceEach
  <2>2. CASE id # mine
    <3>1. Pending(id)' = Pending(id)
      BY <1>0, <1>2, <2>2 DEF Pending, mine
    <3> QED
      BY <1>7, <2>1, <2>2, <3>1
  <2>3. CASE id = mine
    <3>1. Pending(id)' = Pending(id) \cup {t}
      BY <1>0, <1>2, <2>3 DEF Pending, mine
    <3>2. Pending(id) \in SUBSET ActionTask
      BY <1>3
    <3>3. Cardinality(Pending(id)') <= Cardinality(Pending(id)) + 1
      BY <3>1, <3>2, TaskNumbers
    <3>4. Cardinality(Pending(id)') \in Nat
      <4>1. Pending(id)' \in SUBSET ActionTask
        BY DEF Pending
      <4> QED
        BY <4>1, TaskNumbers
    <3>5. CASE Executing(id) = {}
      <4>1. Pending(id) = {} /\ waited = 0
        BY <1>3, <2>3, <3>5, FS_EmptySet DEF waited
      <4>2. Cardinality(Pending(id)) = 0
        BY <4>1, FS_EmptySet
      <4>3. ~(actRuns[id] > 0)
        BY <2>3, <3>5 DEF RanIsSettled, Executing, mine
      <4>4. actRuns[id] = 0
        BY <2>1, <4>3
      <4> QED
        BY <1>7, <2>1, <2>3, <3>3, <3>4, <4>1, <4>2, <4>4
    <3>6. CASE Executing(id) # {}
      <4>1. waited # 0
        <5>1. IsFiniteSet(Executing(id))
          BY <1>3, TaskNumbers
        <5> QED
          BY <2>3, <3>6, <5>1, FS_EmptySet DEF waited
      <4>2. waited >= 1
        BY <1>5, <4>1
      <4>3. Cardinality(Pending(id)) \in Nat
        BY <1>4
      <4>4. actRaced'[id] >= actRaced[id] + 1
        BY <1>7, <2>1, <2>3, <4>2, <1>5
      <4>5. actRaced'[id] \in Nat
        BY <1>7
      <4> QED
        BY <2>1, <3>3, <3>4, <4>3, <4>4, <4>5
    <3> QED
      BY <3>5, <3>6
  <2> QED
    BY <2>2, <2>3
<1>14. OnceEach'
  BY <1>13 DEF OnceEach
<1> QED
  BY <1>8, <1>10, <1>11, <1>12, <1>14

\* What a tool did is recorded at most once, and adds no more than any tool does.
LEMMA RecordedRisk ==
  ASSUME ActTypeOK, NEW intent \in ActionIntent, Tool[intent.tool] # NoTool, Record(intent)
  PROVE  actLedger'.risk \in Nat /\ actLedger'.risk <= actLedger.risk + MaxObserved
<1>1. Risk(Tool[intent.tool].observed) \in 0..MaxObserved /\ MaxObserved \in Nat
  BY ActionAssumption
<1>2. actLedger.risk \in Nat
  BY DEF ActTypeOK
<1>3. CASE intent.id \in actLedger.ids
  <2>1. actLedger' = actLedger
    BY <1>3 DEF Record
  <2> QED
    BY <1>1, <1>2, <2>1
<1>4. CASE intent.id \notin actLedger.ids
  <2>1. actLedger'.risk = actLedger.risk + Risk(Tool[intent.tool].observed)
    BY <1>4 DEF Record
  <2> QED
    BY <1>1, <1>2, <2>1
<1> QED
  BY <1>3, <1>4

\* The tool of an action that was let through runs.
LEMMA RunTask ==
  ASSUME ActInv, NEW t \in ActionTask, NEW ok \in BOOLEAN, Run(t, ok)
  PROVE  ActInv'
<1> USE DEF ActInv
<1> DEFINE mine == Current(t).id
<1>0. /\ actPc[t] = "running" /\ actPc' = [actPc EXCEPT ![t] = "journaling"]
      /\ actRuns' = [actRuns EXCEPT ![mine] = actRuns[mine] + 1]
      /\ (IF ok THEN Record(Current(t)) ELSE UNCHANGED actLedger)
      /\ UNCHANGED <<actTodo, actReceipts, diskVars, actDeaths, actRaced>>
  BY DEF Run, Settle
<1>1. /\ actPc' \in [ActionTask -> ActPcs] /\ actPc'[t] = "journaling"
      /\ \A q \in ActionTask \ {t} : actPc'[q] = actPc[q]
  BY <1>0, TaskMoves DEF ActPcs
<1>2. actTodo[t] # <<>> /\ t \in InFlight
  BY <1>0 DEF Engaged, InFlight
<1>3. Current(t) \in ActionIntent /\ mine \in ActionId /\ Tool[Current(t).tool] # NoTool
  BY <1>2, CurrentType DEF Engaged
<1>4. \A q \in ActionTask : Current(q)' = Current(q)
  BY <1>0 DEF Current
<1>5. actLedger.risk \in Nat /\ MaxObserved \in Nat
  BY ActionAssumption DEF ActTypeOK
<1>6. actLedger'.risk \in Nat /\ actLedger'.risk <= actLedger.risk + MaxObserved
  <2>1. CASE ok
    BY <1>0, <1>3, <2>1, RecordedRisk
  <2>2. CASE ~ok
    BY <1>0, <1>5, <2>2
  <2> QED
    BY <2>1, <2>2
<1> HIDE DEF mine
<1>7. /\ actRuns' \in [ActionId -> Nat] /\ actRuns'[mine] = actRuns[mine] + 1
      /\ \A id \in ActionId \ {mine} : actRuns'[id] = actRuns[id]
  <2>1. actRuns \in [ActionId -> Nat] /\ mine \in ActionId
    BY <1>3 DEF ActTypeOK
  <2>2. actRuns[mine] + 1 \in Nat
    BY <2>1
  <2> QED
    BY <1>0, <2>1, <2>2
<1>8. ActTypeOK' /\ TornHasLine' /\ AckedOnDisk'
  BY <1>0, <1>1, <1>6, <1>7, DiskKept DEF ActTypeOK
<1>9. InFlight' = InFlight \ {t}
  BY <1>1 DEF InFlight
<1>10. Engaged'
  <2>1. \A q \in ActionTask :
          actPc'[q] \in {"approval", "running", "journaling"} => actTodo'[q] # <<>>
    BY <1>0, <1>1, <1>2 DEF Engaged
  <2>2. \A q \in InFlight' : q \in InFlight /\ q \in ActionTask
    BY <1>9 DEF InFlight
  <2>3. \A q \in InFlight' : Tool[Current(q)'.tool] # NoTool
    BY <1>4, <2>2 DEF Engaged
  <2> QED
    BY <2>1, <2>3 DEF Engaged
<1>11. RiskOverrunBounded'
  BY <1>2, <1>6, <1>9, RiskKept
<1>12. RanIsSettled'
  <2>1. ASSUME NEW id \in ActionId, actRuns'[id] > 0
        PROVE  Cached(id)' # {} \/ \E q \in ActionTask : actPc'[q] = "journaling" /\ Current(q)'.id = id
    <3>1. CASE id = mine
      BY <1>1, <1>4, <3>1 DEF mine
    <3>2. CASE id # mine
      <4>1. Cached(id) # {} \/ \E q \in ActionTask : actPc[q] = "journaling" /\ Current(q).id = id
        BY <1>7, <2>1, <3>2 DEF RanIsSettled
      <4>2. Cached(id)' = Cached(id)
        BY <1>0 DEF Cached
      <4>3. \A q \in ActionTask : actPc[q] = "journaling" => actPc'[q] = "journaling"
        BY <1>1
      <4> QED
        BY <1>4, <4>1, <4>2, <4>3
    <3> QED
      BY <3>1, <3>2
  <2> QED
    BY <2>1 DEF RanIsSettled
<1>13. ASSUME NEW id \in ActionId
       PROVE  actRuns'[id] + Cardinality(Pending(id)') <= 1 + actRaced'[id]
  <2>1. actRuns[id] \in Nat /\ actRaced[id] \in Nat /\ actRaced' = actRaced
        /\ actRuns[id] + Cardinality(Pending(id)) <= 1 + actRaced[id]
    BY <1>0 DEF ActTypeOK, OnceEach
  <2>2. Pending(id) \in SUBSET ActionTask
    BY DEF Pending
  <2>3. Cardinality(Pending(id)) \in Nat
    BY <2>2, TaskNumbers
  <2>4. CASE id # mine
    <3>1. Pending(id)' = Pending(id)
      BY <1>0, <1>1, <1>4, <2>4 DEF Pending, mine
    <3> QED
      BY <1>7, <2>1, <2>4, <3>1
  <2>5. CASE id = mine
    <3>1. t \in Pending(id) /\ Pending(id)' = Pending(id) \ {t}
      BY <1>0, <1>1, <1>4, <2>5 DEF Pending, mine
    <3>2. Cardinality(Pending(id)') = Cardinality(Pending(id)) - 1
      BY <2>2, <3>1, TaskNumbers
    <3> QED
      BY <1>7, <2>1, <2>3, <2>5, <3>2
  <2> QED
    BY <2>4, <2>5
<1>14. OnceEach'
  BY <1>13 DEF OnceEach
<1> QED
  BY <1>8, <1>10, <1>11, <1>12, <1>14

\* Text that is appended takes nothing from the lines that have a newline, and
\* has one itself if it ends in one.
LEMMA TextAppended ==
  ASSUME ActTypeOK, TornHasLine, NEW ids \in SUBSET ActionId, NEW newline \in BOOLEAN,
         AppendText(ids, newline)
  PROVE  /\ actJournal' \in Seq(ActLines) /\ actTorn' \in BOOLEAN /\ TornHasLine'
         /\ newline => \E i \in EndedLines' : ids \subseteq actJournal'[i].ids
         /\ \A i \in EndedLines : i \in EndedLines' /\ actJournal[i].ids \subseteq actJournal'[i].ids
<1>0. actJournal \in Seq(ActLines) /\ DOMAIN actJournal = 1..Len(actJournal) /\ Len(actJournal) \in Nat
  BY DEF ActTypeOK
<1>1. actTorn' = ~newline
  BY DEF AppendText
<1>2. CASE actTorn
  <2> DEFINE n == Len(actJournal)
             line == [ids |-> actJournal[n].ids \cup ids, whole |-> FALSE]
  <2>1. n \in DOMAIN actJournal /\ actJournal[n] \in ActLines
    BY <1>0, <1>2 DEF TornHasLine
  <2>2. actJournal' = [actJournal EXCEPT ![n] = line]
    BY <1>2 DEF AppendText
  <2>3. line \in ActLines /\ ids \subseteq line.ids /\ actJournal[n].ids \subseteq line.ids
    BY <2>1 DEF ActLines
  <2> HIDE DEF line
  <2>4. /\ actJournal' \in Seq(ActLines) /\ DOMAIN actJournal' = DOMAIN actJournal
        /\ Len(actJournal') = n
        /\ actJournal'[n] = line /\ \A i \in DOMAIN actJournal \ {n} : actJournal'[i] = actJournal[i]
    BY <1>0, <2>1, <2>2, <2>3
  <2>5. EndedLines = DOMAIN actJournal \ {n}
        /\ EndedLines' = DOMAIN actJournal \ (IF newline THEN {} ELSE {n})
    BY <1>1, <1>2, <2>4 DEF EndedLines
  <2>6. actJournal' # <<>>
    BY <1>0, <2>1, <2>4
  <2>7. newline => n \in EndedLines'
    BY <2>1, <2>5
  <2>8. \A i \in EndedLines : i \in EndedLines' /\ actJournal[i].ids \subseteq actJournal'[i].ids
    BY <2>4, <2>5
  <2> HIDE DEF n
  <2> QED
    BY <1>1, <2>3, <2>4, <2>6, <2>7, <2>8 DEF TornHasLine
<1>3. CASE ~actTorn
  <2> DEFINE n == Len(actJournal) + 1
             line == [ids |-> ids, whole |-> ids # {}]
  <2>1. actJournal' = Append(actJournal, line)
    BY <1>3 DEF AppendText
  <2>2. line \in ActLines /\ ids \subseteq line.ids
    BY DEF ActLines
  <2> HIDE DEF line
  <2>3. /\ actJournal' \in Seq(ActLines) /\ DOMAIN actJournal' = 1..n /\ Len(actJournal') = n
        /\ \A i \in DOMAIN actJournal : actJournal'[i] = actJournal[i]
        /\ actJournal'[n] = line
    BY <1>0, <2>1, <2>2, AppendProperties
  <2>4. n \in DOMAIN actJournal' /\ \A i \in DOMAIN actJournal : i \in DOMAIN actJournal' /\ i # n
    BY <1>0, <2>3
  <2>5. EndedLines = DOMAIN actJournal
        /\ EndedLines' = DOMAIN actJournal' \ (IF newline THEN {} ELSE {n})
    BY <1>1, <1>3, <2>3 DEF EndedLines
  <2>6. actJournal' # <<>>
    BY <1>0, <2>3
  <2>7. newline => n \in EndedLines'
    BY <2>4, <2>5
  <2>8. \A i \in EndedLines : i \in EndedLines' /\ actJournal[i].ids \subseteq actJournal'[i].ids
    BY <2>3, <2>4, <2>5
  <2> HIDE DEF n
  <2> QED
    BY <1>1, <2>2, <2>3, <2>6, <2>7, <2>8 DEF TornHasLine
<1> QED
  BY <1>2, <1>3

\* An append that fails or dies loses nothing that was acknowledged either.
LEMMA AppendCutKeeps ==
  ASSUME ActTypeOK, TornHasLine, NEW id \in ActionId, AppendCut(id)
  PROVE  /\ actJournal' \in Seq(ActLines) /\ actTorn' \in BOOLEAN /\ TornHasLine'
         /\ \A i \in EndedLines : i \in EndedLines' /\ actJournal[i].ids \subseteq actJournal'[i].ids
<1>1. CASE UNCHANGED <<actJournal, actTorn>>
  BY <1>1 DEF ActTypeOK, TornHasLine, EndedLines
<1>2. {} \in SUBSET ActionId /\ {id} \in SUBSET ActionId /\ TRUE \in BOOLEAN /\ FALSE \in BOOLEAN
  OBVIOUS
<1>3. CASE AppendText({}, FALSE)
  BY <1>2, <1>3, TextAppended
<1>4. CASE AppendText({id}, FALSE)
  BY <1>2, <1>4, TextAppended
<1>5. CASE AppendText({id}, TRUE)
  BY <1>2, <1>5, TextAppended
<1> QED
  BY <1>1, <1>3, <1>4, <1>5 DEF AppendCut, WriteLine

\* A receipt is journaled, or not, and cached.
LEMMA JournalTask ==
  ASSUME ActInv, NEW t \in ActionTask, NEW ok \in BOOLEAN, Journal(t, ok)
  PROVE  ActInv'
<1> USE DEF ActInv
<1> DEFINE mine == Current(t).id
<1>0. /\ actPc[t] = "journaling" /\ actPc' = [actPc EXCEPT ![t] = "next"]
      /\ actTodo' = [actTodo EXCEPT ![t] = Tail(actTodo[t])]
      /\ Cache(t) /\ actAcked' = actAcked \cup {mine}
      /\ UNCHANGED <<actLedger, actDeaths, actRuns, actRaced>>
      /\ IF ok THEN WriteLine(mine) /\ UNCHANGED actWarned
               ELSE AppendCut(mine) /\ actWarned' = actWarned \cup {mine}
  BY DEF Journal
<1>1. /\ actPc' \in [ActionTask -> ActPcs] /\ actPc'[t] = "next"
      /\ \A q \in ActionTask \ {t} : actPc'[q] = actPc[q]
  BY <1>0, TaskMoves DEF ActPcs
<1>2. actTodo[t] # <<>> /\ mine \in ActionId
  BY <1>0, CurrentType DEF Engaged
<1>3. /\ actTodo' \in [ActionTask -> Seq(ActionIntent)]
      /\ \A q \in ActionTask \ {t} : actTodo'[q] = actTodo[q]
  <2>1. actTodo \in [ActionTask -> Seq(ActionIntent)]
    BY DEF ActTypeOK
  <2>2. Tail(actTodo[t]) \in Seq(ActionIntent)
    BY <1>2, <2>1, HeadTailProperties
  <2> QED
    BY <1>0, <2>1, <2>2
<1>4. \A q \in ActionTask \ {t} : Current(q)' = Current(q)
  BY <1>3 DEF Current
<1> HIDE DEF mine
<1>5. actJournal' \in Seq(ActLines) /\ actTorn' \in BOOLEAN /\ TornHasLine' /\ AckedOnDisk'
  <2>1. CASE ok
    <3>1. WriteLine(mine) /\ actWarned' = actWarned
      BY <1>0, <2>1
    <3>2. {mine} \in SUBSET ActionId /\ TRUE \in BOOLEAN /\ AppendText({mine}, TRUE)
      BY <1>2, <3>1 DEF WriteLine
    <3>3. /\ actJournal' \in Seq(ActLines) /\ actTorn' \in BOOLEAN /\ TornHasLine'
          /\ \E i \in EndedLines' : mine \in actJournal'[i].ids
          /\ \A i \in EndedLines : i \in EndedLines' /\ actJournal[i].ids \subseteq actJournal'[i].ids
      BY <3>2, TextAppended
    <3>4. AckedOnDisk'
      BY <1>0, <3>1, <3>3 DEF AckedOnDisk
    <3> QED
      BY <3>3, <3>4
  <2>2. CASE ~ok
    <3>1. AppendCut(mine) /\ actWarned' = actWarned \cup {mine}
      BY <1>0, <2>2
    <3>2. /\ actJournal' \in Seq(ActLines) /\ actTorn' \in BOOLEAN /\ TornHasLine'
          /\ \A i \in EndedLines : i \in EndedLines' /\ actJournal[i].ids \subseteq actJournal'[i].ids
      BY <1>2, <3>1, AppendCutKeeps
    <3>3. AckedOnDisk'
      BY <1>0, <3>1, <3>2 DEF AckedOnDisk
    <3> QED
      BY <3>2, <3>3
  <2> QED
    BY <2>1, <2>2
<1>6. ActTypeOK'
  BY <1>0, <1>1, <1>3, <1>5 DEF ActTypeOK
<1>7. InFlight' \subseteq InFlight \ {t}
  BY <1>1 DEF InFlight
<1>8. Engaged'
  <2>1. \A q \in ActionTask :
          actPc'[q] \in {"approval", "running", "journaling"} => actTodo'[q] # <<>>
    BY <1>1, <1>3 DEF Engaged
  <2>2. \A q \in InFlight' : q \in InFlight \ {t} /\ q \in ActionTask
    BY <1>7 DEF InFlight
  <2>3. \A q \in InFlight' : Tool[Current(q)'.tool] # NoTool
    BY <1>4, <2>2 DEF Engaged
  <2> QED
    BY <2>1, <2>3 DEF Engaged
<1>9. RiskOverrunBounded'
  <2>1. actLedger'.risk \in Nat /\ actLedger'.risk <= actLedger.risk /\ InFlight' \subseteq InFlight
    BY <1>0, <1>7 DEF ActTypeOK
  <2> QED
    BY <2>1, RiskKept
<1>10. OnceEach'
  <2>1. \A id \in ActionId : Pending(id)' \subseteq Pending(id)
    BY <1>1, <1>4 DEF Pending
  <2> QED
    BY <1>0, <2>1, OnceKept
<1>11. RanIsSettled'
  <2>1. /\ \E e \in actReceipts' : e.intent.id = mine
        /\ \A id \in ActionId : Cached(id) # {} => Cached(id)' # {}
    <3> DEFINE entry == [intent |-> Current(t), status |-> actOutcome[t]]
    <3>1. actReceipts' = (actReceipts \ Cached(mine)) \cup {entry}
      BY <1>0 DEF Cache, mine
    <3>2. entry.intent.id = mine
      BY DEF mine
    <3> HIDE DEF entry
    <3>3. entry \in actReceipts'
      BY <3>1
    <3>4. \A id \in ActionId : id # mine => Cached(id) \subseteq Cached(id)'
      BY <3>1 DEF Cached
    <3>5. \A id \in ActionId : id = mine => entry \in Cached(id)'
      BY <3>2, <3>3 DEF Cached
    <3> QED
      BY <3>2, <3>3, <3>4, <3>5
  <2>2. \A q \in ActionTask \ {t} : actPc[q] = "journaling" => actPc'[q] = "journaling"
    BY <1>1
  <2>3. ASSUME NEW id \in ActionId, actRuns'[id] > 0
        PROVE  Cached(id)' # {} \/ \E q \in ActionTask : actPc'[q] = "journaling" /\ Current(q)'.id = id
    <3>1. Cached(id) # {} \/ \E q \in ActionTask : actPc[q] = "journaling" /\ Current(q).id = id
      BY <1>0, <2>3 DEF RanIsSettled
    <3>2. CASE id = mine
      BY <2>1, <3>2 DEF Cached
    <3>3. CASE id # mine
      <4>1. ASSUME NEW q \in ActionTask, actPc[q] = "journaling", Current(q).id = id
            PROVE  actPc'[q] = "journaling" /\ Current(q)'.id = id
        <5>1. q # t
          BY <3>3, <4>1 DEF mine
        <5> QED
          BY <1>4, <2>2, <4>1, <5>1
      <4> QED
        BY <2>1, <3>1, <4>1
    <3> QED
      BY <3>2, <3>3
  <2> QED
    BY <2>3 DEF RanIsSettled
<1> QED
  BY <1>5, <1>6, <1>8, <1>9, <1>10, <1>11

\* The process dies with everything but what is on disk.
LEMMA DieKeeps == ASSUME ActInv, Die PROVE ActInv'
<1> USE DEF ActInv
<1>0. /\ actDeaths' = actDeaths + 1
      /\ actPc' = [t \in ActionTask |-> "idle"] /\ actTodo' = [t \in ActionTask |-> <<>>]
      /\ actLedger' = EmptyLedger /\ actRuns' = [id \in ActionId |-> 0]
      /\ actRaced' = [id \in ActionId |-> 0] /\ UNCHANGED <<actWarned, actAcked>>
  BY DEF Die
<1>1. actDeaths \in Nat /\ actLedger'.risk = 0 /\ ActionConfig.maxRisk \in Nat
  BY <1>0, ActionAssumption DEF EmptyLedger, ActTypeOK
<1>2. actJournal' \in Seq(ActLines) /\ actTorn' \in BOOLEAN /\ TornHasLine' /\ AckedOnDisk'
  <2>1. CASE UNCHANGED <<actJournal, actTorn>>
    BY <1>0, <2>1 DEF ActTypeOK, TornHasLine, AckedOnDisk, EndedLines
  <2>2. ASSUME NEW t \in ActionTask, actPc[t] = "journaling", AppendCut(Current(t).id)
        PROVE  actJournal' \in Seq(ActLines) /\ actTorn' \in BOOLEAN /\ TornHasLine' /\ AckedOnDisk'
    <3>1. Current(t).id \in ActionId
      BY <2>2, CurrentType DEF Engaged
    <3>2. /\ actJournal' \in Seq(ActLines) /\ actTorn' \in BOOLEAN /\ TornHasLine'
          /\ \A i \in EndedLines : i \in EndedLines' /\ actJournal[i].ids \subseteq actJournal'[i].ids
      BY <2>2, <3>1, AppendCutKeeps
    <3>3. AckedOnDisk'
      BY <1>0, <3>2 DEF AckedOnDisk
    <3> QED
      BY <3>2, <3>3
  <2> QED
    BY <2>1, <2>2 DEF Die
<1>3. ActTypeOK'
  <2>1. <<>> \in Seq(ActionIntent)
    OBVIOUS
  <2> QED
    BY <1>0, <1>1, <1>2, <2>1 DEF ActTypeOK, ActPcs
<1>4. InFlight' = {}
  BY <1>0 DEF InFlight
<1>5. Engaged'
  BY <1>0, <1>4 DEF Engaged
<1>6. RiskOverrunBounded'
  BY <1>1, RiskKept
<1>7. RanIsSettled'
  BY <1>0 DEF RanIsSettled
<1>8. OnceEach'
  <2>1. \A id \in ActionId : Pending(id)' = {}
    BY <1>0 DEF Pending
  <2>2. Cardinality({}) = 0
    BY FS_EmptySet
  <2>3. ASSUME NEW id \in ActionId
        PROVE  actRuns'[id] + Cardinality(Pending(id)') <= 1 + actRaced'[id]
    <3>1. actRuns'[id] = 0 /\ actRaced'[id] = 0 /\ Cardinality(Pending(id)') = 0
      BY <1>0, <2>1, <2>2
    <3> QED
      BY <3>1
  <2> QED
    BY <2>3 DEF OnceEach
<1> QED
  BY <1>2, <1>3, <1>5, <1>6, <1>7, <1>8

\* The invariant holds before the first submission.
LEMMA ActInitInv == ActionInit => ActInv
<1> SUFFICES ASSUME ActionInit PROVE ActInv
  OBVIOUS
<1>1. \A t \in ActionTask : actPc[t] = "idle"
  BY DEF ActionInit
<1>2. ActTypeOK
  <2>1. <<>> \in Seq(ActionIntent) /\ <<>> \in Seq(ActLines) /\ EmptyLedger.risk = 0
    BY DEF EmptyLedger
  <2>2. /\ actPc \in [ActionTask -> ActPcs] /\ actTodo \in [ActionTask -> Seq(ActionIntent)]
        /\ actRuns \in [ActionId -> Nat] /\ actRaced \in [ActionId -> Nat]
    BY <2>1 DEF ActionInit, ActPcs
  <2>3. actLedger.risk \in Nat /\ actJournal \in Seq(ActLines) /\ actDeaths \in Nat
    BY <2>1 DEF ActionInit
  <2>4. actTorn \in BOOLEAN
    BY DEF ActionInit
  <2> QED
    BY <2>2, <2>3, <2>4 DEF ActTypeOK
<1>3. InFlight = {} /\ \A id \in ActionId : Pending(id) = {}
  BY <1>1 DEF InFlight, Pending
<1>4. Cardinality({}) = 0 /\ actDeaths = 0 /\ actLedger.risk = 0
  BY FS_EmptySet DEF ActionInit, EmptyLedger
<1>5. RiskOverrunBounded
  <2>1. ActionConfig.maxRisk \in Nat /\ MaxObserved \in Nat /\ Cardinality(ActionTask) \in Nat
    BY ActionAssumption, TaskNumbers
  <2>2. MaxObserved * Cardinality(ActionTask) \in Nat /\ MaxObserved * 0 = 0
    BY <2>1
  <2> QED
    BY <1>3, <1>4, <2>1, <2>2 DEF RiskOverrunBounded
<1>6. OnceEach
  <2>1. ASSUME NEW id \in ActionId
        PROVE  actRuns[id] + Cardinality(Pending(id)) <= 1 + actRaced[id]
    <3>1. actRuns[id] = 0 /\ actRaced[id] = 0 /\ Cardinality(Pending(id)) = 0
      BY <1>3, <1>4 DEF ActionInit
    <3> QED
      BY <3>1
  <2> QED
    BY <2>1 DEF OnceEach
<1>7. RanIsSettled /\ Engaged
  BY <1>1, <1>3 DEF ActionInit, RanIsSettled, Engaged
<1>8. TornHasLine /\ AckedOnDisk
  BY DEF ActionInit, TornHasLine, AckedOnDisk
<1> QED
  BY <1>2, <1>5, <1>6, <1>7, <1>8 DEF ActInv

\* Every submission, decision, answer, run, receipt and death keeps the invariant.
THEOREM ActionInvariance == ActionSpec => []ActInv
<1>1. ASSUME ActInv, [ActionNext]_actionVars PROVE ActInv'
  <2> USE <1>1
  <2>0. /\ actPc \in [ActionTask -> ActPcs] /\ actTodo \in [ActionTask -> Seq(ActionIntent)]
    BY DEF ActInv, ActTypeOK
  <2>1. ASSUME NEW t \in ActionTask, NEW list \in ActionLists[t], Submit(t, list) PROVE ActInv'
    <3>1. list \in Seq(ActionIntent)
      BY ActionAssumption
    <3>2. /\ actPc[t] = "idle" /\ actPc' \in [ActionTask -> ActPcs] /\ actPc'[t] = "next"
          /\ actTodo' \in [ActionTask -> Seq(ActionIntent)]
          /\ \A q \in ActionTask \ {t} : actPc'[q] = actPc[q] /\ actTodo'[q] = actTodo[q]
      BY <2>0, <2>1, <3>1 DEF Submit, ActPcs
    <3> QED
      BY <2>1, <3>2, QuietTask DEF Submit
  <2>2. ASSUME NEW t \in ActionTask, Leave(t)
        PROVE  /\ actPc' \in [ActionTask -> ActPcs] /\ actPc'[t] = "idle"
               /\ actTodo' \in [ActionTask -> Seq(ActionIntent)]
               /\ \A q \in ActionTask \ {t} : actPc'[q] = actPc[q] /\ actTodo'[q] = actTodo[q]
    <3>1. <<>> \in Seq(ActionIntent)
      OBVIOUS
    <3> QED
      BY <2>0, <2>2, <3>1 DEF Leave, ActPcs
  <2>3. ASSUME NEW t \in ActionTask, AllDone(t) PROVE ActInv'
    BY <2>2, <2>3, QuietTask DEF AllDone
  <2>4. ASSUME NEW t \in ActionTask, Recall(t) PROVE ActInv'
    <3>1. CASE Leave(t)
      BY <2>2, <2>4, <3>1, QuietTask DEF Recall
    <3>2. CASE actTodo' = [actTodo EXCEPT ![t] = Tail(@)] /\ UNCHANGED actPc
      <4>1. Tail(actTodo[t]) \in Seq(ActionIntent)
        BY <2>0, <2>4, HeadTailProperties DEF Recall
      <4>2. /\ actPc' \in [ActionTask -> ActPcs] /\ actPc'[t] = "next"
            /\ actTodo' \in [ActionTask -> Seq(ActionIntent)]
            /\ \A q \in ActionTask \ {t} : actPc'[q] = actPc[q] /\ actTodo'[q] = actTodo[q]
        BY <2>0, <2>4, <3>2, <4>1 DEF Recall
      <4> QED
        BY <2>4, <4>2, QuietTask DEF Recall
    <3> QED
      BY <2>4, <3>1, <3>2 DEF Recall
  <2>5. ASSUME NEW t \in ActionTask, Take(t) PROVE ActInv'
    <3>1. /\ actPc[t] = "next" /\ actTodo[t] # <<>> /\ Cached(Current(t).id) = {}
          /\ UNCHANGED <<actTodo, actReceipts, actLedger, diskVars, actDeaths, actRuns>>
      BY <2>5 DEF Take
    <3>2. CASE Settle(t, "rejected") /\ UNCHANGED actRaced
      BY <3>1, <3>2, DecidedTask DEF Settle
    <3>3. CASE /\ Evaluate(Current(t)) # "deny"
               /\ actPc' = [actPc EXCEPT ![t] =
                    IF Evaluate(Current(t)) = "grant" THEN "running" ELSE "approval"]
               /\ actRaced' = [actRaced EXCEPT ![Current(t).id] = @ + Cardinality(Executing(Current(t).id))]
      <4>1. PICK x \in {"approval", "running"} : actPc' = [actPc EXCEPT ![t] = x]
        BY <3>3
      <4> QED
        BY <3>1, <3>3, <4>1, TakenTask
    <3> QED
      BY <2>5, <3>2, <3>3 DEF Take
  <2>6. ASSUME NEW t \in ActionTask, NEW answer \in {"yes", "no", "error"}, Approve(t, answer)
        PROVE  ActInv'
    <3>1. /\ actPc[t] = "approval" /\ actTodo[t] # <<>>
          /\ UNCHANGED <<actReceipts, actLedger, diskVars, actDeaths, actRuns, actRaced>>
      BY <2>6 DEF Approve, ActInv, Engaged
    <3>2. CASE actPc' = [actPc EXCEPT ![t] = "running"] /\ UNCHANGED actTodo
      BY <3>1, <3>2, DecidedTask
    <3>3. CASE Settle(t, "rejected") /\ UNCHANGED actTodo
      BY <3>1, <3>3, DecidedTask DEF Settle
    <3>4. CASE Leave(t)
      BY <2>2, <3>1, <3>4, QuietTask
    <3> QED
      BY <2>6, <3>2, <3>3, <3>4 DEF Approve
  <2>7. ASSUME NEW mode \in ActionModes, SetApprovalMode(mode) PROVE ActInv'
    <3>1. UNCHANGED <<actPc, actTodo, actReceipts, actLedger, actRuns, actRaced, diskVars, actDeaths>>
      BY <2>7 DEF SetApprovalMode, taskVars
    <3> QED
      BY <3>1 DEF ActInv, ActTypeOK, Engaged, InFlight, Current, RiskOverrunBounded, RanIsSettled, Cached,
            OnceEach, Pending, TornHasLine, AckedOnDisk, EndedLines, diskVars
  <2>8. CASE UNCHANGED actionVars
    <3>1. UNCHANGED <<actPc, actTodo, actReceipts, actLedger, actRuns, actRaced, diskVars, actDeaths>>
      BY <2>8 DEF actionVars, taskVars
    <3> QED
      BY <3>1 DEF ActInv, ActTypeOK, Engaged, InFlight, Current, RiskOverrunBounded, RanIsSettled, Cached,
            OnceEach, Pending, TornHasLine, AckedOnDisk, EndedLines, diskVars
  <2> QED
    BY <2>1, <2>3, <2>4, <2>5, <2>6, <2>7, <2>8, RunTask, JournalTask, DieKeeps DEF ActionNext
<1> QED
  BY <1>1, ActInitInv, PTL DEF ActionSpec

\* For any number of tasks on one runtime, any lists of intents and any deaths: the
\* risk on record overruns its maximum by no more than one action of each task;
\* no tool runs twice in one life for an action id, but for ids that tasks raced
\* for; the text of a receipt that was returned stays on disk unless a warning said
\* that its append failed, whatever appends were cut; and load returns it as long as
\* nothing was glued to a torn line (local-action-runtime.ts, effect-ledger.ts,
\* receipt-journal.ts).
THEOREM ActionsAreAccounted == ActionSpec => []ActionsAccounted
BY ActionInvariance, ActInvAccounts, PTL

-----------------------------------------------------------------------------
(* The ACP and RPC servers *)

ServedAgents ==
  [sid : Nat, turn : Nat, home : Nat, state : {"idle", "running", "settled", "ended"},
   notified : BOOLEAN, busy : BOOLEAN, aborted : BOOLEAN]
OutLines == [what : {"result", "error", "event", "end", "refused"}, to : Nat, sid : Nat]
RequestIds == Nat \ {0}

SrvTypeOK ==
  /\ srvFront \in {"acp", "rpc"}
  /\ srvSent \in Nat
  /\ srvUnread \in Seq(RequestIds)
  /\ srvLoop \in Nat
  /\ srvQueue \in Seq(RequestIds)
  /\ srvAside \subseteq RequestIds
  /\ srvAgents \in Seq(ServedAgents)
  /\ srvCurrent \in Nat
  /\ srvOut \in Seq(OutLines)

Ids(s) == {s[i] : i \in DOMAIN s}
Rising(s) == \A i, j \in DOMAIN s : i < j => s[i] < s[j]

\* The requests that were read, by where they are known.
Known ==
  {srvLoop} \cup Ids(srvQueue) \cup srvAside \cup {srvOut[i].to : i \in DOMAIN srvOut}
    \cup {srvAgents[a].turn : a \in DOMAIN srvAgents}

\* Requests are read in the order in which they were written.
PipeOrder ==
  /\ Rising(srvUnread)
  /\ \A u \in Ids(srvUnread) : u <= srvSent
  /\ \A k \in Known : k <= srvSent /\ \A u \in Ids(srvUnread) : k < u

Live(a) == srvAgents[a].state \in {"running", "settled"}
OfTurn(i) == srvOut[i].what \in {"event", "end"}
IsAnswer(i) == srvOut[i].what \in {"result", "error"}
Answered(id) == \E k \in DOMAIN srvOut : IsAnswer(k) /\ srvOut[k].to = id

\* ACP: what the loop awaits is no turn, and the map leads to agents that are marked
\* as busy while they are at a turn.
AcpAgents ==
  /\ srvAside = {}
  /\ srvLoop # 0 => Asked(srvLoop) \in {"new", "load", "ask"}
  /\ srvCurrent # NoSid => srvCurrent \in DOMAIN srvSessions
  /\ \A s \in DOMAIN srvSessions : srvSessions[s] \in DOMAIN srvAgents
  /\ \A a \in DOMAIN srvAgents : srvAgents[a].busy <=> srvAgents[a].state # "idle"
  /\ \A i \in DOMAIN srvOut : srvOut[i].what = "end" => Asked(srvOut[i].to) = "prompt"

\* ACP: a turn that was not ended has an answer, no end, and its agent's session.
LiveTurns ==
  \A a \in DOMAIN srvAgents : Live(a) =>
    /\ Asked(srvAgents[a].turn) = "prompt" /\ Answered(srvAgents[a].turn)
    /\ \A b \in DOMAIN srvAgents : Live(b) /\ srvAgents[b].turn = srvAgents[a].turn => b = a
    /\ \A i \in DOMAIN srvOut : srvOut[i].to = srvAgents[a].turn =>
         srvOut[i].what # "end" /\ (OfTurn(i) => srvOut[i].sid = srvAgents[a].sid)

AcpTurns == srvFront = "acp" => AcpAgents /\ LiveTurns

\* RPC: what is chained comes in order behind the request being handled, and that
\* behind what was answered; only the handler of a prompt has a turn.
RpcTurns ==
  srvFront = "rpc" =>
    /\ DOMAIN srvAgents = {1}
    /\ Rising(srvQueue)
    /\ \A q \in Ids(srvQueue) : srvLoop < q
    /\ \A i \in DOMAIN srvOut : Asked(srvOut[i].to) \in Queued /\ srvOut[i].what # "event" =>
         /\ srvLoop # 0 => srvOut[i].to < srvLoop
         /\ \A q \in Ids(srvQueue) : srvOut[i].to < q
    /\ \A id \in srvAside : Asked(id) = "steer"
    /\ RpcAgent.turn # 0 =>
         RpcAgent.turn = srvLoop /\ Asked(srvLoop) = "prompt" /\ RpcAgent.home = RpcAgent.sid

AcpServed ==
  \A i, j \in DOMAIN srvOut :
    /\ srvOut[i].what = "end" /\ srvOut[j].to = srvOut[i].to => j <= i
    /\ OfTurn(i) /\ OfTurn(j) /\ srvOut[j].to = srvOut[i].to => srvOut[j].sid = srvOut[i].sid
    /\ OfTurn(i) => \E k \in DOMAIN srvOut : k < i /\ IsAnswer(k) /\ srvOut[k].to = srvOut[i].to
InOrder(i) == Asked(srvOut[i].to) \in Queued /\ srvOut[i].what # "event"
RpcServed ==
  /\ \A i, j \in DOMAIN srvOut : InOrder(i) /\ InOrder(j) /\ srvOut[i].to < srvOut[j].to => i < j
  /\ RpcAgent.turn # 0 => RpcAgent.home = RpcAgent.sid

ServersInv == SrvTypeOK /\ PipeOrder /\ AcpTurns /\ RpcTurns /\ ServedInTurn

\* The first of a rising sequence is below the rest of it.
LEMMA RisingTail ==
  ASSUME NEW s \in Seq(RequestIds), s # <<>>, Rising(s)
  PROVE  /\ Head(s) \in RequestIds /\ Head(s) \in Ids(s)
         /\ Tail(s) \in Seq(RequestIds) /\ Rising(Tail(s)) /\ Ids(Tail(s)) \subseteq Ids(s)
         /\ \A x \in Ids(Tail(s)) : Head(s) < x
<1>1. /\ Head(s) = s[1] /\ 1 \in DOMAIN s /\ DOMAIN s = 1..Len(s) /\ Len(s) \in Nat
      /\ Tail(s) \in Seq(RequestIds) /\ DOMAIN Tail(s) = 1..(Len(s) - 1)
      /\ \A i \in 1..(Len(s) - 1) : Tail(s)[i] = s[i + 1] /\ i + 1 \in DOMAIN s
  BY HeadTailProperties
<1>2. Rising(Tail(s))
  BY <1>1 DEF Rising
<1>3. Ids(Tail(s)) \subseteq Ids(s)
  BY <1>1 DEF Ids
<1>4. \A x \in Ids(Tail(s)) : Head(s) < x
  <2>1. \A i \in 1..(Len(s) - 1) : s[1] < s[i + 1]
    BY <1>1 DEF Rising
  <2> QED
    BY <1>1, <2>1 DEF Ids
<1> QED
  BY <1>1, <1>2, <1>3, <1>4 DEF Ids

\* A rising sequence goes on with anything above what is in it.
LEMMA RisingAppend ==
  ASSUME NEW s \in Seq(RequestIds), NEW n \in RequestIds
  PROVE  /\ Append(s, n) \in Seq(RequestIds) /\ Ids(Append(s, n)) = Ids(s) \cup {n}
         /\ Rising(s) /\ (\A x \in Ids(s) : x < n) => Rising(Append(s, n))
<1>1. /\ Append(s, n) \in Seq(RequestIds) /\ DOMAIN Append(s, n) = 1..(Len(s) + 1)
      /\ DOMAIN s = 1..Len(s) /\ Len(s) \in Nat
      /\ \A i \in 1..Len(s) : Append(s, n)[i] = s[i]
      /\ Append(s, n)[Len(s) + 1] = n
  BY AppendProperties
<1>2. \A i \in 1..(Len(s) + 1) : i \in 1..Len(s) \/ i = Len(s) + 1
  BY <1>1
<1>3. 1..Len(s) \subseteq 1..(Len(s) + 1) /\ Len(s) + 1 \in 1..(Len(s) + 1)
  BY <1>1
<1>4. Ids(Append(s, n)) = Ids(s) \cup {n}
  BY <1>1, <1>2, <1>3 DEF Ids
<1>5. ASSUME Rising(s), \A x \in Ids(s) : x < n PROVE Rising(Append(s, n))
  <2>1. \A i \in 1..Len(s) : s[i] < n
    BY <1>1, <1>5 DEF Ids
  <2>2. ASSUME NEW i \in 1..(Len(s) + 1), NEW j \in 1..(Len(s) + 1), i < j
        PROVE  Append(s, n)[i] < Append(s, n)[j]
    <3>1. i \in 1..Len(s)
      BY <1>1, <2>2
    <3>2. CASE j \in 1..Len(s)
      BY <1>1, <1>5, <2>2, <3>1, <3>2 DEF Rising
    <3>3. CASE j = Len(s) + 1
      BY <1>1, <2>1, <3>1, <3>3
    <3> QED
      BY <1>2, <3>2, <3>3
  <2> QED
    BY <1>1, <2>2 DEF Rising
<1> QED
  BY <1>1, <1>4, <1>5

\* A line is what it is made of.
LEMMA LineType ==
  ASSUME NEW what \in {"result", "error", "event", "end"}, NEW id \in Nat, NEW sid \in Nat
  PROVE  /\ OutLine(what, id, sid) \in OutLines /\ OutLine(what, id, sid).what = what
         /\ OutLine(what, id, sid).to = id /\ OutLine(what, id, sid).sid = sid
BY DEF OutLine, OutLines

\* A line is written behind the others.
LEMMA LineAdded ==
  ASSUME SrvTypeOK, NEW line \in OutLines, srvOut' = Append(srvOut, line)
  PROVE  /\ srvOut' \in Seq(OutLines)
         /\ DOMAIN srvOut = 1..Len(srvOut) /\ DOMAIN srvOut' = 1..(Len(srvOut) + 1) /\ Len(srvOut) \in Nat
         /\ srvOut'[Len(srvOut) + 1] = line
         /\ \A i \in DOMAIN srvOut : i \in DOMAIN srvOut' /\ srvOut'[i] = srvOut[i]
         /\ \A i \in DOMAIN srvOut' : i \in DOMAIN srvOut \/ i = Len(srvOut) + 1
         /\ {srvOut'[i].to : i \in DOMAIN srvOut'} = {srvOut[i].to : i \in DOMAIN srvOut} \cup {line.to}
<1>1. /\ srvOut' \in Seq(OutLines)
      /\ DOMAIN srvOut = 1..Len(srvOut) /\ DOMAIN srvOut' = 1..(Len(srvOut) + 1) /\ Len(srvOut) \in Nat
      /\ srvOut'[Len(srvOut) + 1] = line
      /\ \A i \in 1..Len(srvOut) : srvOut'[i] = srvOut[i]
  BY AppendProperties DEF SrvTypeOK
<1>2. /\ \A i \in 1..(Len(srvOut) + 1) : i \in 1..Len(srvOut) \/ i = Len(srvOut) + 1
      /\ 1..Len(srvOut) \subseteq 1..(Len(srvOut) + 1) /\ Len(srvOut) + 1 \in 1..(Len(srvOut) + 1)
  BY <1>1
<1> QED
  BY <1>1, <1>2

\* A request is taken out of the pipe and becomes known.
LEMMA PipeReads ==
  ASSUME SrvTypeOK, PipeOrder, srvUnread # <<>>, srvUnread' = Tail(srvUnread), srvSent' = srvSent,
         Known' \subseteq Known \cup {NextUnread, 0}
  PROVE  srvUnread' \in Seq(RequestIds) /\ PipeOrder'
<1>1. /\ Head(srvUnread) \in RequestIds /\ Head(srvUnread) \in Ids(srvUnread)
      /\ Tail(srvUnread) \in Seq(RequestIds) /\ Rising(Tail(srvUnread))
      /\ Ids(Tail(srvUnread)) \subseteq Ids(srvUnread)
      /\ \A x \in Ids(Tail(srvUnread)) : Head(srvUnread) < x
  BY RisingTail DEF SrvTypeOK, PipeOrder
<1>2. srvSent \in Nat /\ \A u \in Ids(srvUnread) : u \in RequestIds /\ 0 < u
  BY DEF SrvTypeOK, Ids, RequestIds
<1>3. \A k \in Known' : k <= srvSent /\ \A u \in Ids(srvUnread') : k < u
  BY <1>1, <1>2 DEF PipeOrder, NextUnread
<1>4. Rising(srvUnread') /\ \A u \in Ids(srvUnread') : u <= srvSent'
  BY <1>1 DEF PipeOrder
<1> QED
  BY <1>1, <1>3, <1>4 DEF PipeOrder

\* Nothing is read.
LEMMA PipeStays ==
  ASSUME SrvTypeOK, PipeOrder, UNCHANGED <<srvUnread, srvSent>>, Known' \subseteq Known \cup {0}
  PROVE  PipeOrder'
<1>1. srvSent \in Nat /\ \A u \in Ids(srvUnread) : u \in RequestIds /\ 0 < u
  BY DEF SrvTypeOK, Ids, RequestIds
<1>2. \A k \in Known' : k <= srvSent /\ \A u \in Ids(srvUnread) : k < u
  BY <1>1 DEF PipeOrder
<1>3. Ids(srvUnread') = Ids(srvUnread) /\ (Rising(srvUnread') <=> Rising(srvUnread)) /\ srvSent' = srvSent
  OBVIOUS
<1> QED
  BY <1>2, <1>3 DEF PipeOrder

\* The property, front end by front end.
LEMMA ServedParts ==
  ServedInTurn <=> /\ \A i \in DOMAIN srvOut : srvOut[i].what # "refused"
                   /\ srvFront = "acp" => AcpServed
                   /\ srvFront = "rpc" => RpcServed
BY DEF ServedInTurn, AcpServed, RpcServed, OfTurn, InOrder, IsAnswer, Answers, Outputs

\* A line of the ACP server: no end of the same turn is before it, what is of the same
\* turn is of the same session, and a turn's line has an answer before it.
LEMMA AcpLine ==
  ASSUME SrvTypeOK, ServedInTurn, srvFront = "acp", srvFront' = srvFront,
         NEW line \in OutLines, srvOut' = Append(srvOut, line), line.what # "refused",
         \A i \in DOMAIN srvOut : srvOut[i].to = line.to =>
           srvOut[i].what # "end" /\ (OfTurn(i) /\ line.what \in {"event", "end"} => srvOut[i].sid = line.sid),
         line.what \in {"event", "end"} => Answered(line.to)
  PROVE  ServedInTurn'
<1> DEFINE n == Len(srvOut) + 1
<1>1. /\ srvOut' \in Seq(OutLines)
      /\ DOMAIN srvOut = 1..Len(srvOut) /\ DOMAIN srvOut' = 1..n /\ Len(srvOut) \in Nat
      /\ srvOut'[n] = line
      /\ \A i \in DOMAIN srvOut : i \in DOMAIN srvOut' /\ srvOut'[i] = srvOut[i]
      /\ \A i \in DOMAIN srvOut' : i \in DOMAIN srvOut \/ i = n
  BY LineAdded
<1>2. n \in Nat /\ \A i \in DOMAIN srvOut : i \in Nat /\ i < n
  BY <1>1
<1> HIDE DEF n
<1>3. AcpServed /\ \A i \in DOMAIN srvOut : srvOut[i].what # "refused"
  BY ServedParts
<1>4. \A i \in DOMAIN srvOut' : srvOut'[i].what # "refused"
  BY <1>1, <1>3
<1>6. ASSUME NEW i \in DOMAIN srvOut', NEW j \in DOMAIN srvOut',
             srvOut'[i].what = "end", srvOut'[j].to = srvOut'[i].to
      PROVE  j <= i
  <2>1. CASE i \in DOMAIN srvOut /\ j \in DOMAIN srvOut
    BY <1>1, <1>3, <1>6, <2>1 DEF AcpServed
  <2>2. CASE i = n
    BY <1>1, <1>2, <2>2
  <2>3. CASE i \in DOMAIN srvOut /\ j = n
    BY <1>1, <1>6, <2>3
  <2> QED
    BY <1>1, <2>1, <2>2, <2>3
<1>7. ASSUME NEW i \in DOMAIN srvOut', NEW j \in DOMAIN srvOut', OfTurn(i)', OfTurn(j)',
             srvOut'[j].to = srvOut'[i].to
      PROVE  srvOut'[j].sid = srvOut'[i].sid
  <2>1. CASE i \in DOMAIN srvOut /\ j \in DOMAIN srvOut
    BY <1>1, <1>3, <1>7, <2>1 DEF AcpServed, OfTurn
  <2>2. CASE i = n /\ j \in DOMAIN srvOut
    BY <1>1, <1>7, <2>2 DEF OfTurn
  <2>3. CASE i \in DOMAIN srvOut /\ j = n
    BY <1>1, <1>7, <2>3 DEF OfTurn
  <2>4. CASE i = n /\ j = n
    BY <2>4
  <2> QED
    BY <1>1, <2>1, <2>2, <2>3, <2>4
<1>8. ASSUME NEW i \in DOMAIN srvOut', OfTurn(i)'
      PROVE  \E k \in DOMAIN srvOut' : k < i /\ IsAnswer(k)' /\ srvOut'[k].to = srvOut'[i].to
  <2>1. CASE i \in DOMAIN srvOut
    <3>1. PICK k \in DOMAIN srvOut : k < i /\ IsAnswer(k) /\ srvOut[k].to = srvOut[i].to
      BY <1>1, <1>3, <1>8, <2>1 DEF AcpServed, OfTurn
    <3> QED
      BY <1>1, <2>1, <3>1 DEF IsAnswer
  <2>2. CASE i = n
    <3>1. PICK k \in DOMAIN srvOut : IsAnswer(k) /\ srvOut[k].to = line.to
      BY <1>1, <1>8, <2>2 DEF OfTurn, Answered
    <3> QED
      BY <1>1, <1>2, <2>2, <3>1 DEF IsAnswer
  <2> QED
    BY <1>1, <2>1, <2>2
<1>9. AcpServed'
  BY <1>6, <1>7, <1>8 DEF AcpServed, OfTurn, IsAnswer
<1>10. srvFront' # "rpc"
  OBVIOUS
<1> QED
  BY <1>4, <1>9, <1>10 DEF ServedInTurn, AcpServed, OfTurn, IsAnswer, Answers, Outputs

\* A line of the RPC server: what was asked in order is answered in order.
LEMMA RpcLine ==
  ASSUME SrvTypeOK, ServedInTurn, srvFront = "rpc", srvFront' = srvFront, srvAsked' = srvAsked,
         NEW line \in OutLines, srvOut' = Append(srvOut, line), line.what # "refused",
         Asked(line.to) \in Queued /\ line.what # "event" =>
           \A i \in DOMAIN srvOut : InOrder(i) => srvOut[i].to <= line.to,
         srvAgents'[1].turn # 0 => srvAgents'[1].home = srvAgents'[1].sid
  PROVE  ServedInTurn'
<1>0. PICK n : n = Len(srvOut) + 1
  OBVIOUS
<1>1. /\ srvOut' \in Seq(OutLines)
      /\ DOMAIN srvOut = 1..Len(srvOut) /\ DOMAIN srvOut' = 1..n /\ Len(srvOut) \in Nat
      /\ srvOut'[n] = line
      /\ \A i \in DOMAIN srvOut : i \in DOMAIN srvOut' /\ srvOut'[i] = srvOut[i]
      /\ \A i \in DOMAIN srvOut' : i \in DOMAIN srvOut \/ i = n
  BY <1>0, LineAdded
<1>2. n \in Nat /\ \A i \in DOMAIN srvOut : i \in Nat /\ i < n
  BY <1>0, <1>1
<1>3. line.to \in Nat /\ \A i \in DOMAIN srvOut : srvOut[i].to \in Nat
  <2>1. line.to \in Nat
    BY DEF OutLines
  <2>2. \A i \in DOMAIN srvOut : srvOut[i] \in OutLines
    BY DEF SrvTypeOK
  <2> QED
    BY <2>1, <2>2 DEF OutLines
<1>4. RpcServed /\ \A i \in DOMAIN srvOut : srvOut[i].what # "refused"
  BY ServedParts
<1>5. \A i \in DOMAIN srvOut' : srvOut'[i].what # "refused"
  BY <1>1, <1>4
<1>6. \A i \in DOMAIN srvOut : InOrder(i)' <=> InOrder(i)
  BY <1>1 DEF InOrder, Asked
<1>7. \A i \in DOMAIN srvOut' : i = n =>
        (InOrder(i)' <=> Asked(line.to) \in Queued /\ line.what # "event")
  BY <1>1 DEF InOrder, Asked
<1>8. ASSUME NEW i \in DOMAIN srvOut', NEW j \in DOMAIN srvOut', InOrder(i)', InOrder(j)',
             srvOut'[i].to < srvOut'[j].to
      PROVE  i < j
  <2>1. CASE i \in DOMAIN srvOut /\ j \in DOMAIN srvOut
    BY <1>1, <1>4, <1>6, <1>8, <2>1 DEF RpcServed
  <2>2. CASE i \in DOMAIN srvOut /\ j = n
    BY <1>2, <2>2
  <2>3. CASE i = n /\ j \in DOMAIN srvOut
    BY <1>1, <1>3, <1>6, <1>7, <1>8, <2>3
  <2>4. CASE i = n /\ j = n
    BY <1>1, <1>3, <1>8, <2>4
  <2> QED
    BY <1>1, <2>1, <2>2, <2>3, <2>4
<1>9. srvFront' # "acp"
  OBVIOUS
<1> QED
  BY <1>5, <1>8, <1>9 DEF ServedInTurn, InOrder, RpcAgent, Asked

\* Nothing is written.
LEMMA NoLine ==
  ASSUME ServedInTurn, UNCHANGED <<srvFront, srvAsked, srvOut>>,
         srvFront = "rpc" => (srvAgents'[1].turn # 0 => srvAgents'[1].home = srvAgents'[1].sid)
  PROVE  ServedInTurn'
BY DEF ServedInTurn, RpcAgent, Asked, Answers, Outputs

\* An agent changes, and the others stay.
LEMMA AgentMoves ==
  ASSUME SrvTypeOK, NEW a \in DOMAIN srvAgents, NEW agent \in ServedAgents,
         srvAgents' = [srvAgents EXCEPT ![a] = agent]
  PROVE  /\ srvAgents' \in Seq(ServedAgents) /\ DOMAIN srvAgents' = DOMAIN srvAgents
         /\ srvAgents'[a] = agent
         /\ \A b \in DOMAIN srvAgents : b # a => srvAgents'[b] = srvAgents[b]
         /\ {srvAgents'[b].turn : b \in DOMAIN srvAgents'}
              \subseteq {srvAgents[b].turn : b \in DOMAIN srvAgents} \cup {agent.turn}
<1>1. /\ srvAgents \in [1..Len(srvAgents) -> ServedAgents] /\ Len(srvAgents) \in Nat
      /\ DOMAIN srvAgents = 1..Len(srvAgents)
  BY DEF SrvTypeOK
<1>2. srvAgents' \in [1..Len(srvAgents) -> ServedAgents]
  BY <1>1
<1>3. srvAgents' \in Seq(ServedAgents)
  BY <1>1, <1>2 DEF Seq
<1> QED
  BY <1>1, <1>3

\* ACP: the turns go on as they are, and nothing is written.
LEMMA LiveStays ==
  ASSUME LiveTurns, UNCHANGED <<srvAsked, srvOut>>,
         \A a \in DOMAIN srvAgents' : Live(a)' =>
           /\ a \in DOMAIN srvAgents /\ Live(a)
           /\ srvAgents'[a].turn = srvAgents[a].turn /\ srvAgents'[a].sid = srvAgents[a].sid
  PROVE  LiveTurns'
BY DEF LiveTurns, OfTurn, IsAnswer, Answered, Asked

\* The same, with a line that is not the end of one of these turns and, if it is a
\* line of a turn, under its agent's session.
LEMMA LiveLine ==
  ASSUME SrvTypeOK, LiveTurns, srvAsked' = srvAsked,
         NEW line \in OutLines, srvOut' = Append(srvOut, line),
         \A a \in DOMAIN srvAgents' : Live(a)' =>
           /\ a \in DOMAIN srvAgents /\ Live(a)
           /\ srvAgents'[a].turn = srvAgents[a].turn /\ srvAgents'[a].sid = srvAgents[a].sid
           /\ line.to = srvAgents[a].turn =>
                line.what # "end" /\ (line.what \in {"event", "end"} => line.sid = srvAgents[a].sid)
  PROVE  LiveTurns'
<1>1. /\ \A i \in DOMAIN srvOut : i \in DOMAIN srvOut' /\ srvOut'[i] = srvOut[i]
      /\ \A i \in DOMAIN srvOut' : i \in DOMAIN srvOut \/ srvOut'[i] = line
  BY LineAdded
<1>2. ASSUME NEW a \in DOMAIN srvAgents', Live(a)'
      PROVE  /\ srvAsked'[srvAgents'[a].turn] = "prompt"
             /\ \E k \in DOMAIN srvOut' : IsAnswer(k)' /\ srvOut'[k].to = srvAgents'[a].turn
             /\ \A i \in DOMAIN srvOut' : srvOut'[i].to = srvAgents'[a].turn =>
                  srvOut'[i].what # "end" /\ (OfTurn(i)' => srvOut'[i].sid = srvAgents'[a].sid)
  <2>1. /\ a \in DOMAIN srvAgents /\ Live(a)
        /\ srvAgents'[a].turn = srvAgents[a].turn /\ srvAgents'[a].sid = srvAgents[a].sid
    BY <1>2
  <2>2. PICK k \in DOMAIN srvOut : IsAnswer(k) /\ srvOut[k].to = srvAgents[a].turn
    BY <2>1 DEF LiveTurns, Answered
  <2>3. ASSUME NEW i \in DOMAIN srvOut', srvOut'[i].to = srvAgents'[a].turn
        PROVE  srvOut'[i].what # "end" /\ (OfTurn(i)' => srvOut'[i].sid = srvAgents'[a].sid)
    <3>1. CASE i \in DOMAIN srvOut
      BY <1>1, <2>1, <2>3, <3>1 DEF LiveTurns, OfTurn
    <3>2. CASE srvOut'[i] = line
      BY <1>2, <2>1, <2>3, <3>2 DEF OfTurn
    <3> QED
      BY <1>1, <3>1, <3>2
  <2> QED
    BY <1>1, <2>1, <2>2, <2>3 DEF LiveTurns, IsAnswer, Asked
<1>3. \A a, b \in DOMAIN srvAgents' : Live(a)' /\ Live(b)' /\ srvAgents'[b].turn = srvAgents'[a].turn => b = a
  BY DEF LiveTurns
<1> QED
  BY <1>2, <1>3 DEF LiveTurns, OfTurn, IsAnswer, Answered, Asked, Live

\* A request that is read is a new one.
LEMMA ReadFresh ==
  ASSUME SrvTypeOK, PipeOrder, srvUnread # <<>>
  PROVE  /\ NextUnread \in RequestIds /\ NextUnread \in Nat /\ 0 < NextUnread
         /\ \A k \in Known : k < NextUnread
         /\ \A i \in DOMAIN srvOut : srvOut[i].to < NextUnread
         /\ \A a \in DOMAIN srvAgents : srvAgents[a].turn < NextUnread
<1>1. Head(srvUnread) \in RequestIds /\ Head(srvUnread) \in Ids(srvUnread)
  BY RisingTail DEF SrvTypeOK, PipeOrder
<1>2. \A k \in Known : k < NextUnread
  BY <1>1 DEF PipeOrder, NextUnread
<1>3. \A i \in DOMAIN srvOut : srvOut[i].to \in Known
  BY DEF Known
<1>4. \A a \in DOMAIN srvAgents : srvAgents[a].turn \in Known
  BY DEF Known
<1> QED
  BY <1>1, <1>2, <1>3, <1>4 DEF NextUnread, RequestIds

\* ACP: a request is answered as soon as it is read, and no turn begins or ends.
LEMMA AcpReplies ==
  ASSUME ServersInv, NEW kinds, AcpReads(kinds), NEW what \in {"result", "error"},
         srvOut' = Append(srvOut, OutLine(what, NextUnread, NoSid)),
         UNCHANGED <<srvLoop, srvSessions, srvCurrent>>,
         srvAgents' \in Seq(ServedAgents), DOMAIN srvAgents' = DOMAIN srvAgents,
         \A a \in DOMAIN srvAgents :
           /\ srvAgents'[a].turn = srvAgents[a].turn /\ srvAgents'[a].sid = srvAgents[a].sid
           /\ srvAgents'[a].state = srvAgents[a].state
           /\ srvAgents'[a].busy <=> srvAgents[a].busy
  PROVE  ServersInv'
<1>1. /\ srvFront = "acp" /\ srvFront' = "acp" /\ srvAsked' = srvAsked /\ srvSent' = srvSent
      /\ srvUnread # <<>> /\ srvUnread' = Tail(srvUnread) /\ srvQueue' = srvQueue /\ srvAside' = srvAside
  BY DEF AcpReads, srvPipeVars
<1>2. SrvTypeOK /\ PipeOrder /\ AcpAgents /\ LiveTurns /\ ServedInTurn
  BY <1>1 DEF ServersInv, AcpTurns
<1>3. PICK id \in RequestIds : /\ id = NextUnread /\ id \in Nat
                               /\ \A i \in DOMAIN srvOut : srvOut[i].to # id
  <2>1. \A i \in DOMAIN srvOut : srvOut[i].to < NextUnread
    BY <1>1, <1>2, ReadFresh
  <2> QED
    BY <1>1, <1>2, <2>1, ReadFresh
<1>4. PICK line \in OutLines : line = OutLine(what, id, NoSid) /\ line.what = what /\ line.to = id
  BY <1>3 DEF OutLine, OutLines, NoSid
<1>5. srvOut' = Append(srvOut, line)
  BY <1>3, <1>4
<1>6. /\ srvOut' \in Seq(OutLines)
      /\ \A i \in DOMAIN srvOut' : i \in DOMAIN srvOut \/ srvOut'[i] = line
      /\ \A i \in DOMAIN srvOut : srvOut'[i] = srvOut[i]
      /\ {srvOut'[i].to : i \in DOMAIN srvOut'} = {srvOut[i].to : i \in DOMAIN srvOut} \cup {id}
  BY <1>2, <1>4, <1>5, LineAdded
<1>7. {srvAgents'[a].turn : a \in DOMAIN srvAgents'} = {srvAgents[a].turn : a \in DOMAIN srvAgents}
  OBVIOUS
<1>8. Known' \subseteq Known \cup {NextUnread, 0}
  BY <1>1, <1>3, <1>6, <1>7 DEF Known, Ids
<1>9. PipeOrder' /\ srvUnread' \in Seq(RequestIds)
  BY <1>1, <1>2, <1>8, PipeReads
<1>10. SrvTypeOK'
  BY <1>1, <1>2, <1>6, <1>9 DEF SrvTypeOK
<1>11. ServedInTurn'
  BY <1>1, <1>2, <1>3, <1>4, <1>5, AcpLine
<1>12. LiveTurns'
  BY <1>1, <1>2, <1>4, <1>5, LiveLine DEF Live
<1>13. AcpAgents'
  BY <1>1, <1>2, <1>4, <1>6 DEF AcpAgents, Asked
<1> QED
  BY <1>1, <1>9, <1>10, <1>11, <1>12, <1>13 DEF ServersInv, AcpTurns, RpcTurns

\* ACP: what the loop awaited is over, and an agent may have come of it.
LEMMA AcpLoopEnds ==
  ASSUME ServersInv, srvFront = "acp", srvLoop # 0, NEW what \in {"result", "error"},
         srvOut' = Append(srvOut, OutLine(what, srvLoop, NoSid)), srvLoop' = 0,
         UNCHANGED <<srvPipeVars, srvUnread, srvQueue, srvAside>>,
         srvCurrent' \in Nat,
         srvCurrent' # NoSid => srvCurrent' \in DOMAIN srvSessions',
         \A s \in DOMAIN srvSessions' : srvSessions'[s] \in DOMAIN srvAgents',
         srvAgents' \in Seq(ServedAgents),
         \A a \in DOMAIN srvAgents' :
           \/ a \in DOMAIN srvAgents /\ srvAgents'[a] = srvAgents[a]
           \/ srvAgents'[a].turn = 0 /\ srvAgents'[a].state = "idle" /\ ~srvAgents'[a].busy
  PROVE  ServersInv'
<1>1. /\ srvFront' = "acp" /\ srvAsked' = srvAsked /\ srvSent' = srvSent /\ srvUnread' = srvUnread
      /\ srvQueue' = srvQueue /\ srvAside' = srvAside
  BY DEF srvPipeVars
<1>2. SrvTypeOK /\ PipeOrder /\ AcpAgents /\ LiveTurns /\ ServedInTurn
  BY <1>1 DEF ServersInv, AcpTurns
<1>3. srvLoop \in Nat /\ \A i \in DOMAIN srvOut : srvOut[i].what = "end" => srvOut[i].to # srvLoop
  BY <1>2 DEF AcpAgents, SrvTypeOK
<1>4. PICK line \in OutLines : /\ line = OutLine(what, srvLoop, NoSid)
                               /\ line.what = what /\ line.to = srvLoop
  BY <1>3 DEF OutLine, OutLines, NoSid
<1>5. srvOut' = Append(srvOut, line)
  BY <1>4
<1>6. /\ srvOut' \in Seq(OutLines)
      /\ \A i \in DOMAIN srvOut' : i \in DOMAIN srvOut \/ srvOut'[i] = line
      /\ \A i \in DOMAIN srvOut : srvOut'[i] = srvOut[i]
      /\ {srvOut'[i].to : i \in DOMAIN srvOut'} = {srvOut[i].to : i \in DOMAIN srvOut} \cup {srvLoop}
  BY <1>2, <1>4, <1>5, LineAdded
<1>7. {srvAgents'[a].turn : a \in DOMAIN srvAgents'}
        \subseteq {srvAgents[a].turn : a \in DOMAIN srvAgents} \cup {0}
  OBVIOUS
<1>8. Known' \subseteq Known \cup {0}
  BY <1>1, <1>6, <1>7 DEF Known, Ids
<1>9. PipeOrder'
  BY <1>1, <1>2, <1>8, PipeStays
<1>10. SrvTypeOK'
  BY <1>1, <1>2, <1>6, <1>9 DEF SrvTypeOK
<1>11. ServedInTurn'
  BY <1>1, <1>2, <1>3, <1>4, <1>5, AcpLine
<1>12. LiveTurns'
  BY <1>1, <1>2, <1>4, <1>5, LiveLine DEF Live
<1>13. AcpAgents'
  BY <1>1, <1>2, <1>4, <1>6 DEF AcpAgents, Asked
<1> QED
  BY <1>1, <1>9, <1>10, <1>11, <1>12, <1>13 DEF ServersInv, AcpTurns, RpcTurns

\* ACP: the loop awaits what it read.
LEMMA AcpAwaitKeeps == ASSUME ServersInv, AcpAwait PROVE ServersInv'
<1>1. /\ srvFront = "acp" /\ srvFront' = "acp" /\ srvAsked' = srvAsked /\ srvSent' = srvSent
      /\ srvUnread # <<>> /\ srvUnread' = Tail(srvUnread) /\ srvQueue' = srvQueue /\ srvAside' = srvAside
      /\ srvLoop' = NextUnread /\ Asked(NextUnread) \in {"new", "load", "ask"}
      /\ UNCHANGED <<srvAgents, srvSessions, srvCurrent, srvOut>>
  BY DEF AcpAwait, AcpReads, srvPipeVars, srvTurnVars
<1>2. SrvTypeOK /\ PipeOrder /\ AcpAgents /\ LiveTurns /\ ServedInTurn
  BY <1>1 DEF ServersInv, AcpTurns
<1>3. NextUnread \in Nat
  BY <1>1, <1>2, ReadFresh
<1>4. Known' \subseteq Known \cup {NextUnread, 0}
  BY <1>1 DEF Known, Ids
<1>5. PipeOrder' /\ srvUnread' \in Seq(RequestIds)
  BY <1>1, <1>2, <1>4, PipeReads
<1>6. SrvTypeOK'
  BY <1>1, <1>2, <1>3, <1>5 DEF SrvTypeOK
<1>7. ServedInTurn'
  BY <1>1, <1>2, NoLine
<1>8. LiveTurns'
  BY <1>1, <1>2, LiveStays DEF Live
<1>9. AcpAgents'
  BY <1>1, <1>2 DEF AcpAgents, Asked
<1> QED
  BY <1>1, <1>5, <1>6, <1>7, <1>8, <1>9 DEF ServersInv, AcpTurns, RpcTurns

\* ACP: a prompt is answered and its turn starts.
LEMMA AcpPromptKeeps == ASSUME ServersInv, AcpPrompt PROVE ServersInv'
<1>1. /\ srvFront = "acp" /\ srvFront' = "acp" /\ srvAsked' = srvAsked /\ srvSent' = srvSent
      /\ srvUnread # <<>> /\ srvUnread' = Tail(srvUnread) /\ srvQueue' = srvQueue /\ srvAside' = srvAside
      /\ Asked(NextUnread) = "prompt" /\ srvCurrent # NoSid /\ ~srvAgents[CurrentAgent].busy
      /\ UNCHANGED <<srvLoop, srvSessions, srvCurrent>>
  BY DEF AcpPrompt, AcpReads, srvPipeVars
<1>2. SrvTypeOK /\ PipeOrder /\ AcpAgents /\ LiveTurns /\ ServedInTurn
  BY <1>1 DEF ServersInv, AcpTurns
<1>3. PICK id \in RequestIds :
        /\ id = NextUnread /\ id \in Nat
        /\ \A i \in DOMAIN srvOut : srvOut[i].to # id
        /\ \A a \in DOMAIN srvAgents : srvAgents[a].turn # id
  <2>1. /\ \A i \in DOMAIN srvOut : srvOut[i].to < NextUnread
        /\ \A a \in DOMAIN srvAgents : srvAgents[a].turn < NextUnread
        /\ NextUnread \in Nat
    BY <1>1, <1>2, ReadFresh
  <2> QED
    BY <1>1, <1>2, <2>1, ReadFresh
<1>4. PICK c \in DOMAIN srvAgents : c = CurrentAgent
  BY <1>1, <1>2 DEF AcpAgents, CurrentAgent
<1>5. srvAgents[c] \in ServedAgents
  BY <1>2 DEF SrvTypeOK
<1>6. ~Running(c) /\ ~Live(c)
  BY <1>1, <1>2, <1>4 DEF AcpAgents, Running, Live
<1> DEFINE agent == [srvAgents[c] EXCEPT !.turn = id, !.home = srvAgents[c].sid, !.state = "running",
                                         !.notified = FALSE, !.busy = TRUE, !.aborted = FALSE]
<1>7. /\ srvOut' = Append(srvOut, OutLine("result", id, NoSid))
      /\ srvAgents' = [srvAgents EXCEPT ![c] = agent]
  BY <1>3, <1>4, <1>6 DEF AcpPrompt, Reply, Started
<1>8. /\ agent \in ServedAgents /\ agent.turn = id /\ agent.sid = srvAgents[c].sid
      /\ agent.state = "running" /\ agent.busy
  BY <1>3, <1>5 DEF ServedAgents
<1> HIDE DEF agent
<1>9. /\ srvAgents' \in Seq(ServedAgents) /\ DOMAIN srvAgents' = DOMAIN srvAgents
      /\ srvAgents'[c] = agent
      /\ \A b \in DOMAIN srvAgents : b # c => srvAgents'[b] = srvAgents[b]
      /\ {srvAgents'[b].turn : b \in DOMAIN srvAgents'}
           \subseteq {srvAgents[b].turn : b \in DOMAIN srvAgents} \cup {id}
  BY <1>2, <1>7, <1>8, AgentMoves
<1>10. PICK line \in OutLines : /\ line = OutLine("result", id, NoSid)
                                /\ line.what = "result" /\ line.to = id
  BY <1>3, LineType DEF NoSid
<1>11. srvOut' = Append(srvOut, line)
  BY <1>7, <1>10
<1>12. /\ srvOut' \in Seq(OutLines) /\ Len(srvOut) + 1 \in DOMAIN srvOut'
       /\ srvOut'[Len(srvOut) + 1] = line
       /\ \A i \in DOMAIN srvOut' : i \in DOMAIN srvOut \/ srvOut'[i] = line
       /\ \A i \in DOMAIN srvOut : i \in DOMAIN srvOut' /\ srvOut'[i] = srvOut[i]
       /\ {srvOut'[i].to : i \in DOMAIN srvOut'} = {srvOut[i].to : i \in DOMAIN srvOut} \cup {id}
  <2>1. /\ DOMAIN srvOut = 1..Len(srvOut) /\ DOMAIN srvOut' = 1..(Len(srvOut) + 1) /\ Len(srvOut) \in Nat
        /\ srvOut'[Len(srvOut) + 1] = line
    BY <1>2, <1>11, LineAdded
  <2>2. Len(srvOut) + 1 \in DOMAIN srvOut'
    BY <2>1
  <2> QED
    BY <1>2, <1>10, <1>11, <2>1, <2>2, LineAdded
<1>13. Known' \subseteq Known \cup {NextUnread, 0}
  BY <1>1, <1>3, <1>9, <1>12 DEF Known, Ids
<1>14. PipeOrder' /\ srvUnread' \in Seq(RequestIds)
  BY <1>1, <1>2, <1>13, PipeReads
<1>15. SrvTypeOK'
  BY <1>1, <1>2, <1>9, <1>12, <1>14 DEF SrvTypeOK
<1>16. ServedInTurn'
  BY <1>1, <1>2, <1>3, <1>10, <1>11, AcpLine
<1>17. LiveTurns'
  <2>1. ASSUME NEW a \in DOMAIN srvAgents', Live(a)'
        PROVE  /\ Asked(srvAgents'[a].turn) = "prompt"
               /\ \E k \in DOMAIN srvOut' : IsAnswer(k)' /\ srvOut'[k].to = srvAgents'[a].turn
               /\ \A i \in DOMAIN srvOut' : srvOut'[i].to = srvAgents'[a].turn =>
                    srvOut'[i].what # "end" /\ (OfTurn(i)' => srvOut'[i].sid = srvAgents'[a].sid)
    <3>1. CASE a = c
      <4>1. srvAgents'[a].turn = id /\ Asked(id) = "prompt"
        BY <1>1, <1>3, <1>8, <1>9, <3>1
      <4>2. \E k \in DOMAIN srvOut' : IsAnswer(k)' /\ srvOut'[k].to = id
        BY <1>10, <1>12 DEF IsAnswer
      <4>3. \A i \in DOMAIN srvOut' : srvOut'[i].to = id => srvOut'[i].what # "end" /\ ~OfTurn(i)'
        BY <1>3, <1>10, <1>12 DEF OfTurn
      <4> QED
        BY <4>1, <4>2, <4>3
    <3>2. CASE a # c
      <4>1. a \in DOMAIN srvAgents /\ srvAgents'[a] = srvAgents[a] /\ Live(a)
        BY <1>9, <2>1, <3>2 DEF Live
      <4>2. PICK k \in DOMAIN srvOut : IsAnswer(k) /\ srvOut[k].to = srvAgents[a].turn
        BY <1>2, <4>1 DEF LiveTurns, Answered
      <4>3. \A i \in DOMAIN srvOut' : srvOut'[i].to = srvAgents[a].turn =>
              i \in DOMAIN srvOut /\ srvOut'[i] = srvOut[i]
        BY <1>3, <1>10, <1>12, <4>1
      <4>4. \A i \in DOMAIN srvOut' : srvOut'[i].to = srvAgents[a].turn =>
              srvOut'[i].what # "end" /\ (OfTurn(i)' => srvOut'[i].sid = srvAgents[a].sid)
        BY <1>2, <4>1, <4>3 DEF LiveTurns, OfTurn
      <4>5. k \in DOMAIN srvOut' /\ IsAnswer(k)' /\ srvOut'[k].to = srvAgents[a].turn
        BY <1>12, <4>2 DEF IsAnswer
      <4> QED
        BY <1>2, <4>1, <4>4, <4>5 DEF LiveTurns
    <3> QED
      BY <3>1, <3>2
  <2>2. ASSUME NEW a \in DOMAIN srvAgents', NEW b \in DOMAIN srvAgents', Live(a)', Live(b)',
               srvAgents'[b].turn = srvAgents'[a].turn
        PROVE  b = a
    <3>1. CASE a # c /\ b # c
      BY <1>2, <1>9, <2>2, <3>1 DEF LiveTurns, Live
    <3>2. CASE a = c /\ b # c
      BY <1>3, <1>8, <1>9, <2>2, <3>2
    <3>3. CASE a # c /\ b = c
      BY <1>3, <1>8, <1>9, <2>2, <3>3
    <3> QED
      BY <3>1, <3>2, <3>3
  <2> QED
    BY <1>1, <2>1, <2>2 DEF LiveTurns, Answered, IsAnswer, OfTurn, Asked, Live
<1>18. AcpAgents'
  <2>1. \A a \in DOMAIN srvAgents' : srvAgents'[a].busy <=> srvAgents'[a].state # "idle"
    BY <1>2, <1>8, <1>9 DEF AcpAgents
  <2>2. \A i \in DOMAIN srvOut' : srvOut'[i].what = "end" => Asked(srvOut'[i].to) = "prompt"
    BY <1>2, <1>10, <1>12 DEF AcpAgents
  <2> QED
    BY <1>1, <1>2, <1>9, <2>1, <2>2 DEF AcpAgents, Asked
<1> QED
  BY <1>1, <1>14, <1>15, <1>16, <1>17, <1>18 DEF ServersInv, AcpTurns, RpcTurns

\* An event of a turn goes out.
LEMMA NotifyKeeps ==
  ASSUME ServersInv, NEW a \in DOMAIN srvAgents, Notify(a) PROVE ServersInv'
<1> DEFINE agent == [srvAgents[a] EXCEPT !.notified = TRUE]
<1>1. /\ UNCHANGED <<srvFront, srvAsked, srvSent, srvUnread, srvLoop, srvQueue, srvAside, srvSessions, srvCurrent>>
      /\ srvAgents' = [srvAgents EXCEPT ![a] = agent] /\ Running(a)
      /\ srvOut' = Append(srvOut, OutLine("event", srvAgents[a].turn, srvAgents[a].sid))
  BY DEF Notify, srvPipeVars
<1>2. SrvTypeOK /\ PipeOrder /\ ServedInTurn
  BY DEF ServersInv
<1>3. srvAgents[a] \in ServedAgents
  BY <1>2 DEF SrvTypeOK
<1>4. /\ agent \in ServedAgents /\ agent.turn = srvAgents[a].turn /\ agent.sid = srvAgents[a].sid
      /\ agent.state = srvAgents[a].state /\ agent.home = srvAgents[a].home
      /\ (agent.busy <=> srvAgents[a].busy)
  BY <1>3 DEF ServedAgents
<1>5. srvAgents[a].turn \in Nat /\ srvAgents[a].sid \in Nat
  BY <1>3 DEF ServedAgents
<1> HIDE DEF agent
<1>6. /\ srvAgents' \in Seq(ServedAgents) /\ DOMAIN srvAgents' = DOMAIN srvAgents
      /\ srvAgents'[a] = agent
      /\ \A b \in DOMAIN srvAgents : b # a => srvAgents'[b] = srvAgents[b]
      /\ {srvAgents'[b].turn : b \in DOMAIN srvAgents'}
           \subseteq {srvAgents[b].turn : b \in DOMAIN srvAgents} \cup {agent.turn}
  BY <1>1, <1>2, <1>4, AgentMoves
<1>7. \A b \in DOMAIN srvAgents :
        /\ srvAgents'[b].turn = srvAgents[b].turn /\ srvAgents'[b].sid = srvAgents[b].sid
        /\ srvAgents'[b].state = srvAgents[b].state /\ srvAgents'[b].home = srvAgents[b].home
        /\ (srvAgents'[b].busy <=> srvAgents[b].busy)
  BY <1>4, <1>6
<1>8. PICK line \in OutLines : /\ line = OutLine("event", srvAgents[a].turn, srvAgents[a].sid)
                               /\ line.what = "event" /\ line.to = srvAgents[a].turn
                               /\ line.sid = srvAgents[a].sid
  BY <1>5, LineType
<1>9. srvOut' = Append(srvOut, line)
  BY <1>1, <1>8
<1>10. /\ srvOut' \in Seq(OutLines)
       /\ \A i \in DOMAIN srvOut' : i \in DOMAIN srvOut \/ srvOut'[i] = line
       /\ \A i \in DOMAIN srvOut : srvOut'[i] = srvOut[i]
       /\ {srvOut'[i].to : i \in DOMAIN srvOut'}
            = {srvOut[i].to : i \in DOMAIN srvOut} \cup {srvAgents[a].turn}
  BY <1>2, <1>8, <1>9, LineAdded
<1>11. Known' \subseteq Known \cup {0}
  <2>1. srvAgents[a].turn \in {srvAgents[b].turn : b \in DOMAIN srvAgents}
    OBVIOUS
  <2>2. /\ {srvOut'[i].to : i \in DOMAIN srvOut'} \subseteq Known
        /\ {srvAgents'[b].turn : b \in DOMAIN srvAgents'} \subseteq Known
    BY <1>4, <1>6, <1>10, <2>1 DEF Known
  <2> QED
    BY <1>1, <2>2 DEF Known, Ids
<1>12. PipeOrder'
  BY <1>1, <1>2, <1>11, PipeStays
<1>13. SrvTypeOK'
  BY <1>1, <1>2, <1>6, <1>10 DEF SrvTypeOK
<1>14. CASE srvFront = "acp"
  <2>1. AcpAgents /\ LiveTurns
    BY <1>14 DEF ServersInv, AcpTurns
  <2>2. Live(a) /\ \A b \in DOMAIN srvAgents : Live(b) /\ srvAgents[b].turn = srvAgents[a].turn => b = a
    BY <1>1, <2>1 DEF LiveTurns, Live, Running
  <2>3. ServedInTurn'
    BY <1>1, <1>2, <1>8, <1>9, <1>14, <2>1, <2>2, AcpLine DEF LiveTurns
  <2>4. LiveTurns'
    BY <1>1, <1>2, <1>6, <1>7, <1>8, <1>9, <2>1, <2>2, LiveLine DEF Live
  <2>5. AcpAgents'
    BY <1>1, <1>6, <1>7, <1>8, <1>10, <2>1 DEF AcpAgents, Asked
  <2> QED
    BY <1>1, <1>12, <1>13, <1>14, <2>3, <2>4, <2>5 DEF ServersInv, AcpTurns, RpcTurns
<1>15. CASE srvFront = "rpc"
  <2>1. RpcTurns /\ DOMAIN srvAgents = {1}
    BY <1>15 DEF ServersInv, RpcTurns
  <2>2. srvAgents'[1].turn # 0 => srvAgents'[1].home = srvAgents'[1].sid
    BY <1>7, <1>15, <2>1 DEF RpcTurns, RpcAgent
  <2>3. ServedInTurn'
    BY <1>1, <1>2, <1>8, <1>9, <1>15, <2>2, RpcLine
  <2>4. RpcTurns'
    BY <1>1, <1>6, <1>7, <1>8, <1>10, <1>15, <2>1 DEF RpcTurns, RpcAgent, Asked, Ids, Rising
  <2> QED
    BY <1>1, <1>12, <1>13, <1>15, <2>3, <2>4 DEF ServersInv, AcpTurns
<1> QED
  BY <1>2, <1>14, <1>15 DEF SrvTypeOK

\* A turn is over, is told to have ended, and its session is free again: the agent
\* changes and nothing else does, but for the line.
LEMMA TurnSettlesKeeps ==
  ASSUME ServersInv, NEW a \in DOMAIN srvAgents, TurnSettles(a) PROVE ServersInv'
<1> DEFINE agent == [srvAgents[a] EXCEPT !.state = "settled"]
<1>1. /\ UNCHANGED <<srvFront, srvAsked, srvSent, srvUnread, srvLoop, srvQueue, srvAside, srvSessions,
                     srvCurrent, srvOut>>
      /\ srvAgents' = [srvAgents EXCEPT ![a] = agent] /\ srvAgents[a].state = "running"
  BY DEF TurnSettles, srvPipeVars, Running
<1>2. SrvTypeOK /\ PipeOrder /\ ServedInTurn
  BY DEF ServersInv
<1>3. srvAgents[a] \in ServedAgents
  BY <1>2 DEF SrvTypeOK
<1>4. /\ agent \in ServedAgents /\ agent.turn = srvAgents[a].turn /\ agent.sid = srvAgents[a].sid
      /\ agent.state = "settled" /\ agent.home = srvAgents[a].home
      /\ (agent.busy <=> srvAgents[a].busy)
  BY <1>3 DEF ServedAgents
<1> HIDE DEF agent
<1>5. /\ srvAgents' \in Seq(ServedAgents) /\ DOMAIN srvAgents' = DOMAIN srvAgents
      /\ srvAgents'[a] = agent
      /\ \A b \in DOMAIN srvAgents : b # a => srvAgents'[b] = srvAgents[b]
      /\ {srvAgents'[b].turn : b \in DOMAIN srvAgents'}
           \subseteq {srvAgents[b].turn : b \in DOMAIN srvAgents} \cup {agent.turn}
  BY <1>1, <1>2, <1>4, AgentMoves
<1>6. \A b \in DOMAIN srvAgents :
        /\ srvAgents'[b].turn = srvAgents[b].turn /\ srvAgents'[b].sid = srvAgents[b].sid
        /\ (Live(b)' <=> Live(b)) /\ srvAgents'[b].home = srvAgents[b].home
        /\ (srvAgents'[b].busy <=> srvAgents[b].busy)
        /\ (srvAgents'[b].state # "idle" <=> srvAgents[b].state # "idle")
  BY <1>1, <1>4, <1>5 DEF Live
<1>7. Known' \subseteq Known \cup {0}
  BY <1>1, <1>4, <1>5 DEF Known, Ids
<1>8. PipeOrder'
  BY <1>1, <1>2, <1>7, PipeStays
<1>9. SrvTypeOK'
  BY <1>1, <1>2, <1>5 DEF SrvTypeOK
<1>10. CASE srvFront = "acp"
  <2>1. AcpAgents /\ LiveTurns
    BY <1>10 DEF ServersInv, AcpTurns
  <2>2. ServedInTurn'
    BY <1>1, <1>2, <1>10, NoLine
  <2>3. LiveTurns'
    BY <1>1, <1>5, <1>6, <2>1, LiveStays
  <2>4. AcpAgents'
    BY <1>1, <1>5, <1>6, <2>1 DEF AcpAgents, Asked
  <2> QED
    BY <1>1, <1>8, <1>9, <1>10, <2>2, <2>3, <2>4 DEF ServersInv, AcpTurns, RpcTurns
<1>11. CASE srvFront = "rpc"
  <2>1. RpcTurns /\ DOMAIN srvAgents = {1}
    BY <1>11 DEF ServersInv, RpcTurns
  <2>2. srvAgents'[1].turn # 0 => srvAgents'[1].home = srvAgents'[1].sid
    BY <1>6, <1>11, <2>1 DEF RpcTurns, RpcAgent
  <2>3. ServedInTurn'
    BY <1>1, <1>2, <1>11, <2>2, NoLine
  <2>4. RpcTurns'
    BY <1>1, <1>5, <1>6, <1>11, <2>1 DEF RpcTurns, RpcAgent, Asked, Ids, Rising
  <2> QED
    BY <1>1, <1>8, <1>9, <1>11, <2>3, <2>4 DEF ServersInv, AcpTurns
<1> QED
  BY <1>2, <1>10, <1>11 DEF SrvTypeOK

\* ACP: a turn's end is told, and its session is free again.
LEMMA AcpEndKeeps ==
  ASSUME ServersInv, NEW a \in DOMAIN srvAgents, AcpEnd(a) PROVE ServersInv'
<1> DEFINE agent == [srvAgents[a] EXCEPT !.state = "ended"]
<1>1. /\ UNCHANGED <<srvFront, srvAsked, srvSent, srvUnread, srvLoop, srvQueue, srvAside, srvSessions, srvCurrent>>
      /\ srvAgents' = [srvAgents EXCEPT ![a] = agent] /\ srvFront = "acp" /\ srvAgents[a].state = "settled"
      /\ srvOut' = Append(srvOut, OutLine("end", srvAgents[a].turn, srvAgents[a].sid))
  BY DEF AcpEnd, srvPipeVars
<1>2. SrvTypeOK /\ PipeOrder /\ ServedInTurn /\ AcpAgents /\ LiveTurns
  BY <1>1 DEF ServersInv, AcpTurns
<1>3. srvAgents[a] \in ServedAgents
  BY <1>2 DEF SrvTypeOK
<1>4. /\ agent \in ServedAgents /\ agent.turn = srvAgents[a].turn /\ agent.sid = srvAgents[a].sid
      /\ agent.state = "ended" /\ (agent.busy <=> srvAgents[a].busy)
  BY <1>3 DEF ServedAgents
<1>5. srvAgents[a].turn \in Nat /\ srvAgents[a].sid \in Nat
  BY <1>3 DEF ServedAgents
<1> HIDE DEF agent
<1>6. /\ srvAgents' \in Seq(ServedAgents) /\ DOMAIN srvAgents' = DOMAIN srvAgents
      /\ srvAgents'[a] = agent
      /\ \A b \in DOMAIN srvAgents : b # a => srvAgents'[b] = srvAgents[b]
      /\ {srvAgents'[b].turn : b \in DOMAIN srvAgents'}
           \subseteq {srvAgents[b].turn : b \in DOMAIN srvAgents} \cup {agent.turn}
  BY <1>1, <1>2, <1>4, AgentMoves
<1>7. PICK line \in OutLines : /\ line = OutLine("end", srvAgents[a].turn, srvAgents[a].sid)
                               /\ line.what = "end" /\ line.to = srvAgents[a].turn
                               /\ line.sid = srvAgents[a].sid
  BY <1>5, LineType
<1>8. srvOut' = Append(srvOut, line)
  BY <1>1, <1>7
<1>9. /\ srvOut' \in Seq(OutLines)
      /\ \A i \in DOMAIN srvOut' : i \in DOMAIN srvOut \/ srvOut'[i] = line
      /\ \A i \in DOMAIN srvOut : srvOut'[i] = srvOut[i]
      /\ {srvOut'[i].to : i \in DOMAIN srvOut'}
           = {srvOut[i].to : i \in DOMAIN srvOut} \cup {srvAgents[a].turn}
  BY <1>2, <1>7, <1>8, LineAdded
<1>10. Known' \subseteq Known \cup {0}
  <2>1. srvAgents[a].turn \in {srvAgents[b].turn : b \in DOMAIN srvAgents}
    OBVIOUS
  <2>2. /\ {srvOut'[i].to : i \in DOMAIN srvOut'} \subseteq Known
        /\ {srvAgents'[b].turn : b \in DOMAIN srvAgents'} \subseteq Known
    BY <1>4, <1>6, <1>9, <2>1 DEF Known
  <2> QED
    BY <1>1, <2>2 DEF Known, Ids
<1>11. PipeOrder'
  BY <1>1, <1>2, <1>10, PipeStays
<1>12. SrvTypeOK'
  BY <1>1, <1>2, <1>6, <1>9 DEF SrvTypeOK
<1>13. Live(a) /\ \A b \in DOMAIN srvAgents : Live(b) /\ srvAgents[b].turn = srvAgents[a].turn => b = a
  BY <1>1, <1>2 DEF LiveTurns, Live
<1>14. ServedInTurn'
  BY <1>1, <1>2, <1>7, <1>8, <1>13, AcpLine DEF LiveTurns
<1>15. ASSUME NEW b \in DOMAIN srvAgents', Live(b)'
       PROVE  b # a /\ b \in DOMAIN srvAgents /\ srvAgents'[b] = srvAgents[b] /\ Live(b)
  BY <1>4, <1>6, <1>15 DEF Live
<1>16. LiveTurns'
  BY <1>1, <1>2, <1>7, <1>8, <1>13, <1>15, LiveLine
<1>17. AcpAgents'
  <2>1. \A b \in DOMAIN srvAgents' : srvAgents'[b].busy <=> srvAgents'[b].state # "idle"
    BY <1>1, <1>2, <1>4, <1>6 DEF AcpAgents
  <2>2. \A i \in DOMAIN srvOut' : srvOut'[i].what = "end" => Asked(srvOut'[i].to) = "prompt"
    BY <1>2, <1>7, <1>9, <1>13 DEF AcpAgents, LiveTurns
  <2> QED
    BY <1>1, <1>2, <1>6, <2>1, <2>2 DEF AcpAgents, Asked
<1> QED
  BY <1>1, <1>11, <1>12, <1>14, <1>16, <1>17 DEF ServersInv, AcpTurns, RpcTurns

\* ACP: an agent is free for the next prompt.
LEMMA AcpFreeKeeps ==
  ASSUME ServersInv, NEW a \in DOMAIN srvAgents, AcpFree(a) PROVE ServersInv'
<1> DEFINE agent == [srvAgents[a] EXCEPT !.state = "idle", !.turn = 0, !.busy = FALSE]
<1>1. /\ UNCHANGED <<srvFront, srvAsked, srvSent, srvUnread, srvLoop, srvQueue, srvAside, srvSessions,
                     srvCurrent, srvOut>>
      /\ srvFront = "acp" /\ srvAgents[a].state = "ended"
  BY DEF AcpFree, srvPipeVars
<1>2. srvAgents' = [srvAgents EXCEPT ![a] = agent]
  BY DEF AcpFree
<1>3. SrvTypeOK /\ PipeOrder /\ ServedInTurn /\ AcpAgents /\ LiveTurns
  BY <1>1 DEF ServersInv, AcpTurns
<1>4. srvAgents[a] \in ServedAgents
  BY <1>3 DEF SrvTypeOK
<1>5. agent \in ServedAgents /\ agent.turn = 0 /\ agent.state = "idle" /\ ~agent.busy
  BY <1>4 DEF ServedAgents
<1> HIDE DEF agent
<1>6. /\ srvAgents' \in Seq(ServedAgents) /\ DOMAIN srvAgents' = DOMAIN srvAgents
      /\ srvAgents'[a] = agent
      /\ \A b \in DOMAIN srvAgents : b # a => srvAgents'[b] = srvAgents[b]
      /\ {srvAgents'[b].turn : b \in DOMAIN srvAgents'}
           \subseteq {srvAgents[b].turn : b \in DOMAIN srvAgents} \cup {agent.turn}
  BY <1>2, <1>3, <1>5, AgentMoves
<1>7. Known' \subseteq Known \cup {0}
  BY <1>1, <1>5, <1>6 DEF Known, Ids
<1>8. PipeOrder'
  BY <1>1, <1>3, <1>7, PipeStays
<1>9. SrvTypeOK'
  BY <1>1, <1>3, <1>6 DEF SrvTypeOK
<1>10. ServedInTurn'
  BY <1>1, <1>3, NoLine
<1>11. ASSUME NEW b \in DOMAIN srvAgents', Live(b)'
       PROVE  b \in DOMAIN srvAgents /\ srvAgents'[b] = srvAgents[b] /\ Live(b)
  BY <1>5, <1>6, <1>11 DEF Live
<1>12. LiveTurns'
  BY <1>1, <1>3, <1>11, LiveStays
<1>13. AcpAgents'
  <2>1. \A b \in DOMAIN srvAgents' : srvAgents'[b].busy <=> srvAgents'[b].state # "idle"
    BY <1>3, <1>5, <1>6 DEF AcpAgents
  <2> QED
    BY <1>1, <1>3, <1>6, <2>1 DEF AcpAgents, Asked
<1> QED
  BY <1>1, <1>8, <1>9, <1>10, <1>12, <1>13 DEF ServersInv, AcpTurns, RpcTurns

\* The client asks: its requests are numbered as it writes them.
LEMMA AskKeeps == ASSUME ServersInv, Ask PROVE ServersInv'
<1>1. /\ UNCHANGED <<srvFront, srvAsked, srvLoop, srvQueue, srvAside, srvAgents, srvSessions, srvCurrent, srvOut>>
      /\ srvSent' = srvSent + 1 /\ srvUnread' = Append(srvUnread, srvSent + 1)
  BY DEF Ask, srvTurnVars
<1>2. SrvTypeOK /\ PipeOrder
  BY DEF ServersInv
<1>3. srvSent \in Nat /\ srvSent + 1 \in RequestIds /\ srvUnread \in Seq(RequestIds)
  BY <1>2 DEF SrvTypeOK, RequestIds
<1>4. \A u \in Ids(srvUnread) : u \in Nat /\ u <= srvSent
  BY <1>2 DEF PipeOrder, SrvTypeOK, Ids, RequestIds
<1>5. /\ srvUnread' \in Seq(RequestIds) /\ Ids(srvUnread') = Ids(srvUnread) \cup {srvSent + 1}
      /\ Rising(srvUnread')
  BY <1>1, <1>2, <1>3, <1>4, RisingAppend DEF PipeOrder
<1>6. Known' = Known
  BY <1>1 DEF Known, Ids
<1>7. \A k \in Known : k \in Nat /\ k <= srvSent
  <2>1. /\ srvLoop \in Nat /\ \A q \in Ids(srvQueue) : q \in Nat
        /\ \A q \in srvAside : q \in Nat
    BY <1>2 DEF SrvTypeOK, Ids, RequestIds
  <2>2. \A i \in DOMAIN srvOut : srvOut[i] \in OutLines
    BY <1>2 DEF SrvTypeOK
  <2>3. \A a \in DOMAIN srvAgents : srvAgents[a] \in ServedAgents
    BY <1>2 DEF SrvTypeOK
  <2>4. \A k \in Known : k \in Nat
    BY <2>1, <2>2, <2>3 DEF Known, OutLines, ServedAgents
  <2> QED
    BY <1>2, <2>4 DEF PipeOrder
<1>8. PipeOrder'
  <2>1. \A u \in Ids(srvUnread') : u <= srvSent'
    BY <1>1, <1>3, <1>4, <1>5
  <2>2. \A k \in Known' : k <= srvSent' /\ \A u \in Ids(srvUnread') : k < u
    BY <1>1, <1>2, <1>3, <1>5, <1>6, <1>7 DEF PipeOrder
  <2> QED
    BY <1>5, <2>1, <2>2 DEF PipeOrder
<1>9. SrvTypeOK'
  BY <1>1, <1>2, <1>3, <1>5 DEF SrvTypeOK
<1>10. ServedInTurn'
  BY <1>1, NoLine DEF ServersInv, ServedInTurn, RpcAgent
<1>11. AcpTurns' /\ RpcTurns'
  BY <1>1 DEF ServersInv, AcpTurns, AcpAgents, LiveTurns, RpcTurns, Live, OfTurn, IsAnswer, Answered,
              Asked, RpcAgent, Ids, Rising
<1> QED
  BY <1>8, <1>9, <1>10, <1>11 DEF ServersInv

\* A step that changes neither the pipe nor what was made of it.
LEMMA QuietStep ==
  ASSUME ServersInv,
         UNCHANGED <<srvFront, srvAsked, srvSent, srvUnread, srvLoop, srvQueue, srvAside, srvAgents,
                     srvSessions, srvCurrent, srvOut>>
  PROVE  ServersInv'
<1>1. SrvTypeOK'
  BY DEF ServersInv, SrvTypeOK
<1>2. Known' = Known
  BY DEF Known, Ids
<1>3. PipeOrder'
  BY <1>2 DEF ServersInv, PipeOrder, Ids, Rising
<1>4. ServedInTurn'
  BY NoLine DEF ServersInv, ServedInTurn, RpcAgent
<1>5. AcpTurns' /\ RpcTurns'
  BY DEF ServersInv, AcpTurns, AcpAgents, LiveTurns, RpcTurns, Live, OfTurn, IsAnswer, Answered,
         Asked, RpcAgent, Ids, Rising
<1> QED
  BY <1>1, <1>3, <1>4, <1>5 DEF ServersInv

\* RPC: what is not chained is answered when it is read.
LEMMA RpcReplies ==
  ASSUME ServersInv, NEW kinds, RpcReads(kinds), kinds \cap Queued = {},
         NEW what \in {"result", "error"},
         srvOut' = Append(srvOut, OutLine(what, NextUnread, NoSid)),
         UNCHANGED <<srvQueue, srvAside>>,
         srvAgents' \in Seq(ServedAgents), DOMAIN srvAgents' = DOMAIN srvAgents,
         \A a \in DOMAIN srvAgents :
           /\ srvAgents'[a].turn = srvAgents[a].turn /\ srvAgents'[a].sid = srvAgents[a].sid
           /\ srvAgents'[a].home = srvAgents[a].home
  PROVE  ServersInv'
<1>1. /\ srvFront = "rpc" /\ srvFront' = "rpc" /\ srvAsked' = srvAsked /\ srvSent' = srvSent
      /\ srvUnread # <<>> /\ srvUnread' = Tail(srvUnread) /\ srvLoop' = srvLoop
      /\ UNCHANGED <<srvSessions, srvCurrent>>
  BY DEF RpcReads, srvPipeVars
<1>2. SrvTypeOK /\ PipeOrder /\ ServedInTurn /\ RpcTurns /\ DOMAIN srvAgents = {1}
  BY <1>1 DEF ServersInv, RpcTurns
<1>3. PICK id \in RequestIds : id = NextUnread /\ id \in Nat /\ Asked(id) \notin Queued
  BY <1>1, <1>2, ReadFresh DEF RpcReads
<1>4. PICK line \in OutLines : line = OutLine(what, id, NoSid) /\ line.what = what /\ line.to = id
  BY <1>3, LineType DEF NoSid
<1>5. srvOut' = Append(srvOut, line)
  BY <1>3, <1>4
<1>6. /\ srvOut' \in Seq(OutLines)
      /\ \A i \in DOMAIN srvOut' : i \in DOMAIN srvOut \/ srvOut'[i] = line
      /\ \A i \in DOMAIN srvOut : srvOut'[i] = srvOut[i]
      /\ {srvOut'[i].to : i \in DOMAIN srvOut'} = {srvOut[i].to : i \in DOMAIN srvOut} \cup {id}
  BY <1>2, <1>4, <1>5, LineAdded
<1>7. {srvAgents'[a].turn : a \in DOMAIN srvAgents'} = {srvAgents[a].turn : a \in DOMAIN srvAgents}
  OBVIOUS
<1>8. Known' \subseteq Known \cup {NextUnread, 0}
  BY <1>1, <1>3, <1>6, <1>7 DEF Known, Ids
<1>9. PipeOrder' /\ srvUnread' \in Seq(RequestIds)
  BY <1>1, <1>2, <1>8, PipeReads
<1>10. SrvTypeOK'
  BY <1>1, <1>2, <1>6, <1>9 DEF SrvTypeOK
<1>11. srvAgents'[1].turn # 0 => srvAgents'[1].home = srvAgents'[1].sid
  BY <1>1, <1>2 DEF RpcTurns, RpcAgent
<1>12. ServedInTurn'
  BY <1>1, <1>2, <1>3, <1>4, <1>5, <1>11, RpcLine
<1>13. RpcTurns'
  BY <1>1, <1>2, <1>3, <1>4, <1>6 DEF RpcTurns, RpcAgent, Asked, Ids, Rising
<1> QED
  BY <1>1, <1>9, <1>10, <1>12, <1>13 DEF ServersInv, AcpTurns

\* RPC: steering is answered when its event is delivered.
LEMMA RpcSteerKeeps == ASSUME ServersInv, RpcSteer PROVE ServersInv'
<1>1. /\ srvFront = "rpc" /\ srvFront' = "rpc" /\ srvAsked' = srvAsked /\ srvSent' = srvSent
      /\ srvUnread # <<>> /\ srvUnread' = Tail(srvUnread) /\ Asked(NextUnread) = "steer"
      /\ srvAside' = srvAside \cup {NextUnread}
      /\ UNCHANGED <<srvLoop, srvQueue, srvAgents, srvSessions, srvCurrent, srvOut>>
  BY DEF RpcSteer, RpcReads, srvPipeVars
<1>2. SrvTypeOK /\ PipeOrder /\ ServedInTurn /\ RpcTurns
  BY DEF ServersInv
<1>3. NextUnread \in RequestIds
  BY <1>1, <1>2, ReadFresh
<1>4. Known' \subseteq Known \cup {NextUnread, 0}
  BY <1>1 DEF Known, Ids
<1>5. PipeOrder' /\ srvUnread' \in Seq(RequestIds)
  BY <1>1, <1>2, <1>4, PipeReads
<1>6. SrvTypeOK'
  BY <1>1, <1>2, <1>3, <1>5 DEF SrvTypeOK
<1>7. srvAgents'[1].turn # 0 => srvAgents'[1].home = srvAgents'[1].sid
  BY <1>1, <1>2 DEF RpcTurns, RpcAgent
<1>8. ServedInTurn'
  BY <1>1, <1>2, <1>7, NoLine
<1>9. RpcTurns'
  <2>1. \A id \in srvAside' : Asked(id) = "steer"
    BY <1>1, <1>2 DEF RpcTurns
  <2> QED
    BY <1>1, <1>2, <2>1 DEF RpcTurns, RpcAgent, Asked, Ids, Rising
<1> QED
  BY <1>1, <1>5, <1>6, <1>8, <1>9 DEF ServersInv, AcpTurns

\* RPC: the answer to what was steered.
LEMMA RpcSteeredKeeps ==
  ASSUME ServersInv, NEW id \in srvAside, RpcSteered(id) PROVE ServersInv'
<1>1. /\ UNCHANGED <<srvFront, srvAsked, srvSent, srvUnread, srvLoop, srvQueue, srvAgents, srvSessions, srvCurrent>>
      /\ srvAside' = srvAside \ {id}
  BY DEF RpcSteered, srvPipeVars, srvTurnVars
<1>2. PICK what \in {"result", "error"} : srvOut' = Append(srvOut, OutLine(what, id, NoSid))
  BY DEF RpcSteered, Reply
<1>3. SrvTypeOK /\ PipeOrder /\ ServedInTurn /\ RpcTurns
  BY DEF ServersInv
<1>4. srvFront = "rpc"
  BY <1>3 DEF ServersInv, AcpTurns, AcpAgents, SrvTypeOK
<1>5. id \in Nat /\ Asked(id) = "steer" /\ Asked(id) \notin Queued
  BY <1>3, <1>4 DEF SrvTypeOK, RequestIds, RpcTurns, Queued
<1>6. PICK line \in OutLines : line = OutLine(what, id, NoSid) /\ line.what = what /\ line.to = id
  BY <1>5, LineType DEF NoSid
<1>7. srvOut' = Append(srvOut, line)
  BY <1>2, <1>6
<1>8. /\ srvOut' \in Seq(OutLines)
      /\ \A i \in DOMAIN srvOut' : i \in DOMAIN srvOut \/ srvOut'[i] = line
      /\ \A i \in DOMAIN srvOut : srvOut'[i] = srvOut[i]
      /\ {srvOut'[i].to : i \in DOMAIN srvOut'} = {srvOut[i].to : i \in DOMAIN srvOut} \cup {id}
  BY <1>3, <1>6, <1>7, LineAdded
<1>9. Known' \subseteq Known \cup {0}
  BY <1>1, <1>8 DEF Known, Ids
<1>10. PipeOrder'
  BY <1>1, <1>3, <1>9, PipeStays
<1>11. SrvTypeOK'
  BY <1>1, <1>3, <1>8 DEF SrvTypeOK
<1>12. srvAgents'[1].turn # 0 => srvAgents'[1].home = srvAgents'[1].sid
  BY <1>1, <1>3, <1>4 DEF RpcTurns, RpcAgent
<1>13. ServedInTurn'
  BY <1>1, <1>3, <1>4, <1>5, <1>6, <1>7, <1>12, RpcLine
<1>14. RpcTurns'
  BY <1>1, <1>3, <1>4, <1>5, <1>6, <1>8 DEF RpcTurns, RpcAgent, Asked, Ids, Rising
<1> QED
  BY <1>1, <1>4, <1>10, <1>11, <1>13, <1>14 DEF ServersInv, AcpTurns

\* RPC: a request is chained behind those before it.
LEMMA RpcEnqueueKeeps == ASSUME ServersInv, RpcEnqueue PROVE ServersInv'
<1>1. /\ srvFront = "rpc" /\ srvFront' = "rpc" /\ srvAsked' = srvAsked /\ srvSent' = srvSent
      /\ srvUnread # <<>> /\ srvUnread' = Tail(srvUnread)
      /\ srvQueue' = Append(srvQueue, NextUnread)
      /\ UNCHANGED <<srvLoop, srvAside, srvAgents, srvSessions, srvCurrent, srvOut>>
  BY DEF RpcEnqueue, RpcReads, srvPipeVars
<1>2. SrvTypeOK /\ PipeOrder /\ ServedInTurn /\ RpcTurns
  BY DEF ServersInv
<1>3. PICK id \in RequestIds : id = NextUnread
  BY <1>1, <1>2, ReadFresh
<1>4. (\A k \in Known : k < id) /\ (\A i \in DOMAIN srvOut : srvOut[i].to < id)
  BY <1>1, <1>2, <1>3, ReadFresh
<1>5. srvLoop \in Known /\ \A q \in Ids(srvQueue) : q \in Known
  BY DEF Known
<1>6. /\ srvQueue' \in Seq(RequestIds) /\ Ids(srvQueue') = Ids(srvQueue) \cup {id} /\ Rising(srvQueue')
  BY <1>1, <1>2, <1>3, <1>4, <1>5, RisingAppend DEF SrvTypeOK, RpcTurns
<1>7. Known' \subseteq Known \cup {NextUnread, 0}
  BY <1>1, <1>3, <1>6 DEF Known
<1>8. PipeOrder' /\ srvUnread' \in Seq(RequestIds)
  BY <1>1, <1>2, <1>7, PipeReads
<1>9. SrvTypeOK'
  BY <1>1, <1>2, <1>6, <1>8 DEF SrvTypeOK
<1>10. srvAgents'[1].turn # 0 => srvAgents'[1].home = srvAgents'[1].sid
  BY <1>1, <1>2 DEF RpcTurns, RpcAgent
<1>11. ServedInTurn'
  BY <1>1, <1>2, <1>10, NoLine
<1>12. RpcTurns'
  <2>1. \A q \in Ids(srvQueue') : srvLoop < q
    BY <1>1, <1>2, <1>4, <1>5, <1>6 DEF RpcTurns
  <2>2. \A i \in DOMAIN srvOut : Asked(srvOut[i].to) \in Queued /\ srvOut[i].what # "event" =>
          /\ srvLoop # 0 => srvOut[i].to < srvLoop
          /\ \A q \in Ids(srvQueue') : srvOut[i].to < q
    BY <1>1, <1>2, <1>4, <1>6 DEF RpcTurns
  <2> QED
    BY <1>1, <1>2, <1>6, <2>1, <2>2 DEF RpcTurns, RpcAgent, Asked
<1> QED
  BY <1>1, <1>8, <1>9, <1>11, <1>12 DEF ServersInv, AcpTurns

\* RPC: the next of the chain begins, and a prompt has the agent.
LEMMA RpcBeginKeeps == ASSUME ServersInv, RpcBegin PROVE ServersInv'
<1>1. /\ srvFront = "rpc" /\ srvFront' = "rpc" /\ srvAsked' = srvAsked /\ srvSent' = srvSent
      /\ srvLoop = 0 /\ srvQueue # <<>> /\ srvLoop' = Head(srvQueue) /\ srvQueue' = Tail(srvQueue)
      /\ UNCHANGED <<srvUnread, srvAside, srvSessions, srvCurrent, srvOut>>
  BY DEF RpcBegin, srvPipeVars
<1>2. SrvTypeOK /\ PipeOrder /\ ServedInTurn /\ RpcTurns /\ DOMAIN srvAgents = {1}
  BY <1>1 DEF ServersInv, RpcTurns
<1>3. PICK id \in RequestIds : id = Head(srvQueue)
  BY <1>1, <1>2, RisingTail DEF SrvTypeOK, RpcTurns
<1>4. /\ id \in Ids(srvQueue) /\ srvQueue' \in Seq(RequestIds) /\ Rising(srvQueue')
      /\ Ids(srvQueue') \subseteq Ids(srvQueue) /\ \A q \in Ids(srvQueue') : id < q
  BY <1>1, <1>2, <1>3, RisingTail DEF SrvTypeOK, RpcTurns
<1>5. id \in Nat /\ id # 0 /\ srvLoop' = id
  BY <1>1, <1>3 DEF RequestIds
<1>6. srvAgents[1] \in ServedAgents /\ srvAgents[1].turn = 0
  <2>1. srvAgents \in Seq(ServedAgents)
    BY <1>2 DEF SrvTypeOK
  <2>2. \A a \in DOMAIN srvAgents : srvAgents[a] \in ServedAgents
    BY <2>1
  <2>3. srvAgents[1].turn = 0
    BY <1>1, <1>2 DEF RpcTurns, RpcAgent
  <2> QED
    BY <1>2, <2>2, <2>3
<1>7. /\ srvAgents' \in Seq(ServedAgents) /\ DOMAIN srvAgents' = {1}
      /\ \/ srvAgents'[1].turn = 0
         \/ srvAgents'[1].turn = id /\ Asked(id) = "prompt" /\ srvAgents'[1].home = srvAgents'[1].sid
  <2>1. CASE Asked(id) = "prompt" /\ ~Running(1)
    <3> DEFINE agent == [srvAgents[1] EXCEPT !.turn = id, !.home = srvAgents[1].sid, !.state = "running",
                                             !.notified = FALSE, !.aborted = FALSE]
    <3>1. srvAgents' = [srvAgents EXCEPT ![1] = agent]
      BY <1>2, <1>3, <2>1 DEF RpcBegin, Started
    <3>2. agent \in ServedAgents /\ agent.turn = id /\ agent.home = agent.sid
      BY <1>5, <1>6 DEF ServedAgents
    <3> HIDE DEF agent
    <3>3. /\ srvAgents' \in Seq(ServedAgents) /\ DOMAIN srvAgents' = DOMAIN srvAgents
          /\ srvAgents'[1] = agent
      BY <1>2, <3>1, <3>2, AgentMoves
    <3> QED
      BY <1>2, <2>1, <3>2, <3>3
  <2>2. CASE ~(Asked(id) = "prompt" /\ ~Running(1))
    BY <1>2, <1>3, <1>6, <2>2 DEF RpcBegin, SrvTypeOK
  <2> QED
    BY <2>1, <2>2
<1>8. Known' \subseteq Known \cup {0}
  <2>1. Ids(srvQueue) \subseteq Known
    BY DEF Known
  <2>2. \A a \in DOMAIN srvAgents' : srvAgents'[a].turn \in Known \cup {0}
    BY <1>4, <1>7, <2>1
  <2>3. {srvOut'[i].to : i \in DOMAIN srvOut'} \subseteq Known
    BY <1>1 DEF Known
  <2>4. srvAside' \subseteq Known
    BY <1>1 DEF Known
  <2> QED
    BY <1>4, <1>5, <2>1, <2>2, <2>3, <2>4 DEF Known
<1>9. PipeOrder'
  BY <1>1, <1>2, <1>8, PipeStays
<1>10. SrvTypeOK'
  BY <1>1, <1>2, <1>4, <1>5, <1>7 DEF SrvTypeOK
<1>11. ServedInTurn'
  BY <1>1, <1>2, <1>7, NoLine
<1>12. RpcTurns'
  <2>1. \A i \in DOMAIN srvOut' : srvAsked'[srvOut'[i].to] \in Queued /\ srvOut'[i].what # "event" =>
          srvOut'[i].to < id /\ \A q \in Ids(srvQueue') : srvOut'[i].to < q
    BY <1>1, <1>2, <1>4 DEF RpcTurns, Asked
  <2>2. \A q \in srvAside' : Asked(q)' = "steer"
    BY <1>1, <1>2 DEF RpcTurns, Asked
  <2> QED
    BY <1>1, <1>4, <1>5, <1>7, <2>1, <2>2 DEF RpcTurns, RpcAgent, Asked
<1> QED
  BY <1>1, <1>9, <1>10, <1>11, <1>12 DEF ServersInv, AcpTurns

\* RPC: a handler is over, is answered, and leaves the agent without a turn.
LEMMA ServesKeeps ==
  ASSUME ServersInv, NEW what \in {"result", "error"}, Serves(what),
         srvAgents' \in Seq(ServedAgents), DOMAIN srvAgents' = {1}, srvAgents'[1].turn = 0
  PROVE  ServersInv'
<1>1. /\ srvFront = "rpc" /\ srvFront' = "rpc" /\ srvAsked' = srvAsked /\ srvSent' = srvSent
      /\ srvLoop # 0 /\ srvLoop' = 0 /\ srvOut' = Append(srvOut, OutLine(what, srvLoop, NoSid))
      /\ UNCHANGED <<srvUnread, srvQueue, srvAside, srvSessions, srvCurrent>>
  BY DEF Serves, Reply, ChainGoesOn
<1>2. SrvTypeOK /\ PipeOrder /\ ServedInTurn /\ RpcTurns
  BY DEF ServersInv
<1>3. PICK line \in OutLines : line = OutLine(what, srvLoop, NoSid) /\ line.what = what /\ line.to = srvLoop
  BY <1>2, LineType DEF SrvTypeOK, NoSid
<1>4. srvOut' = Append(srvOut, line)
  BY <1>1, <1>3
<1>5. /\ srvOut' \in Seq(OutLines)
      /\ \A i \in DOMAIN srvOut' : i \in DOMAIN srvOut \/ srvOut'[i] = line
      /\ \A i \in DOMAIN srvOut : srvOut'[i] = srvOut[i]
      /\ {srvOut'[i].to : i \in DOMAIN srvOut'} = {srvOut[i].to : i \in DOMAIN srvOut} \cup {srvLoop}
  BY <1>2, <1>3, <1>4, LineAdded
<1>6. Known' \subseteq Known \cup {0}
  <2>1. {srvAgents'[a].turn : a \in DOMAIN srvAgents'} = {0}
    OBVIOUS
  <2> QED
    BY <1>1, <1>5, <2>1 DEF Known, Ids
<1>7. PipeOrder'
  BY <1>1, <1>2, <1>6, PipeStays
<1>8. SrvTypeOK'
  BY <1>1, <1>2, <1>5 DEF SrvTypeOK
<1>9. \A i \in DOMAIN srvOut : InOrder(i) => srvOut[i].to < srvLoop
  BY <1>1, <1>2 DEF RpcTurns, InOrder
<1>10. ServedInTurn'
  <2>1. \A i \in DOMAIN srvOut : InOrder(i) => srvOut[i].to <= line.to
    <3>1. \A i \in DOMAIN srvOut : srvOut[i] \in OutLines
      BY <1>2 DEF SrvTypeOK
    <3> QED
      BY <1>2, <1>3, <1>9, <3>1 DEF SrvTypeOK, OutLines
  <2> QED
    BY <1>1, <1>2, <1>3, <1>4, <2>1, RpcLine
<1>11. RpcTurns'
  <2>1. ASSUME NEW i \in DOMAIN srvOut', srvAsked'[srvOut'[i].to] \in Queued, srvOut'[i].what # "event"
        PROVE  \A q \in Ids(srvQueue') : srvOut'[i].to < q
    <3>1. CASE i \in DOMAIN srvOut
      BY <1>1, <1>2, <1>5, <2>1, <3>1 DEF RpcTurns, Asked, Ids
    <3>2. CASE srvOut'[i] = line
      BY <1>1, <1>2, <1>3, <3>2 DEF RpcTurns, Ids
    <3> QED
      BY <1>5, <3>1, <3>2
  <2>2. srvQueue' \in Seq(RequestIds) /\ Rising(srvQueue') /\ \A q \in Ids(srvQueue') : 0 < q
    BY <1>1, <1>2 DEF RpcTurns, SrvTypeOK, Rising, Ids, RequestIds
  <2>3. \A q \in srvAside' : Asked(q)' = "steer"
    BY <1>1, <1>2 DEF RpcTurns, Asked
  <2> QED
    BY <1>1, <2>1, <2>2, <2>3 DEF RpcTurns, RpcAgent, Asked
<1> QED
  BY <1>1, <1>7, <1>8, <1>10, <1>11 DEF ServersInv, AcpTurns

\* RPC: a turn is closed, another session is taken up.
LEMMA RpcAgentMoves ==
  ASSUME ServersInv, srvFront = "rpc"
  PROVE  /\ DOMAIN srvAgents = {1} /\ srvAgents \in Seq(ServedAgents)
         /\ TurnClosed \in Seq(ServedAgents) /\ DOMAIN TurnClosed = {1} /\ TurnClosed[1].turn = 0
         /\ [srvAgents EXCEPT ![1].sid = RpcAgent.sid + 1] \in Seq(ServedAgents)
         /\ DOMAIN [srvAgents EXCEPT ![1].sid = RpcAgent.sid + 1] = {1}
         /\ [srvAgents EXCEPT ![1].sid = RpcAgent.sid + 1][1].turn = RpcAgent.turn
<1>1. /\ DOMAIN srvAgents = {1} /\ srvAgents \in Seq(ServedAgents)
      /\ srvAgents \in [1..Len(srvAgents) -> ServedAgents] /\ Len(srvAgents) \in Nat
  <2>1. srvAgents \in Seq(ServedAgents)
    BY DEF ServersInv, SrvTypeOK
  <2>2. srvAgents \in [1..Len(srvAgents) -> ServedAgents] /\ Len(srvAgents) \in Nat
    BY <2>1
  <2>3. DOMAIN srvAgents = {1}
    BY DEF ServersInv, RpcTurns
  <2> QED
    BY <2>1, <2>2, <2>3
<1>2. /\ srvAgents[1] \in ServedAgents
      /\ [srvAgents[1] EXCEPT !.turn = 0, !.state = "idle"] \in ServedAgents
      /\ [srvAgents[1] EXCEPT !.sid = RpcAgent.sid + 1] \in ServedAgents
  <2>1. srvAgents[1] \in ServedAgents
    BY <1>1
  <2>2. srvAgents[1].sid + 1 \in Nat
    BY <2>1 DEF ServedAgents
  <2> QED
    BY <2>1, <2>2 DEF ServedAgents, RpcAgent
<1>3. /\ TurnClosed \in [1..Len(srvAgents) -> ServedAgents]
      /\ [srvAgents EXCEPT ![1].sid = RpcAgent.sid + 1] \in [1..Len(srvAgents) -> ServedAgents]
  BY <1>1, <1>2 DEF TurnClosed
<1>4. /\ TurnClosed \in Seq(ServedAgents)
      /\ [srvAgents EXCEPT ![1].sid = RpcAgent.sid + 1] \in Seq(ServedAgents)
  BY <1>1, <1>3 DEF Seq
<1> QED
  BY <1>1, <1>2, <1>4 DEF TurnClosed, RpcAgent, ServedAgents

\* RPC: what a handler throws is answered, and closes its turn.
LEMMA RpcThrowsKeeps == ASSUME ServersInv, RpcThrows PROVE ServersInv'
<1>1. Serves("error") /\ srvFront = "rpc" /\ srvAgents' = IF RpcAgent.turn = srvLoop THEN TurnClosed ELSE srvAgents
  BY DEF RpcThrows, Serves
<1>2. RpcAgent.turn # 0 => RpcAgent.turn = srvLoop
  BY <1>1 DEF ServersInv, RpcTurns
<1> QED
  BY <1>1, <1>2, RpcAgentMoves, ServesKeeps DEF RpcAgent

\* RPC: a handler's result; a session is only swapped without a turn.
LEMMA RpcResultKeeps == ASSUME ServersInv, RpcResult PROVE ServersInv'
<1>1. Serves("result") /\ srvFront = "rpc"
  BY DEF RpcResult, Serves
<1>2. Asked(srvLoop) # "prompt" => RpcAgent.turn = 0
  BY <1>1 DEF ServersInv, RpcTurns
<1>3. \/ srvAgents' = TurnClosed
      \/ /\ Asked(srvLoop) # "prompt"
         /\ srvAgents' = srvAgents \/ srvAgents' = [srvAgents EXCEPT ![1].sid = RpcAgent.sid + 1]
  BY DEF RpcResult
<1> QED
  BY <1>1, <1>2, <1>3, RpcAgentMoves, ServesKeeps DEF RpcAgent

\* The other steps of ACP.
LEMMA AcpRefuses ==
  ASSUME ServersInv, AcpRefuse \/ AcpPromptRefused \/ AcpShutdown PROVE ServersInv'
<1>1. srvAgents \in Seq(ServedAgents)
  BY DEF ServersInv, SrvTypeOK
<1>2. CASE AcpRefuse
  BY <1>1, <1>2, AcpReplies DEF AcpRefuse, Reply, srvTurnVars
<1>3. CASE AcpPromptRefused
  BY <1>1, <1>3, AcpReplies DEF AcpPromptRefused, Reply, srvTurnVars
<1>4. CASE AcpShutdown
  BY <1>1, <1>4, AcpReplies DEF AcpShutdown, Reply, srvTurnVars
<1> QED
  BY <1>2, <1>3, <1>4

\* ACP: a cancelled turn goes on until it settles; its session stays busy.
LEMMA AcpCancelKeeps == ASSUME ServersInv, AcpCancel PROVE ServersInv'
<1>1. /\ AcpReads({"cancel"}) /\ srvFront = "acp" /\ UNCHANGED <<srvLoop, srvSessions, srvCurrent>>
      /\ srvAgents' = IF srvCurrent # NoSid /\ srvAgents[CurrentAgent].busy
                        THEN Cancelled(CurrentAgent) ELSE srvAgents
  BY DEF AcpCancel, AcpReads
<1>2. PICK what \in {"result", "error"} : srvOut' = Append(srvOut, OutLine(what, NextUnread, NoSid))
  BY DEF AcpCancel, Reply
<1>3. SrvTypeOK /\ AcpAgents
  BY <1>1 DEF ServersInv, AcpTurns
<1>4. /\ srvAgents' \in Seq(ServedAgents) /\ DOMAIN srvAgents' = DOMAIN srvAgents
      /\ \A a \in DOMAIN srvAgents :
           /\ srvAgents'[a].turn = srvAgents[a].turn /\ srvAgents'[a].sid = srvAgents[a].sid
           /\ srvAgents'[a].state = srvAgents[a].state
           /\ srvAgents'[a].busy <=> srvAgents[a].busy
  <2>1. CASE srvCurrent # NoSid /\ srvAgents[CurrentAgent].busy
    <3>1. PICK c : c = CurrentAgent
      OBVIOUS
    <3>2. c \in DOMAIN srvAgents
      BY <1>3, <2>1, <3>1 DEF AcpAgents, CurrentAgent
    <3>3. srvAgents[c] \in ServedAgents
      BY <1>3, <3>2 DEF SrvTypeOK
    <3> DEFINE agent == [srvAgents[c] EXCEPT !.aborted = TRUE]
    <3>4. srvAgents' = [srvAgents EXCEPT ![c] = agent]
      BY <1>1, <2>1, <3>1 DEF Cancelled
    <3>5. /\ agent \in ServedAgents /\ agent.turn = srvAgents[c].turn /\ agent.sid = srvAgents[c].sid
          /\ agent.state = srvAgents[c].state /\ (agent.busy <=> srvAgents[c].busy)
      BY <3>3 DEF ServedAgents
    <3> HIDE DEF agent
    <3>6. /\ srvAgents' \in Seq(ServedAgents) /\ DOMAIN srvAgents' = DOMAIN srvAgents
          /\ srvAgents'[c] = agent
          /\ \A b \in DOMAIN srvAgents : b # c => srvAgents'[b] = srvAgents[b]
      BY <1>3, <3>2, <3>4, <3>5, AgentMoves
    <3> QED
      BY <3>5, <3>6
  <2>2. CASE ~(srvCurrent # NoSid /\ srvAgents[CurrentAgent].busy)
    BY <1>1, <1>3, <2>2 DEF SrvTypeOK
  <2> QED
    BY <2>1, <2>2
<1> QED
  BY <1>1, <1>2, <1>4, AcpReplies

\* ACP: what was asked is answered, or fails.
LEMMA AcpAnswers == ASSUME ServersInv, AcpFails \/ AcpAnswer PROVE ServersInv'
<1>1. PICK what \in {"result", "error"} :
        /\ srvFront = "acp" /\ srvLoop # 0 /\ srvLoop' = 0
        /\ srvOut' = Append(srvOut, OutLine(what, srvLoop, NoSid))
        /\ UNCHANGED <<srvPipeVars, srvUnread, srvQueue, srvAside, srvAgents, srvSessions, srvCurrent>>
  BY DEF AcpFails, AcpAnswer, Reply, srvTurnVars
<1>2. SrvTypeOK /\ AcpAgents
  BY <1>1 DEF ServersInv, AcpTurns
<1>3. /\ srvCurrent' \in Nat /\ srvAgents' \in Seq(ServedAgents)
      /\ srvCurrent' # NoSid => srvCurrent' \in DOMAIN srvSessions'
      /\ \A s \in DOMAIN srvSessions' : srvSessions'[s] \in DOMAIN srvAgents'
  BY <1>1, <1>2 DEF SrvTypeOK, AcpAgents
<1> QED
  BY <1>1, <1>3, AcpLoopEnds

\* ACP: an agent is made for a session, in place of the one it may have had.
LEMMA AcpCreatedKeeps == ASSUME ServersInv, AcpCreated PROVE ServersInv'
<1>1. PICK sid, agent :
        /\ agent = Len(srvAgents) + 1 /\ sid \in {OldSid, NewSid}
        /\ srvAgents' = Append(srvAgents, NewAgent(sid))
        /\ srvSessions' = [s \in DOMAIN srvSessions \cup {sid} |->
                             IF s = sid THEN agent ELSE srvSessions[s]]
        /\ srvCurrent' = sid
  BY DEF AcpCreated
<1>2. /\ srvFront = "acp" /\ srvLoop # 0 /\ srvLoop' = 0
      /\ srvOut' = Append(srvOut, OutLine("result", srvLoop, NoSid))
      /\ UNCHANGED <<srvPipeVars, srvUnread, srvQueue, srvAside>>
  BY DEF AcpCreated, Reply
<1>3. SrvTypeOK /\ AcpAgents
  BY <1>2 DEF ServersInv, AcpTurns
<1>4. /\ srvAgents \in Seq(ServedAgents) /\ Len(srvAgents) \in Nat /\ DOMAIN srvAgents = 1..Len(srvAgents)
  BY <1>3 DEF SrvTypeOK
<1>5. sid \in Nat
  BY <1>1, <1>4 DEF OldSid, NewSid
<1>6. NewAgent(sid) \in ServedAgents
  BY <1>5 DEF NewAgent, ServedAgents
<1>7. /\ srvAgents' \in Seq(ServedAgents) /\ DOMAIN srvAgents' = 1..(Len(srvAgents) + 1)
      /\ srvAgents'[Len(srvAgents) + 1] = NewAgent(sid)
      /\ \A a \in 1..Len(srvAgents) : srvAgents'[a] = srvAgents[a]
  BY <1>1, <1>4, <1>6, AppendProperties
<1>8. /\ agent \in DOMAIN srvAgents' /\ DOMAIN srvAgents \subseteq DOMAIN srvAgents'
      /\ \A a \in DOMAIN srvAgents' : a \in DOMAIN srvAgents \/ a = agent
  BY <1>1, <1>4, <1>7
<1>9. /\ NewAgent(sid).turn = 0 /\ NewAgent(sid).state = "idle" /\ ~NewAgent(sid).busy
  BY DEF NewAgent
<1>10. \A a \in DOMAIN srvAgents' :
         \/ a \in DOMAIN srvAgents /\ srvAgents'[a] = srvAgents[a]
         \/ srvAgents'[a].turn = 0 /\ srvAgents'[a].state = "idle" /\ ~srvAgents'[a].busy
  BY <1>1, <1>4, <1>7, <1>8, <1>9
<1>11. \A s \in DOMAIN srvSessions' : srvSessions'[s] \in DOMAIN srvAgents'
  BY <1>1, <1>3, <1>8 DEF AcpAgents
<1>12. srvCurrent' \in Nat /\ srvCurrent' \in DOMAIN srvSessions'
  BY <1>1, <1>5
<1> QED
  BY <1>2, <1>7, <1>10, <1>11, <1>12, AcpLoopEnds

\* RPC: what passes the chain.
LEMMA RpcAtOnceKeeps == ASSUME ServersInv, RpcAbort \/ RpcAtOnce PROVE ServersInv'
<1>1. PICK kinds \in {{"abort"}, {"list", "malformed"}} :
        RpcReads(kinds) /\ kinds \cap Queued = {} /\ srvFront = "rpc" /\ UNCHANGED <<srvQueue, srvAside>>
  BY DEF RpcAbort, RpcAtOnce, RpcReads, Queued
<1>0. PICK what \in {"result", "error"} : srvOut' = Append(srvOut, OutLine(what, NextUnread, NoSid))
  BY DEF RpcAbort, RpcAtOnce, Reply
<1>2. SrvTypeOK /\ 1 \in DOMAIN srvAgents
  BY <1>1 DEF ServersInv, RpcTurns
<1>3. srvAgents[1] \in ServedAgents /\ srvAgents \in Seq(ServedAgents)
  BY <1>2 DEF SrvTypeOK
<1> DEFINE agent == [srvAgents[1] EXCEPT !.aborted = TRUE]
<1>4. srvAgents' = srvAgents \/ srvAgents' = [srvAgents EXCEPT ![1] = agent]
  BY DEF RpcAbort, RpcAtOnce
<1>5. /\ agent \in ServedAgents /\ agent.turn = srvAgents[1].turn /\ agent.sid = srvAgents[1].sid
      /\ agent.home = srvAgents[1].home
  BY <1>3 DEF ServedAgents
<1> HIDE DEF agent
<1>6. /\ srvAgents' \in Seq(ServedAgents) /\ DOMAIN srvAgents' = DOMAIN srvAgents
      /\ \A a \in DOMAIN srvAgents :
           /\ srvAgents'[a].turn = srvAgents[a].turn /\ srvAgents'[a].sid = srvAgents[a].sid
           /\ srvAgents'[a].home = srvAgents[a].home
  <2>1. CASE srvAgents' = srvAgents
    BY <1>3, <2>1
  <2>2. CASE srvAgents' = [srvAgents EXCEPT ![1] = agent]
    <3>1. /\ srvAgents' \in Seq(ServedAgents) /\ DOMAIN srvAgents' = DOMAIN srvAgents
          /\ srvAgents'[1] = agent
          /\ \A b \in DOMAIN srvAgents : b # 1 => srvAgents'[b] = srvAgents[b]
      BY <1>2, <1>5, <2>2, AgentMoves
    <3> QED
      BY <1>5, <3>1
  <2> QED
    BY <1>4, <2>1, <2>2
<1> QED
  BY <1>0, <1>1, <1>6, RpcReplies

\* What holds at the start.
LEMMA ServersStart == ServersInit => ServersInv
<1> SUFFICES ASSUME ServersInit PROVE ServersInv
  OBVIOUS
<1>1. /\ srvSent = 0 /\ srvUnread = <<>> /\ srvLoop = 0 /\ srvQueue = <<>> /\ srvAside = {}
      /\ srvSessions = <<>> /\ srvCurrent = 0 /\ srvOut = <<>> /\ srvFront \in {"acp", "rpc"}
      /\ srvAgents = IF srvFront = "rpc" THEN <<NewAgent(1)>> ELSE <<>>
  BY DEF ServersInit, NoSid, OldSid
<1>2. NewAgent(1) \in ServedAgents /\ NewAgent(1).turn = 0
  BY DEF NewAgent, ServedAgents
<1>3. /\ srvAgents \in Seq(ServedAgents) /\ \A a \in DOMAIN srvAgents : srvAgents[a].turn = 0
      /\ srvFront = "rpc" => DOMAIN srvAgents = {1}
      /\ srvFront = "acp" => DOMAIN srvAgents = {}
  <2>1. CASE srvFront = "rpc"
    <3>1. srvAgents = <<NewAgent(1)>>
      BY <1>1, <2>1
    <3>2. /\ <<NewAgent(1)>> \in Seq(ServedAgents) /\ DOMAIN <<NewAgent(1)>> = {1}
          /\ <<NewAgent(1)>>[1] = NewAgent(1)
      BY <1>2
    <3> QED
      BY <1>2, <2>1, <3>1, <3>2
  <2>2. CASE srvFront = "acp"
    BY <1>1, <2>2
  <2> QED
    BY <1>1, <2>1, <2>2
<1>4. SrvTypeOK
  BY <1>1, <1>3 DEF SrvTypeOK
<1>5. Known \subseteq {0} /\ Ids(srvUnread) = {} /\ Rising(srvUnread)
  BY <1>1, <1>3 DEF Known, Ids, Rising
<1>6. PipeOrder
  BY <1>1, <1>5 DEF PipeOrder
<1>7. AcpTurns
  BY <1>1, <1>3 DEF AcpTurns, AcpAgents, LiveTurns, NoSid
<1>8. RpcTurns
  <2>1. srvFront = "rpc" => RpcAgent.turn = 0
    BY <1>3 DEF RpcAgent
  <2> QED
    BY <1>1, <1>3, <2>1 DEF RpcTurns, Rising, Ids
<1>9. ServedInTurn
  <2>1. srvFront = "rpc" => RpcAgent.turn = 0
    BY <1>3 DEF RpcAgent
  <2> QED
    BY <1>1, <2>1 DEF ServedInTurn
<1> QED
  BY <1>4, <1>6, <1>7, <1>8, <1>9 DEF ServersInv

\* Every step of the clients, the servers and the turns keeps the invariant.
LEMMA ServersStep == ServersInv /\ [ServersNext]_srvVars => ServersInv'
<1> SUFFICES ASSUME ServersInv, [ServersNext]_srvVars PROVE ServersInv'
  OBVIOUS
<1>1. CASE UNCHANGED srvVars
  BY <1>1, QuietStep DEF srvVars
<1>2. CASE Ask \/ CloseStdin \/ RpcReturns
  <2>1. CASE CloseStdin
    BY <2>1, QuietStep DEF CloseStdin, srvTurnVars
  <2>2. CASE RpcReturns
    BY <2>2, QuietStep DEF RpcReturns, srvTurnVars, srvPipeVars
  <2> QED
    BY <1>2, <2>1, <2>2, AskKeeps
<1>3. CASE AcpAwait \/ AcpRefuse \/ AcpFails \/ AcpAnswer \/ AcpCreated
  BY <1>3, AcpAwaitKeeps, AcpRefuses, AcpAnswers, AcpCreatedKeeps
<1>4. CASE AcpPromptRefused \/ AcpPrompt \/ AcpCancel \/ AcpShutdown
  BY <1>4, AcpRefuses, AcpPromptKeeps, AcpCancelKeeps
<1>5. CASE RpcAbort \/ RpcAtOnce \/ RpcSteer \/ RpcEnqueue
  BY <1>5, RpcAtOnceKeeps, RpcSteerKeeps, RpcEnqueueKeeps
<1>6. CASE RpcBegin \/ RpcThrows \/ RpcResult \/ \E id \in srvAside : RpcSteered(id)
  BY <1>6, RpcBeginKeeps, RpcThrowsKeeps, RpcResultKeeps, RpcSteeredKeeps
<1>7. CASE \E a \in DOMAIN srvAgents : TurnSettles(a) \/ AcpEnd(a) \/ AcpFree(a) \/ Notify(a)
  BY <1>7, TurnSettlesKeeps, AcpEndKeeps, AcpFreeKeeps, NotifyKeeps
<1> QED
  BY <1>1, <1>2, <1>3, <1>4, <1>5, <1>6, <1>7 DEF ServersNext, ServersProceed

\* What the servers are at, whatever clients ask: the map and the flags of ACP agree
\* with its turns (acp-server.ts:276-330), and the chain of RPC is in the order of its
\* requests (rpc.ts:80-84).
THEOREM ServersInvariance == ServersSpec => []ServersInv
BY ServersStart, ServersStep, PTL DEF ServersSpec

\* A prompt that was accepted is run and its lines are in order and under its own
\* session, and the RPC server answers what it chains in the order in which it was
\* asked (acp-server.ts:112-125, rpc.ts:80-84).
THEOREM ServedTurns == ServersSpec => []ServedInTurn
<1>1. ServersInv => ServedInTurn
  BY DEF ServersInv
<1> QED
  BY <1>1, ServersInvariance, PTL

-----------------------------------------------------------------------------
(* The stream of an agent's events *)

StreamEvent == Terminal \cup MidTurn
StreamRecord == [loop : {"new", "reading", "waiting", "returned", "broken"}, previous : StreamUser \cup {Base},
                 submit : {"none", "pending", "resolved", "rejected"}, closed : BOOLEAN, queue : Seq(StreamEvent)]
EventTypes ==
  /\ {esSink, esTurn} \subseteq StreamUser \cup {Base} /\ esTangled \subseteq StreamUser
  /\ esStream \in [StreamUser -> StreamRecord]
  /\ {esTold, esGot} \subseteq [StreamUser -> Seq(StreamEvent)]

\* A turn that runs is that of a stream not closed.
TurnIsOpen ==
  /\ \A u \in StreamUser : esStream[u].loop = "new" \/ u = esTurn =>
       ~esStream[u].closed /\ esStream[u].submit = (IF u = esTurn THEN "pending" ELSE "none")
  /\ \A u \in StreamUser : u = esTurn => esStream[u].loop # "new"

\* What is below a sink is let off; a stream open by itself is on top.
SinksBelow ==
  /\ \A u \in StreamUser : esStream[u].previous \in esTangled \cup {Base}
  /\ esSink \in esTangled \cup OpenStreams \cup {Base}
  /\ \A u \in OpenStreams \ esTangled : esSink = u /\ OpenStreams = {u}

\* Of a stream not let off nothing is lost on the way to its loop.
NothingMissed ==
  /\ \A u \in StreamUser \ esTangled :
       /\ esGot[u] \o esStream[u].queue = esTold[u]
       /\ esStream[u].loop = "returned" /\ HasTerminal(esTold[u]) => HasTerminal(esGot[u])
  /\ \A u \in StreamUser : esStream[u].loop = "returned" /\ ~esStream[u].closed => HasTerminal(esGot[u])

EventInv == EventTypes /\ TurnIsOpen /\ SinksBelow /\ NothingMissed

\* What is added to a queue comes last of all, what is read from it moves over.
LEMMA QueuedLast ==
  ASSUME NEW got \in Seq(StreamEvent), NEW queue \in Seq(StreamEvent), NEW event \in StreamEvent
  PROVE  got \o Append(queue, event) = Append(got \o queue, event)
<1>1. got \o queue \in Seq(StreamEvent) /\ <<event>> \in Seq(StreamEvent)
  BY ConcatProperties
<1>2. Append(queue, event) = queue \o <<event>> /\ Append(got \o queue, event) = (got \o queue) \o <<event>>
  BY <1>1, AppendIsConcat
<1> QED
  BY <1>1, <1>2, ConcatAssociative

LEMMA ReadFirst ==
  ASSUME NEW got \in Seq(StreamEvent), NEW queue \in Seq(StreamEvent), queue # <<>>
  PROVE  /\ Head(queue) \in StreamEvent /\ Tail(queue) \in Seq(StreamEvent)
         /\ Append(got, Head(queue)) \in Seq(StreamEvent)
         /\ Append(got, Head(queue)) \o Tail(queue) = got \o queue
<1>1. Head(queue) \in StreamEvent /\ Tail(queue) \in Seq(StreamEvent)
  BY HeadTailProperties
<1>2. PICK first \in Seq(StreamEvent) : first = <<Head(queue)>>
  <2>1. PICK event \in StreamEvent : event = Head(queue)
    BY <1>1
  <2>2. <<event>> \in Seq(StreamEvent)
    OBVIOUS
  <2> QED
    BY <2>1, <2>2
<1>3. Append(got, Head(queue)) = got \o first
  BY <1>1, <1>2, AppendIsConcat
<1>4. queue = first \o Tail(queue)
  BY <1>2, HeadTailProperties
<1>5. (got \o first) \o Tail(queue) = got \o (first \o Tail(queue))
  BY <1>1, ConcatAssociative
<1> QED
  BY <1>1, <1>3, <1>4, <1>5

\* What has a terminal event keeps it.
LEMMA TerminalStays ==
  ASSUME NEW events \in Seq(StreamEvent), NEW event \in StreamEvent
  PROVE  /\ Append(events, event) \in Seq(StreamEvent)
         /\ HasTerminal(events) => HasTerminal(Append(events, event))
         /\ event \in Terminal => HasTerminal(Append(events, event))
<1>1. /\ Append(events, event) \in Seq(StreamEvent)
      /\ Len(Append(events, event)) = Len(events) + 1
      /\ Append(events, event)[Len(events) + 1] = event
      /\ \A i \in 1..Len(events) : Append(events, event)[i] = events[i]
  BY AppendProperties
<1>2. Len(events) \in Nat /\ DOMAIN events = 1..Len(events)
  BY LenProperties
<1>3. DOMAIN Append(events, event) = 1..(Len(events) + 1)
  BY <1>1, LenProperties
<1> QED
  BY <1>1, <1>2, <1>3 DEF HasTerminal

LEMMA StreamUsers == Base \notin StreamUser
  BY EventAssumption DEF StreamUser, Base

\* What a stream not let off hears is its own turn, and it hears all of it.
LEMMA HearsItsTurn ==
  ASSUME EventInv, esTurn # Base, NEW u \in StreamUser \ esTangled
  PROVE  u \in Hearing <=> u = esTurn
<1>1. /\ esTurn \in StreamUser /\ esTangled \subseteq StreamUser /\ esSink \in StreamUser \cup {Base}
      /\ esStream[esTurn].loop # "new" /\ ~esStream[esTurn].closed
  BY DEF EventInv, EventTypes, TurnIsOpen
<1>2. esTurn \in OpenStreams
  BY <1>1 DEF OpenStreams
<1>3. ASSUME u = esTurn PROVE u \in Hearing
  <2>1. esSink = u
    BY <1>2, <1>3 DEF EventInv, SinksBelow
  <2> QED
    BY <2>1, StreamUsers DEF Hearing, Forwarding
<1>4. ASSUME u \in Hearing PROVE u = esTurn
  <2>1. PICK heard \in SUBSET StreamUser : heard = (esTangled \cup {esSink}) \ {Base}
    BY <1>1, StreamUsers
  <2>2. Forwarding(heard)
    BY <2>1 DEF Forwarding, EventInv, SinksBelow
  <2>3. u = esSink
    BY <1>4, <2>1, <2>2 DEF Hearing
  <2>4. u \in OpenStreams
    BY <2>3, StreamUsers DEF EventInv, SinksBelow
  <2> QED
    BY <1>2, <2>4 DEF EventInv, SinksBelow
<1> QED
  BY <1>3, <1>4

\* What neither opens, settles nor closes a stream leaves the sinks alone.
LEMMA SinksStay ==
  ASSUME EventInv, UNCHANGED <<esSink, esTurn, esTangled>>,
         \A u \in StreamUser :
           /\ esStream'[u].previous = esStream[u].previous /\ esStream'[u].submit = esStream[u].submit
           /\ esStream'[u].closed = esStream[u].closed
           /\ esStream'[u].loop = "new" <=> esStream[u].loop = "new"
  PROVE  TurnIsOpen' /\ SinksBelow'
<1>1. OpenStreams' = OpenStreams
  BY DEF OpenStreams
<1> QED
  BY <1>1 DEF EventInv, TurnIsOpen, SinksBelow

LEMMA EventsStart == ASSUME EventStreamInit PROVE EventInv
<1>1. /\ esSink = Base /\ esTurn = Base /\ esTangled = {}
      /\ esStream = [u \in StreamUser |->
           [loop |-> "new", previous |-> Base, submit |-> "none", closed |-> FALSE, queue |-> <<>>]]
      /\ esTold = [u \in StreamUser |-> <<>>] /\ esGot = [u \in StreamUser |-> <<>>]
  BY DEF EventStreamInit
<1>2. EventTypes
  BY <1>1 DEF EventTypes, StreamRecord
<1>3. TurnIsOpen /\ SinksBelow
  BY <1>1, StreamUsers DEF TurnIsOpen, SinksBelow, OpenStreams
<1>4. <<>> \o <<>> = <<>>
  OBVIOUS
<1>5. NothingMissed
  BY <1>1, <1>4 DEF NothingMissed
<1> QED
  BY <1>2, <1>3, <1>5 DEF EventInv

\* A queue that gets an event: its loop wakes.
LEMMA PushDoes ==
  ASSUME NEW stream \in StreamRecord, NEW event \in StreamEvent
  PROVE  /\ Pushed(stream, event) \in StreamRecord
         /\ Pushed(stream, event).queue = Append(stream.queue, event)
         /\ Pushed(stream, event).previous = stream.previous /\ Pushed(stream, event).submit = stream.submit
         /\ Pushed(stream, event).closed = stream.closed
         /\ Pushed(stream, event).loop = WokenLoop(stream.loop)
<1>1. PICK queue \in Seq(StreamEvent) : queue = Append(stream.queue, event)
  BY TerminalStays DEF StreamRecord
<1>2. PICK loop \in {"new", "reading", "waiting", "returned", "broken"} : loop = WokenLoop(stream.loop)
  BY DEF WokenLoop, StreamRecord
<1>3. Pushed(stream, event) = [stream EXCEPT !.queue = queue, !.loop = loop]
  BY <1>1, <1>2 DEF Pushed
<1> QED
  BY <1>1, <1>2, <1>3 DEF StreamRecord

LEMMA TellKeeps ==
  ASSUME EventInv, esTurn # Base, NEW event \in StreamEvent, Tell(event),
         UNCHANGED <<esSink, esTurn, esGot, esTangled>>
  PROVE  EventInv'
<1>1. /\ esTurn \in StreamUser /\ esStream \in [StreamUser -> StreamRecord]
      /\ esTold \in [StreamUser -> Seq(StreamEvent)] /\ esGot \in [StreamUser -> Seq(StreamEvent)]
  BY DEF EventInv, EventTypes
<1>2. /\ esTold' = [esTold EXCEPT ![esTurn] = Append(esTold[esTurn], event)]
      /\ esStream' = [u \in StreamUser |->
                        IF u \in Hearing THEN Pushed(esStream[u], event) ELSE esStream[u]]
  BY DEF Tell
<1>3. \A u \in StreamUser :
        /\ esStream'[u] \in StreamRecord
        /\ esStream'[u].previous = esStream[u].previous /\ esStream'[u].submit = esStream[u].submit
        /\ esStream'[u].closed = esStream[u].closed
        /\ esStream'[u].loop \in {esStream[u].loop, WokenLoop(esStream[u].loop)}
        /\ esStream'[u].queue = (IF u \in Hearing THEN Append(esStream[u].queue, event) ELSE esStream[u].queue)
  BY <1>1, <1>2, PushDoes
<1>4. \A u \in StreamUser :
        /\ esStream'[u].loop = "new" <=> esStream[u].loop = "new"
        /\ esStream'[u].loop = "returned" <=> esStream[u].loop = "returned"
  BY <1>3 DEF WokenLoop
<1>5. EventTypes'
  <2>1. Append(esTold[esTurn], event) \in Seq(StreamEvent)
    BY <1>1, TerminalStays
  <2>2. esTold' \in [StreamUser -> Seq(StreamEvent)]
    BY <1>1, <1>2, <2>1
  <2>3. esStream' \in [StreamUser -> StreamRecord]
    BY <1>2, <1>3
  <2> QED
    BY <2>2, <2>3 DEF EventInv, EventTypes
<1>6. TurnIsOpen' /\ SinksBelow'
  BY <1>3, <1>4, SinksStay
<1>7. ASSUME NEW u \in StreamUser \ esTangled
      PROVE  /\ esGot'[u] \o esStream'[u].queue = esTold'[u]
             /\ esStream'[u].loop = "returned" /\ HasTerminal(esTold'[u]) => HasTerminal(esGot'[u])
  <2>1. /\ esGot[u] \in Seq(StreamEvent) /\ esStream[u].queue \in Seq(StreamEvent) /\ esGot'[u] = esGot[u]
        /\ esGot[u] \o esStream[u].queue = esTold[u]
        /\ esStream[u].loop = "returned" /\ HasTerminal(esTold[u]) => HasTerminal(esGot[u])
    BY <1>1 DEF StreamRecord, EventInv, NothingMissed
  <2>2. u \in Hearing <=> u = esTurn
    BY HearsItsTurn
  <2>3. CASE u = esTurn
    <3>1. esTold'[u] = Append(esTold[u], event) /\ esStream'[u].queue = Append(esStream[u].queue, event)
      BY <1>1, <1>2, <1>3, <2>2, <2>3
    <3>2. esGot[u] \o Append(esStream[u].queue, event) = Append(esTold[u], event)
      BY <2>1, QueuedLast
    <3>3. esStream[u].loop = "returned" => HasTerminal(esGot[u])
      BY <2>3 DEF EventInv, TurnIsOpen, NothingMissed
    <3> QED
      BY <1>4, <2>1, <3>1, <3>2, <3>3
  <2>4. CASE u # esTurn
    <3>1. esTold'[u] = esTold[u] /\ esStream'[u].queue = esStream[u].queue
      BY <1>1, <1>2, <1>3, <2>2, <2>4
    <3> QED
      BY <1>4, <2>1, <3>1
  <2> QED
    BY <2>3, <2>4
<1>8. NothingMissed'
  <2>1. \A u \in StreamUser : esStream'[u].loop = "returned" /\ ~esStream'[u].closed => HasTerminal(esGot'[u])
    BY <1>3, <1>4 DEF EventInv, NothingMissed
  <2> QED
    BY <1>7, <2>1 DEF NothingMissed
<1> QED
  BY <1>5, <1>6, <1>8 DEF EventInv

\* What changes neither an event nor a loop that has returned, and no type.
LEMMA NothingRead ==
  ASSUME EventInv, UNCHANGED <<esTold, esGot, esTangled>>,
         \A u \in StreamUser :
           /\ esStream'[u].queue = esStream[u].queue
           /\ esStream'[u].loop = "returned" => esStream[u].loop = "returned"
           /\ esStream[u].closed => esStream'[u].closed
  PROVE  NothingMissed'
  BY DEF EventInv, NothingMissed

\* A stream may be let off, never be held to more.
LEMMA OpenKeeps ==
  ASSUME EventInv, NEW u \in StreamUser, OpenStream(u)
  PROVE  EventInv'
<1>1. /\ esTurn \in StreamUser \cup {Base} /\ esSink \in StreamUser \cup {Base} /\ esTangled \subseteq StreamUser
      /\ esStream \in [StreamUser -> StreamRecord] /\ esStream[u] \in StreamRecord
      /\ esStream[u].loop = "new" /\ ~esStream[u].closed /\ u # esTurn
  BY DEF EventInv, EventTypes, TurnIsOpen, OpenStream
<1>2. /\ esSink' = u /\ UNCHANGED <<esTold, esGot>>
      /\ esTangled' = IF OpenStreams = {} THEN esTangled ELSE esTangled \cup {u} \cup OpenStreams
  BY DEF OpenStream
<1>3. PICK submit \in {"pending", "rejected"} :
        /\ esStream' = [esStream EXCEPT ![u] = [esStream[u] EXCEPT !.loop = "reading", !.previous = esSink,
                                                                   !.submit = submit]]
        /\ IF submit = "pending" THEN esTurn = Base /\ esTurn' = u ELSE esTurn' = esTurn
  BY <1>1 DEF OpenStream
<1>4. /\ esStream'[u] \in StreamRecord /\ esStream'[u].loop = "reading" /\ esStream'[u].previous = esSink
      /\ esStream'[u].submit = submit /\ esStream'[u].closed = esStream[u].closed
      /\ esStream'[u].queue = esStream[u].queue
      /\ \A v \in StreamUser \ {u} : esStream'[v] = esStream[v]
  BY <1>1, <1>3 DEF StreamRecord
<1>5. OpenStreams' = OpenStreams \cup {u} /\ OpenStreams \subseteq StreamUser
  BY <1>1, <1>4 DEF OpenStreams
<1>6. EventTypes'
  <2>1. esStream' \in [StreamUser -> StreamRecord]
    BY <1>1, <1>3, <1>4
  <2>2. {esSink', esTurn'} \subseteq StreamUser \cup {Base} /\ esTangled' \subseteq StreamUser
    BY <1>1, <1>2, <1>3, <1>5
  <2> QED
    BY <1>2, <2>1, <2>2 DEF EventInv, EventTypes
<1>7. TurnIsOpen'
  BY <1>1, <1>3, <1>4, StreamUsers DEF EventInv, TurnIsOpen
<1>8. SinksBelow'
  <2>1. esTangled \subseteq esTangled'
    BY <1>2
  <2>2. esSink \in esTangled' \cup {Base}
    BY <1>2 DEF EventInv, SinksBelow
  <2>3. \A v \in StreamUser : esStream'[v].previous \in esTangled' \cup {Base}
    BY <1>4, <2>1, <2>2 DEF EventInv, SinksBelow
  <2>4. \A v \in OpenStreams' \ esTangled' : v = u /\ OpenStreams' = {u}
    BY <1>2, <1>5
  <2> QED
    BY <1>2, <1>5, <2>3, <2>4 DEF SinksBelow
<1>9. NothingMissed'
  <2>1. /\ esTangled \subseteq esTangled'
        /\ \A v \in StreamUser : /\ esStream'[v].queue = esStream[v].queue
                                 /\ esStream'[v].loop = "returned" => esStream[v].loop = "returned"
                                 /\ esStream'[v].closed = esStream[v].closed
    BY <1>2, <1>4
  <2> QED
    BY <1>2, <2>1 DEF EventInv, NothingMissed
<1> QED
  BY <1>6, <1>7, <1>8, <1>9 DEF EventInv

LEMMA SettleKeeps ==
  ASSUME EventInv, NEW outcome \in {"resolved", "rejected"}, SettleTurn(outcome)
  PROVE  EventInv'
<1>1. /\ esTurn \in StreamUser /\ esStream \in [StreamUser -> StreamRecord] /\ esStream[esTurn] \in StreamRecord
      /\ esTurn' = Base /\ UNCHANGED <<esSink, esTold, esGot, esTangled>>
      /\ esStream' = [esStream EXCEPT ![esTurn] = [esStream[esTurn] EXCEPT !.submit = outcome]]
  BY DEF EventInv, EventTypes, SettleTurn
<1>2. /\ esStream'[esTurn] = [esStream[esTurn] EXCEPT !.submit = outcome]
      /\ esStream'[esTurn] \in StreamRecord
      /\ \A v \in StreamUser \ {esTurn} : esStream'[v] = esStream[v]
  BY <1>1 DEF StreamRecord
<1>3. \A v \in StreamUser :
        /\ esStream'[v].loop = esStream[v].loop /\ esStream'[v].previous = esStream[v].previous
        /\ esStream'[v].closed = esStream[v].closed /\ esStream'[v].queue = esStream[v].queue
        /\ esStream'[v].submit = (IF v = esTurn THEN outcome ELSE esStream[v].submit)
  BY <1>1, <1>2 DEF StreamRecord
<1>4. OpenStreams' = OpenStreams
  BY <1>3 DEF OpenStreams
<1>5. EventTypes'
  <2>1. esStream' \in [StreamUser -> StreamRecord]
    BY <1>1, <1>2
  <2> QED
    BY <1>1, <2>1 DEF EventInv, EventTypes
<1>6. TurnIsOpen'
  BY <1>1, <1>3, StreamUsers DEF EventInv, TurnIsOpen
<1>7. SinksBelow'
  BY <1>1, <1>3, <1>4 DEF EventInv, SinksBelow
<1>8. NothingMissed'
  BY <1>1, <1>3, NothingRead
<1> QED
  BY <1>5, <1>6, <1>7, <1>8 DEF EventInv

LEMMA CloseKeeps ==
  ASSUME EventInv, NEW u \in StreamUser, CloseStream(u)
  PROVE  EventInv'
<1>1. /\ esStream \in [StreamUser -> StreamRecord] /\ esStream[u] \in StreamRecord
      /\ esTold \in [StreamUser -> Seq(StreamEvent)] /\ esGot \in [StreamUser -> Seq(StreamEvent)]
      /\ esStream[u].loop # "new" /\ ~esStream[u].closed /\ u # esTurn
      /\ esSink' = esStream[u].previous /\ UNCHANGED <<esTurn, esGot, esTangled>>
  BY DEF EventInv, EventTypes, TurnIsOpen, CloseStream
<1>2. PICK adds \in BOOLEAN :
        /\ esStream' = [esStream EXCEPT ![u] = Closed(IF adds THEN Pushed(esStream[u], "error") ELSE esStream[u])]
        /\ esTold' = [esTold EXCEPT ![u] = IF adds THEN Append(esTold[u], "error") ELSE esTold[u]]
  BY DEF CloseStream
<1>3. "error" \in StreamEvent /\ "error" \in Terminal
  BY DEF StreamEvent, Terminal
<1>4. /\ esStream'[u] \in StreamRecord /\ esStream'[u].closed
      /\ esStream'[u].previous = esStream[u].previous /\ esStream'[u].submit = esStream[u].submit
      /\ esStream'[u].loop # "new" /\ (esStream'[u].loop = "returned" <=> esStream[u].loop = "returned")
      /\ esStream'[u].queue = (IF adds THEN Append(esStream[u].queue, "error") ELSE esStream[u].queue)
  <2>1. PICK pushed \in StreamRecord : pushed = IF adds THEN Pushed(esStream[u], "error") ELSE esStream[u]
    BY <1>1, <1>3, PushDoes
  <2>2. /\ pushed.previous = esStream[u].previous /\ pushed.submit = esStream[u].submit
        /\ pushed.loop \in {esStream[u].loop, WokenLoop(esStream[u].loop)}
        /\ pushed.queue = (IF adds THEN Append(esStream[u].queue, "error") ELSE esStream[u].queue)
    BY <1>1, <1>3, <2>1, PushDoes
  <2>3. esStream'[u] = Closed(pushed)
    BY <1>1, <1>2, <2>1
  <2>4. /\ Closed(pushed) \in StreamRecord /\ Closed(pushed).closed /\ Closed(pushed).previous = pushed.previous
        /\ Closed(pushed).submit = pushed.submit /\ Closed(pushed).queue = pushed.queue
        /\ Closed(pushed).loop = WokenLoop(pushed.loop)
    BY DEF Closed, StreamRecord, WokenLoop
  <2> QED
    BY <1>1, <2>2, <2>3, <2>4 DEF WokenLoop
<1>5. \A v \in StreamUser \ {u} : esStream'[v] = esStream[v] /\ esTold'[v] = esTold[v]
  BY <1>1, <1>2
<1>6. OpenStreams' = OpenStreams \ {u} /\ u \in OpenStreams
  BY <1>1, <1>4, <1>5 DEF OpenStreams
<1>7. EventTypes'
  <2>1. esStream' \in [StreamUser -> StreamRecord]
    BY <1>1, <1>2, <1>4
  <2>2. (IF adds THEN Append(esTold[u], "error") ELSE esTold[u]) \in Seq(StreamEvent)
    BY <1>1, <1>3, TerminalStays
  <2>3. esTold' \in [StreamUser -> Seq(StreamEvent)]
    BY <1>1, <1>2, <2>2
  <2>4. esSink' \in StreamUser \cup {Base}
    BY <1>1 DEF StreamRecord
  <2> QED
    BY <1>1, <2>1, <2>3, <2>4 DEF EventInv, EventTypes
<1>8. TurnIsOpen'
  <2>1. \A v \in StreamUser \ {u} : esStream[v].loop = "new" \/ v = esTurn =>
          ~esStream[v].closed /\ esStream[v].submit = (IF v = esTurn THEN "pending" ELSE "none")
    BY DEF EventInv, TurnIsOpen
  <2> QED
    BY <1>1, <1>4, <1>5, <2>1 DEF EventInv, TurnIsOpen
<1>9. SinksBelow'
  <2>1. \A v \in StreamUser : esStream'[v].previous \in esTangled \cup {Base}
    BY <1>4, <1>5 DEF EventInv, SinksBelow
  <2>2. \A v \in OpenStreams' : v \in esTangled
    BY <1>6 DEF EventInv, SinksBelow
  <2> QED
    BY <1>1, <1>4, <2>1, <2>2 DEF SinksBelow
<1>10. ASSUME NEW v \in StreamUser \ esTangled
       PROVE  /\ esGot'[v] \o esStream'[v].queue = esTold'[v]
              /\ esStream'[v].loop = "returned" /\ HasTerminal(esTold'[v]) => HasTerminal(esGot'[v])
  <2>1. /\ esGot[v] \in Seq(StreamEvent) /\ esStream[v].queue \in Seq(StreamEvent) /\ esGot'[v] = esGot[v]
        /\ esGot[v] \o esStream[v].queue = esTold[v]
        /\ esStream[v].loop = "returned" /\ HasTerminal(esTold[v]) => HasTerminal(esGot[v])
    BY <1>1 DEF StreamRecord, EventInv, NothingMissed
  <2>2. CASE v = u
    <3>1. esGot[u] \o Append(esStream[u].queue, "error") = Append(esTold[u], "error")
      <4>1. /\ esGot[u] \in Seq(StreamEvent) /\ esStream[u].queue \in Seq(StreamEvent)
            /\ esGot[u] \o esStream[u].queue = esTold[u]
        BY <2>1, <2>2
      <4>2. PICK error \in StreamEvent : error = "error"
        BY <1>3
      <4>3. esGot[u] \o Append(esStream[u].queue, error) = Append(esGot[u] \o esStream[u].queue, error)
        BY <4>1, QueuedLast
      <4> QED
        BY <4>1, <4>2, <4>3
    <3>2. esTold'[u] = IF adds THEN Append(esTold[u], "error") ELSE esTold[u]
      BY <1>1, <1>2
    <3>3. esStream[u].loop = "returned" => HasTerminal(esGot[u])
      BY <1>1 DEF EventInv, NothingMissed
    <3> QED
      BY <1>4, <2>1, <2>2, <3>1, <3>2, <3>3
  <2>3. CASE v # u
    BY <1>5, <2>1, <2>3
  <2> QED
    BY <2>2, <2>3
<1>11. NothingMissed'
  <2>1. \A v \in StreamUser : esStream'[v].loop = "returned" /\ ~esStream'[v].closed => HasTerminal(esGot'[v])
    BY <1>1, <1>4, <1>5 DEF EventInv, NothingMissed
  <2> QED
    BY <1>1, <1>10, <2>1 DEF NothingMissed
<1> QED
  BY <1>7, <1>8, <1>9, <1>11 DEF EventInv

LEMMA ReadKeeps ==
  ASSUME EventInv, NEW u \in StreamUser, ReadEvent(u)
  PROVE  EventInv'
<1>1. /\ esStream \in [StreamUser -> StreamRecord] /\ esStream[u] \in StreamRecord
      /\ esGot \in [StreamUser -> Seq(StreamEvent)] /\ esGot[u] \in Seq(StreamEvent)
      /\ esStream[u].loop = "reading" /\ esStream[u].queue # <<>> /\ esStream[u].queue \in Seq(StreamEvent)
      /\ UNCHANGED <<esSink, esTurn, esTold, esTangled>>
  BY DEF EventInv, EventTypes, ReadEvent, Drained, StreamRecord
<1>2. PICK event : event = Head(esStream[u].queue)
  OBVIOUS
<1>3. PICK loop \in {"reading", "returned"} : loop = IF event \in Terminal THEN "returned" ELSE "reading"
  OBVIOUS
<1>4. /\ esGot' = [esGot EXCEPT ![u] = Append(esGot[u], event)]
      /\ esStream' = [esStream EXCEPT ![u] = [esStream[u] EXCEPT !.queue = Tail(esStream[u].queue), !.loop = loop]]
  BY <1>1, <1>2, <1>3 DEF ReadEvent
<1>5. /\ event \in StreamEvent /\ Tail(esStream[u].queue) \in Seq(StreamEvent)
      /\ Append(esGot[u], event) \in Seq(StreamEvent)
      /\ Append(esGot[u], event) \o Tail(esStream[u].queue) = esGot[u] \o esStream[u].queue
  BY <1>1, <1>2, ReadFirst
<1>6. /\ esStream'[u] \in StreamRecord /\ esStream'[u].loop = loop
      /\ esStream'[u].previous = esStream[u].previous /\ esStream'[u].submit = esStream[u].submit
      /\ esStream'[u].closed = esStream[u].closed /\ esStream'[u].queue = Tail(esStream[u].queue)
      /\ \A v \in StreamUser \ {u} : esStream'[v] = esStream[v]
  BY <1>1, <1>4, <1>5 DEF StreamRecord
<1>7. esGot'[u] = Append(esGot[u], event) /\ \A v \in StreamUser \ {u} : esGot'[v] = esGot[v]
  BY <1>1, <1>4
<1>8. EventTypes'
  <2>1. esStream' \in [StreamUser -> StreamRecord] /\ esGot' \in [StreamUser -> Seq(StreamEvent)]
    BY <1>1, <1>4, <1>5, <1>6
  <2> QED
    BY <1>1, <2>1 DEF EventInv, EventTypes
<1>9. TurnIsOpen' /\ SinksBelow'
  BY <1>1, <1>6, SinksStay
<1>10. /\ loop = "returned" => HasTerminal(esGot'[u])
       /\ HasTerminal(esGot[u]) => HasTerminal(esGot'[u])
  BY <1>1, <1>3, <1>5, <1>7, TerminalStays
<1>11. NothingMissed'
  <2>1. u \notin esTangled => esGot'[u] \o esStream'[u].queue = esTold[u]
    BY <1>5, <1>6, <1>7 DEF EventInv, NothingMissed
  <2> QED
    BY <1>1, <1>6, <1>7, <1>10, <2>1 DEF EventInv, NothingMissed
<1> QED
  BY <1>8, <1>9, <1>11 DEF EventInv

LEMMA AwaitKeeps ==
  ASSUME EventInv, NEW u \in StreamUser, AwaitEvent(u) \/ BreakLoop(u)
  PROVE  EventInv'
<1>1. /\ esStream \in [StreamUser -> StreamRecord] /\ esStream[u] \in StreamRecord /\ esStream[u].loop = "reading"
      /\ UNCHANGED <<esSink, esTurn, esTold, esGot, esTangled>>
      /\ esGot \in [StreamUser -> Seq(StreamEvent)]
  BY DEF EventInv, EventTypes, AwaitEvent, BreakLoop
<1>2. PICK loop \in {"waiting", "returned", "broken"} :
        /\ esStream' = [esStream EXCEPT ![u] = [esStream[u] EXCEPT !.loop = loop]]
        /\ loop = "returned" => esStream[u].closed /\ esStream[u].queue = <<>>
  BY <1>1 DEF AwaitEvent, BreakLoop, Drained
<1>3. /\ esStream'[u] \in StreamRecord /\ esStream'[u].loop = loop
      /\ esStream'[u].previous = esStream[u].previous /\ esStream'[u].submit = esStream[u].submit
      /\ esStream'[u].closed = esStream[u].closed /\ esStream'[u].queue = esStream[u].queue
      /\ \A v \in StreamUser \ {u} : esStream'[v] = esStream[v]
  BY <1>1, <1>2 DEF StreamRecord
<1>4. EventTypes'
  <2>1. esStream' \in [StreamUser -> StreamRecord]
    BY <1>1, <1>2, <1>3
  <2> QED
    BY <1>1, <2>1 DEF EventInv, EventTypes
<1>5. TurnIsOpen' /\ SinksBelow'
  BY <1>1, <1>3, SinksStay
<1>6. NothingMissed'
  <2>1. u \notin esTangled /\ loop = "returned" => esGot[u] = esTold[u]
    <3>1. esGot[u] \o <<>> = esGot[u]
      BY <1>1, ConcatEmptySeq
    <3> QED
      BY <1>2, <3>1 DEF EventInv, NothingMissed
  <2>2. \A v \in StreamUser : /\ esStream'[v].queue = esStream[v].queue /\ esStream'[v].closed = esStream[v].closed
                              /\ v # u => esStream'[v].loop = esStream[v].loop
    BY <1>3
  <2>3. ASSUME NEW v \in StreamUser \ esTangled
        PROVE  /\ esGot'[v] \o esStream'[v].queue = esTold'[v]
               /\ esStream'[v].loop = "returned" /\ HasTerminal(esTold'[v]) => HasTerminal(esGot'[v])
    <3>1. /\ esGot[v] \o esStream[v].queue = esTold[v] /\ esGot'[v] = esGot[v] /\ esTold'[v] = esTold[v]
          /\ esStream[v].loop = "returned" /\ HasTerminal(esTold[v]) => HasTerminal(esGot[v])
      BY <1>1 DEF EventInv, NothingMissed
    <3> QED
      BY <1>3, <2>1, <2>2, <3>1
  <2>4. \A v \in StreamUser : esStream'[v].loop = "returned" /\ ~esStream'[v].closed => HasTerminal(esGot'[v])
    <3>1. \A v \in StreamUser : esStream[v].loop = "returned" /\ ~esStream[v].closed => HasTerminal(esGot[v])
      BY DEF EventInv, NothingMissed
    <3> QED
      BY <1>1, <1>2, <1>3, <2>2, <3>1
  <2> QED
    BY <1>1, <2>3, <2>4 DEF NothingMissed
<1> QED
  BY <1>4, <1>5, <1>6 DEF EventInv

LEMMA EventStep == ASSUME EventInv, [EventStreamNext]_eventVars PROVE EventInv'
<1>1. CASE UNCHANGED eventVars
  <2>1. UNCHANGED <<esSink, esTurn, esStream, esTold, esGot, esTangled>>
    BY <1>1 DEF eventVars
  <2>2. TurnIsOpen' /\ SinksBelow'
    BY <2>1, SinksStay
  <2>3. EventTypes' /\ NothingMissed'
    BY <2>1 DEF EventInv, EventTypes, NothingMissed
  <2> QED
    BY <2>2, <2>3 DEF EventInv
<1>2. CASE AuditFails
  <2>1. UNCHANGED <<esSink, esTurn, esStream, esTold, esGot, esTangled>>
    BY <1>2 DEF AuditFails
  <2>2. TurnIsOpen' /\ SinksBelow'
    BY <2>1, SinksStay
  <2>3. EventTypes' /\ NothingMissed'
    BY <2>1 DEF EventInv, EventTypes, NothingMissed
  <2> QED
    BY <2>2, <2>3 DEF EventInv
<1>3. CASE EndPrompt \/ FailTurn \/ \E event \in MidTurn : EmitEvent(event)
  <2>1. PICK event \in StreamEvent : esTurn # Base /\ Tell(event) /\ UNCHANGED <<esSink, esTurn, esGot, esTangled>>
    BY <1>3 DEF EndPrompt, FailTurn, EmitEvent, StreamEvent, Terminal
  <2> QED
    BY <2>1, TellKeeps
<1> QED
  BY <1>1, <1>2, <1>3, SettleKeeps, CloseKeeps, ReadKeeps, AwaitKeeps, OpenKeeps
  DEF EventStreamNext, EventsProceed

\* A loop over a stream reads the events of its own turn, each once and in order, and ends
\* behind the one that says so; and the sink that was found is put back when the streams
\* are closed, unless two were open at once (async-iterable.ts:58-131).
THEOREM StreamsAreTheirTurns == EventStreamSpec => []StreamIsItsTurn
<1>1. EventInv => StreamIsItsTurn
  BY DEF EventInv, NothingMissed, SinksBelow, StreamIsItsTurn
<1> QED
  BY <1>1, EventsStart, EventStep, PTL DEF EventStreamSpec
=============================================================================
