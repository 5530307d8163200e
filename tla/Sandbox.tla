-------------------------------- MODULE Sandbox --------------------------------
(***************************************************************************)
(* Commands run for the agent: processes with a time-out and an abort that *)
(* kill them (sandbox/src/process-runner.ts; runProcess of tools.ts and    *)
(* SafeCommandRunner, which know only the child), and DockerSandbox, which *)
(* runs each in a container of its own or all in one container of the task *)
(* (executors.ts).  What was started must end: with the command, with the  *)
(* sandbox, or with the program.                                           *)
(*                                                                         *)
(* A command's process group is its leader, and perhaps a process left in  *)
(* the background that holds the pipes ("loud") and one that does not      *)
(* ("quiet"); any of them may ignore SIGTERM.  A docker command's leader   *)
(* is the client, what it runs is on the daemon's side.  Output and its    *)
(* bounds, the workspace check and the flags of the container are left out.*)
(***************************************************************************)
EXTENDS Naturals, FiniteSets

CONSTANTS
  SbCommand,
  SbAsked,    \* how commands are run ("group", "child", "once", "task"): which, each once
  NoBox

VARIABLES
  sbMode,
  sbProgram,  \* "up" or "dead"
  sbRun,      \* each command: [pc, live, stubborn, cut]
  sbInner,    \* what runs for it in a container: "none", "up", "down"
  sbBox,      \* the task containers, by the command that made them: none, up, down
  sbTask,     \* this.taskContainer
  sbWatched,  \* containers that are removed when the program dies
  sbDisposing \* containers dispose() has taken out and not yet removed

sbVars == <<sbMode, sbProgram, sbRun, sbInner, sbBox, sbTask, sbWatched, sbDisposing>>

Docker == sbMode \in {"once", "task"}
Companions == {"loud", "quiet"}

SbInit ==
  /\ sbMode \in DOMAIN SbAsked
  /\ sbProgram = "up"
  /\ sbRun = [c \in SbCommand |->
       [pc |-> IF c \in SbAsked[sbMode] THEN "idle" ELSE "done", live |-> {}, stubborn |-> {},
        cut |-> FALSE]]
  /\ sbInner = [c \in SbCommand |-> "none"]
  /\ sbBox = [c \in SbCommand |-> "none"]
  /\ sbTask = NoBox
  /\ sbWatched = {} /\ sbDisposing = {}

-----------------------------------------------------------------------------
(* Processes *)

\* Whom a signal of terminate() reaches: the group, or the child alone.
Reached(live) == IF sbMode = "child" THEN live \cap {"leader"} ELSE live

\* SIGTERM now, SIGKILL a second later, whether the command has settled or not.
Terminated(run) ==
  [run EXCEPT !.live = @ \ (Reached(@) \ run.stubborn), !.cut = TRUE]

\* What a signal that was aborted before does at once, CutShort does next.
StartProcess(c) ==
  \E others \in SUBSET (IF Docker THEN {} ELSE Companions) :
    \E stubborn \in SUBSET (others \cup {"leader"}) :
      sbRun' = [sbRun EXCEPT ![c] = [pc |-> "run", live |-> others \cup {"leader"},
                                     stubborn |-> stubborn, cut |-> FALSE]]

Done(c) == sbRun' = [sbRun EXCEPT ![c].pc = "done"]

\* A process exits by itself, a docker client when what it runs has ended.
Exits(c, m) ==
  /\ m \in sbRun[c].live
  /\ m = "leader" => sbInner[c] # "up"
  /\ sbRun' = [sbRun EXCEPT ![c].live = @ \ {m}]
  /\ UNCHANGED <<sbMode, sbProgram, sbInner, sbBox, sbTask, sbWatched, sbDisposing>>

\* The time-out fires or the caller aborts; what comes second finds nothing new
\* to signal.
CutShort(c) ==
  /\ sbProgram = "up"
  /\ sbRun[c].pc = "run" /\ ~sbRun[c].cut
  /\ sbRun' = [sbRun EXCEPT ![c] = Terminated(@)]
  /\ UNCHANGED <<sbMode, sbProgram, sbInner, sbBox, sbTask, sbWatched, sbDisposing>>

\* The second signal of terminate(), which only matters to what the first left.
KillTimer(c) ==
  /\ sbProgram = "up"
  /\ sbRun[c].cut /\ Reached(sbRun[c].live) # {}
  /\ sbRun' = [sbRun EXCEPT ![c].live = @ \ Reached(@)]
  /\ UNCHANGED <<sbMode, sbProgram, sbInner, sbBox, sbTask, sbWatched, sbDisposing>>

\* Mutant: a container that was cut short is left to itself.
AfterCloseAlways(c) == Done(c) /\ sbWatched' = sbWatched \ {c}

\* What the docker sandboxes do with a result: one that was cut short is made
\* sure of on the daemon's side.
AfterClose(c) ==
  IF Docker /\ sbRun[c].cut
  THEN sbRun' = [sbRun EXCEPT ![c].pc = "sweep"] /\ UNCHANGED sbWatched
  ELSE /\ Done(c)
       /\ sbWatched' = IF sbMode = "once" THEN sbWatched \ {c} ELSE sbWatched

\* "close": the leader is gone and nobody holds the pipes.
Close(c) ==
  /\ sbProgram = "up"
  /\ sbRun[c].pc = "run" /\ sbRun[c].live \subseteq {"quiet"}
  /\ AfterClose(c)
  /\ UNCHANGED <<sbMode, sbProgram, sbInner, sbBox, sbTask, sbDisposing>>

-----------------------------------------------------------------------------
(* The docker sandbox *)

\* execute(): a container's removal is arranged before it is made; the task's
\* container is looked for before it is awaited.
Execute(c) ==
  /\ sbProgram = "up" /\ sbRun[c].pc = "idle"
  /\ \/ /\ sbMode # "task" \/ sbTask # NoBox
        /\ StartProcess(c)
        /\ sbWatched' = IF sbMode = "once" THEN sbWatched \cup {c} ELSE sbWatched
     \/ /\ sbMode = "task" /\ sbTask = NoBox
        /\ sbRun' = [sbRun EXCEPT ![c].pc = "ensure"]
        /\ UNCHANGED sbWatched
     \/ /\ sbMode # "task" \/ sbTask # NoBox                            \* no such program
        /\ sbRun' = [sbRun EXCEPT ![c].pc = "done"]
        /\ sbWatched' = IF sbMode = "once" THEN sbWatched \cup {c} ELSE sbWatched
  /\ UNCHANGED <<sbMode, sbProgram, sbInner, sbBox, sbTask, sbDisposing>>

\* The daemon makes the task's container; "docker run -d" has yet to return.
BoxStarts(c) ==
  /\ sbRun[c].pc = "ensure" /\ sbBox[c] = "none"
  /\ sbBox' = [sbBox EXCEPT ![c] = "up"]
  /\ UNCHANGED <<sbMode, sbProgram, sbRun, sbInner, sbTask, sbWatched, sbDisposing>>

\* Mutant: the container is not registered for removal.
EnsureUnwatched(c) == sbTask' = c /\ UNCHANGED sbWatched

\* The container is this sandbox's and is removed when the program dies.
Ensured(c) == sbTask' = c /\ sbWatched' = sbWatched \cup {c}

\* "docker run -d" that fails has made no container, unless it was its time-out
\* that ended it.
EnsureReturns(c) ==
  /\ sbProgram = "up" /\ sbRun[c].pc = "ensure"
  /\ \/ sbBox[c] = "up" /\ Ensured(c) /\ StartProcess(c)
     \/ sbRun' = [sbRun EXCEPT ![c].pc = "failed"] /\ UNCHANGED <<sbTask, sbWatched>>
  /\ UNCHANGED <<sbMode, sbProgram, sbInner, sbBox, sbDisposing>>

\* The daemon starts the command while its client waits; what it is still making
\* for a client that has gone is left out.
InnerStarts(c) ==
  /\ sbProgram = "up"
  /\ Docker /\ sbRun[c].pc = "run" /\ "leader" \in sbRun[c].live /\ sbInner[c] = "none"
  /\ sbMode = "task" => \E b \in SbCommand : sbBox[b] = "up"
  /\ sbInner' = [sbInner EXCEPT ![c] = "up"]
  /\ UNCHANGED <<sbMode, sbProgram, sbRun, sbBox, sbTask, sbWatched, sbDisposing>>

InnerEnds(c) ==
  /\ sbInner[c] = "up"
  /\ sbInner' = [sbInner EXCEPT ![c] = "down"]
  /\ UNCHANGED <<sbMode, sbProgram, sbRun, sbBox, sbTask, sbWatched, sbDisposing>>

\* "docker rm --force" of the command's container, or the sweep that kills its
\* tree in the task's container.
Sweep(c) ==
  /\ sbProgram = "up" /\ sbRun[c].pc = "sweep"
  /\ sbInner' = [sbInner EXCEPT ![c] = IF @ = "up" THEN "down" ELSE @]
  /\ Done(c)
  /\ sbWatched' = IF sbMode = "once" THEN sbWatched \ {c} ELSE sbWatched
  /\ UNCHANGED <<sbMode, sbProgram, sbBox, sbTask, sbDisposing>>

DisposeSandbox ==
  /\ sbProgram = "up" /\ sbTask # NoBox
  /\ sbTask' = NoBox
  /\ sbWatched' = sbWatched \ {sbTask}
  /\ sbDisposing' = sbDisposing \cup {sbTask}
  /\ UNCHANGED <<sbMode, sbProgram, sbRun, sbInner, sbBox>>

\* A container that is removed takes with it what runs in it.
Removed(boxes) ==
  /\ sbBox' = [b \in SbCommand |-> IF b \in boxes /\ sbBox[b] = "up" THEN "down" ELSE sbBox[b]]
  /\ sbInner' = [c \in SbCommand |->
       IF sbInner[c] = "up" /\ (IF sbMode = "once" THEN c \in boxes
                                ELSE \A b \in SbCommand : sbBox'[b] # "up")
       THEN "down" ELSE sbInner[c]]

DisposeReturns(b) ==
  /\ sbProgram = "up" /\ b \in sbDisposing
  /\ sbDisposing' = sbDisposing \ {b}
  /\ Removed({b})
  /\ UNCHANGED <<sbMode, sbProgram, sbRun, sbTask, sbWatched>>

\* The handlers of "exit" and of signals: SIGTERM for the groups, for there is
\* no later in which to send SIGKILL, and the removal of the containers.
ProgramDies ==
  /\ sbProgram = "up" /\ \E c \in SbCommand : sbRun[c].pc \notin {"idle", "done"}
  /\ sbProgram' = "dead"
  /\ sbRun' = [c \in SbCommand |->
       IF sbRun[c].pc = "run" /\ sbMode # "child"
       THEN [sbRun[c] EXCEPT !.live = @ \cap sbRun[c].stubborn] ELSE sbRun[c]]
  /\ Removed(sbWatched)
  /\ UNCHANGED <<sbMode, sbTask, sbWatched, sbDisposing>>

-----------------------------------------------------------------------------
SbProceed(c) == KillTimer(c) \/ Close(c) \/ Sweep(c)

SbNext ==
  \/ \E c \in SbCommand :
       \/ Execute(c) \/ SbProceed(c) \/ CutShort(c)
       \/ EnsureReturns(c) \/ BoxStarts(c) \/ InnerStarts(c) \/ InnerEnds(c) \/ DisposeReturns(c)
       \/ \E m \in Companions \cup {"leader"} : Exits(c, m)
  \/ DisposeSandbox \/ ProgramDies

SbSpec == SbInit /\ [][SbNext]_sbVars /\ \A c \in SbCommand : WF_sbVars(SbProceed(c))

-----------------------------------------------------------------------------
\* A command that was timed out or aborted returns, and nothing of it goes on:
\* not in its process group, whatever ignores SIGTERM or was left in the
\* background, and not in a container (process-runner.ts:5-11,
\* executors.ts:140-148).  Where only the child is known, it alone must end,
\* and the program must live.
CutMeansEnded ==
  \A c \in SbCommand :
    []<>\/ ~sbRun[c].cut \/ sbProgram = "dead"
        \/ sbMode = "child" /\ "leader" \notin sbRun[c].live
        \/ sbRun[c].pc = "done" /\ sbRun[c].live = {} /\ sbInner[c] # "up"

\* A container that runs is going to be removed: by its command, by dispose() or,
\* if the program dies, by the handlers of its death, which leave none that was
\* registered (executors.ts:113-123, 235-243).  Nobody knows of one of the task
\* while it is being made, or when its making was given up: what a death makes
\* of that one is NoBoxOutlivesTheProgram.
ContainersWatched ==
  /\ \A b \in SbCommand :
       sbBox[b] = "up" => b \in sbWatched \cup sbDisposing \/ sbRun[b].pc \in {"ensure", "failed"}
  /\ sbMode = "once" => \A c \in SbCommand : sbInner[c] = "up" => c \in sbWatched
  /\ sbProgram = "dead" => \A b \in sbWatched : sbBox[b] # "up" /\ (sbMode = "once" => sbInner[b] # "up")

\* "If the CLI dies it must not keep running the untrusted workspace"
\* (executors.ts:233-234): when the program is dead, no container of a task runs.
\* The code breaks it with a death while the first command waits for "docker
\* run -d", whose container is registered after that (executors.ts:208-235).
NoBoxOutlivesTheProgram == sbProgram = "dead" => \A b \in SbCommand : sbBox[b] # "up"
=============================================================================
