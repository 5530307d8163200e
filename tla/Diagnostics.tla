----------------------------- MODULE Diagnostics -----------------------------
(***************************************************************************)
(* What the agent asks of the language's tools after an edit (agent.ts,    *)
(* withDiagnostics): first the compiler, then, when it is configured, a    *)
(* language server, which is started for the pass, shown the files one by  *)
(* one, and stopped (lsp-diagnostic-provider.ts, lsp-client.ts).  The      *)
(* server pushes its findings when it likes, or never, may die, and may    *)
(* leave its pipes to a process of its own.                                *)
(*                                                                         *)
(* The text of a file is its version.                                      *)
(***************************************************************************)
EXTENDS Naturals, Sequences

CONSTANTS DgFiles,       \* the files the provider lists, in its order
          MaxDgEdits,     \* bounds: the agent's edits,
          MaxOthersEdits,\* edits of others meanwhile,
          MaxPushes      \* pushes of one server
NoDiags == [about |-> 0, errors |-> FALSE]

VARIABLES
  dgPc,      \* idle, compiler, connect, files, wait, close, closing, exited
  dgText,    \* each file's text
  dgSince,   \* history: the texts when the pass began
  dgEdits,   \* [agent, others]: how many
  dgServer,  \* [up, held, noticed, opened, pushed]: the process and what it was shown
  dgPipe,    \* pushes written and not read: [file, about, errors]
  dgCache,   \* diagnosticsCache: the last push about each file
  dgTodo,    \* files not shown yet; the first one is waited for
  dgFound,   \* findings of this pass
  dgShown    \* what the pass appended to the tool's result

dgVars == <<dgPc, dgText, dgSince, dgEdits, dgServer, dgPipe, dgCache, dgTodo, dgFound, dgShown>>

DgFile == {DgFiles[i] : i \in DOMAIN DgFiles}

\* The provider lists files.
ASSUME DgFilesAssumption == DgFiles \in Seq(DgFile)

Unopened == [f \in DgFile |-> 0]
NoServer == [up |-> FALSE, held |-> FALSE, noticed |-> TRUE, opened |-> Unopened, pushed |-> 0]

DiagnosticsInit ==
  /\ dgPc = "idle"
  /\ dgText = [f \in DgFile |-> 1] /\ dgSince = dgText
  /\ dgEdits = [agent |-> 0, others |-> 0]
  /\ dgServer = NoServer /\ dgPipe = <<>>
  /\ dgCache = [f \in DgFile |-> NoDiags]
  /\ dgTodo = <<>> /\ dgFound = {} /\ dgShown = {}

\* An edit of the agent succeeded: the compiler is run, by a timer of its own.
EditMade(f) ==
  /\ dgPc = "idle" /\ dgEdits.agent < MaxDgEdits
  /\ dgEdits' = [dgEdits EXCEPT !.agent = @ + 1]
  /\ dgText' = [dgText EXCEPT ![f] = @ + 1]
  /\ dgSince' = dgText'
  /\ dgFound' = {} /\ dgShown' = {}
  /\ dgPc' = "compiler"
  /\ UNCHANGED <<dgServer, dgPipe, dgCache, dgTodo>>
OthersEdit(f) ==
  /\ dgPc # "idle" /\ dgEdits.others < MaxOthersEdits
  /\ dgEdits' = [dgEdits EXCEPT !.others = @ + 1]
  /\ dgText' = [dgText EXCEPT ![f] = @ + 1]
  /\ UNCHANGED <<dgPc, dgSince, dgServer, dgPipe, dgCache, dgTodo, dgFound, dgShown>>

-----------------------------------------------------------------------------
(* The client of one pass *)

NewCache == [f \in DgFile |-> NoDiags]

\* A command that does not exist is a child that is dead at once.
Connect ==
  /\ dgPc = "compiler"
  /\ \E up, held \in BOOLEAN :
       dgServer' = [NoServer EXCEPT !.up = up, !.held = up /\ held, !.noticed = FALSE]
  /\ dgPipe' = <<>> /\ dgCache' = NewCache
  /\ dgTodo' = DgFiles
  /\ dgPc' = "connect"
  /\ UNCHANGED <<dgText, dgSince, dgEdits, dgFound, dgShown>>
Connected ==
  /\ dgPc = "connect" /\ dgServer.up
  /\ dgPc' = "files"
  /\ UNCHANGED <<dgText, dgSince, dgEdits, dgServer, dgPipe, dgCache, dgTodo, dgFound, dgShown>>

\* The provider has diagnostics d about the file in turn.
Taken(d) ==
  /\ dgFound' = IF d.errors THEN dgFound \cup {[file |-> Head(dgTodo), about |-> d.about]} ELSE dgFound
  /\ dgTodo' = Tail(dgTodo)
  /\ dgPc' = "files"

\* didOpen sends the text of now; what was already pushed about the file is taken
\* at once.  A failure that is known is no obstacle to the next file.
OpenFileNext ==
  /\ dgPc = "files" /\ dgTodo # <<>>
  /\ LET f == Head(dgTodo)
     IN  /\ dgServer' = IF dgServer.up THEN [dgServer EXCEPT !.opened[f] = dgText[f]] ELSE dgServer
         /\ IF dgCache[f] # NoDiags THEN Taken(dgCache[f])
            ELSE dgPc' = "wait" /\ UNCHANGED <<dgTodo, dgFound>>
  /\ UNCHANGED <<dgText, dgSince, dgEdits, dgPipe, dgCache, dgShown>>

\* The pipe of a server that died is written to before its end was noticed: nobody
\* listens to the error.  Or its end was noticed and no timer holds the process:
\* the one of diagnostics() does not.
ProcessEnds ==
  /\ \/ dgPc = "files" /\ dgTodo # <<>> /\ ~dgServer.up /\ ~dgServer.noticed /\ ~dgServer.held
     \/ dgPc = "wait" /\ ~dgServer.up /\ dgServer.noticed
  /\ dgPc' = "exited"
  /\ UNCHANGED <<dgText, dgSince, dgEdits, dgServer, dgPipe, dgCache, dgTodo, dgFound, dgShown>>

ReadPush ==
  /\ dgPipe # <<>> /\ dgPc # "exited"
  /\ LET push == Head(dgPipe)
         d == [about |-> push.about, errors |-> push.errors]
     IN  /\ dgCache' = [dgCache EXCEPT ![push.file] = d]
         /\ IF dgPc = "wait" /\ push.file = Head(dgTodo) THEN Taken(d)
            ELSE UNCHANGED <<dgPc, dgTodo, dgFound>>
  /\ dgPipe' = Tail(dgPipe)
  /\ UNCHANGED <<dgText, dgSince, dgEdits, dgServer, dgShown>>

Timed == {"connect", "wait"}
DgTimeOut ==
  /\ dgPc \in Timed
  /\ IF dgPc = "connect" THEN dgPc' = "close" /\ dgTodo' = <<>> /\ UNCHANGED dgFound
     ELSE Taken(dgCache[Head(dgTodo)])
  /\ UNCHANGED <<dgText, dgSince, dgEdits, dgServer, dgPipe, dgCache, dgShown>>

\* "close" comes when the child is dead, its output read and its pipes free.
PipesFree == ~dgServer.up /\ ~dgServer.held /\ dgPipe = <<>>
DeathNoticed ==
  /\ PipesFree /\ ~dgServer.noticed /\ dgPc # "exited"
  /\ dgServer' = [dgServer EXCEPT !.noticed = TRUE]
  /\ CASE dgPc = "connect" -> dgPc' = "close" /\ dgTodo' = <<>> /\ UNCHANGED dgFound
       [] dgPc = "wait" -> Taken(NoDiags)
       [] OTHER -> UNCHANGED <<dgPc, dgTodo, dgFound>>
  /\ UNCHANGED <<dgText, dgSince, dgEdits, dgPipe, dgCache, dgShown>>

\* close forgets the child before it would ask for a shutdown: the server is killed.
FilesShown ==
  /\ dgPc = "files" /\ dgTodo = <<>>
  /\ dgPc' = "close"
  /\ UNCHANGED <<dgText, dgSince, dgEdits, dgServer, dgPipe, dgCache, dgTodo, dgFound, dgShown>>
KillServer ==
  /\ dgPc = "close"
  /\ dgServer' = [dgServer EXCEPT !.up = FALSE]
  /\ dgPc' = "closing"
  /\ UNCHANGED <<dgText, dgSince, dgEdits, dgPipe, dgCache, dgTodo, dgFound, dgShown>>
PassEnds ==
  /\ dgPc = "closing" /\ PipesFree /\ dgServer.noticed
  /\ dgShown' = dgFound
  /\ dgPc' = "idle"
  /\ UNCHANGED <<dgText, dgSince, dgEdits, dgServer, dgPipe, dgCache, dgTodo, dgFound>>

-----------------------------------------------------------------------------
(* The server *)
Push(f, errors) ==
  /\ dgServer.up /\ dgServer.opened[f] # 0 /\ dgServer.pushed < MaxPushes
  /\ dgPipe' = Append(dgPipe, [file |-> f, about |-> dgServer.opened[f], errors |-> errors])
  /\ dgServer' = [dgServer EXCEPT !.pushed = @ + 1]
  /\ UNCHANGED <<dgPc, dgText, dgSince, dgEdits, dgCache, dgTodo, dgFound, dgShown>>
ServerEnds ==
  /\ dgServer.up
  /\ dgServer' = [dgServer EXCEPT !.up = FALSE]
  /\ UNCHANGED <<dgPc, dgText, dgSince, dgEdits, dgPipe, dgCache, dgTodo, dgFound, dgShown>>

DgProceed ==
  \/ Connect \/ OpenFileNext \/ ReadPush \/ DgTimeOut \/ DeathNoticed
  \/ FilesShown \/ KillServer \/ PassEnds
DiagnosticsNext ==
  \/ DgProceed \/ Connected \/ ProcessEnds \/ ServerEnds
  \/ \E f \in DgFile : EditMade(f) \/ OthersEdit(f) \/ \E errors \in BOOLEAN : Push(f, errors)
DiagnosticsSpec == DiagnosticsInit /\ [][DiagnosticsNext]_dgVars /\ WF_dgVars(DgProceed)

-----------------------------------------------------------------------------
(* Properties *)

\* What the agent is shown after an edit is about a text no older than the edit,
\* whatever was pushed late or in an earlier pass; and a pass leaves no server.
DiagnosticsSound ==
  /\ \A d \in dgShown : d.about >= dgSince[d.file]
  /\ dgPc = "idle" => ~dgServer.up /\ dgServer.noticed

\* A pass ends although the server may never answer, push nothing or die; unless a
\* process of the server's keeps its pipes, which close waits for.
DiagnosticsEnd == []<>(dgPc \in {"idle", "exited"} \/ dgServer.held)
=============================================================================
