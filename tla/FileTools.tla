------------------------------ MODULE FileTools ------------------------------
(***************************************************************************)
(* The tools that read, search and change the files of a workspace: read,  *)
(* write, edit, apply_patch, grep, find, ls of the agent (agent-runtime,   *)
(* tools.ts, rg-fallback.ts) and search_text, apply_edit_ir of the kernel  *)
(* (action-backends, tool-registry.ts).  Agents share a workspace, and no  *)
(* tool looks whether another is at work on its file.                      *)
(*                                                                         *)
(* A text is a sequence of lines; a file may be Gone, a temporary one      *)
(* NotFilled, which is not filled yet.  An entry of a listing is a file or *)
(* a temporary one: <<name, "file">> or the name of the temporary file.    *)
(***************************************************************************)
EXTENDS Naturals, FiniteSets, Sequences, SequencesExt

CONSTANTS FtCaller,
          FtOrder,      \* the names of the files, sorted
          FtSetups,     \* [files, calls]: the texts at first, the call of each caller
          MaxResults, MaxEntries,
          MaxFtDeaths   \* bound

VARIABLES
  ftSetup,
  ftFiles,    \* each name's text
  ftTemps,    \* the text of each temporary file, which is next to the file it is for
  ftCalls,    \* each call: [pc, before, after, put, todo, found, total, capped]
  ftAborted,  \* callers whose signal is aborted
  ftStable,   \* history: files nobody has changed since the call listed them
  ftDeaths

ftVars == <<ftSetup, ftFiles, ftTemps, ftCalls, ftAborted, ftStable, ftDeaths>>

FtFile == ToSet(FtOrder)
Gone == <<"gone">>
NotFilled == <<"opened">>
FtInput(c) == ftSetup.calls[c]
FtTool(c) == FtInput(c).tool
NewFileCall == [pc |-> "start", before |-> Gone, after |-> Gone, put |-> {}, todo |-> {},
            found |-> {}, total |-> 0, capped |-> FALSE]

FtText == Seq(STRING \ {"gone", "opened"})
FtCalled ==
  [tool : STRING, path : STRING, text : FtText, base : FtText \cup {Gone}, line : STRING,
   edits : Seq([old : STRING, new : FtText, expected : Nat]),
   patch : [FtFile -> {<<>>} \cup ((FtText \cup {Gone}) \X (FtText \cup {Gone}))]]
ASSUME FtAssumption ==
  /\ FtOrder \in Seq(STRING) /\ \A i, j \in DOMAIN FtOrder : FtOrder[i] = FtOrder[j] => i = j
  /\ IsFiniteSet(FtCaller) /\ "file" \notin FtCaller
  /\ MaxResults \in Nat /\ MaxEntries \in Nat
  /\ \A setup \in FtSetups :
       /\ setup.files \in [FtFile -> FtText \cup {Gone}]
       /\ setup.calls \in [FtCaller -> FtCalled]
       /\ \A c \in FtCaller : setup.calls[c].tool = "apply_patch" => \E p \in FtFile : setup.calls[c].patch[p] # <<>>

\* A temporary file has the name of its file and an id of its own.
\* Mutant: the name of the file alone.
TempNameAlone(c) == <<FtInput(c).path, "tmp">>

TempName(c) == <<FtInput(c).path, c>>
TempFile == FtFile \X (FtCaller \cup {"tmp"})

FileToolsInit ==
  /\ ftSetup \in FtSetups
  /\ ftFiles = ftSetup.files
  /\ ftTemps = [t \in TempFile |-> Gone]
  /\ ftCalls = [c \in FtCaller |-> NewFileCall]
  /\ ftAborted = {}
  /\ ftStable = [c \in FtCaller |-> {}]
  /\ ftDeaths = 0

FtAt(c, pc) == ftCalls[c].pc = pc
FtGoto(c, pc) == ftCalls' = [ftCalls EXCEPT ![c].pc = pc]
FtFails(c) == FtGoto(c, "error")
FtOver(c) == ftCalls[c].pc \in {"error", "done", "dead"}
Aborted(c) == c \in ftAborted
FilesKept == UNCHANGED <<ftSetup, ftFiles, ftTemps, ftAborted, ftStable, ftDeaths>>

\* File p gets text t of caller c.
PutText(c, p, t) ==
  /\ ftFiles' = [ftFiles EXCEPT ![p] = t]
  /\ ftStable' = [d \in FtCaller |-> ftStable[d] \ {p}]

-----------------------------------------------------------------------------
(* read, write, edit, apply_edit_ir *)

\* The path lies in the workspace; only write may make the file.
\* apply_edit_ir takes no signal.
ResolvePath(c) ==
  /\ FtAt(c, "start") /\ FtTool(c) \in {"read", "write", "edit", "apply_edit_ir"}
  /\ IF \/ Aborted(c) /\ FtTool(c) # "apply_edit_ir"
        \/ FtInput(c).path \notin FtFile
        \/ FtTool(c) # "write" /\ ftFiles[FtInput(c).path] = Gone
     THEN FtFails(c) ELSE FtGoto(c, "load")
  /\ FilesKept

\* Every line that is old becomes the new ones, if as many are as expected;
\* one edit after the other.
Occurrences(t, line) == Cardinality({i \in DOMAIN t : t[i] = line})
Replaced(t, edit) ==
  LET upTo[i \in 0..Len(t)] ==
        IF i = 0 THEN <<>> ELSE upTo[i - 1] \o (IF t[i] = edit.old THEN edit.new ELSE <<t[i]>>)
  IN  upTo[Len(t)]
Edited(t, edits) ==
  LET after[i \in 0..Len(edits)] ==
        IF i = 0 THEN t
        ELSE IF after[i - 1] = Gone \/ Occurrences(after[i - 1], edits[i].old) # edits[i].expected
        THEN Gone ELSE Replaced(after[i - 1], edits[i])
  IN  after[Len(edits)]

LoadText(c) ==
  /\ FtAt(c, "load")
  /\ LET text == ftFiles[FtInput(c).path]
         after == IF FtTool(c) = "write" THEN FtInput(c).text ELSE Edited(text, FtInput(c).edits)
         refused == \/ Aborted(c) /\ FtTool(c) # "apply_edit_ir"
                    \/ FtTool(c) # "write" /\ text = Gone
                    \/ FtInput(c).base \notin {Gone, text}
                    \/ FtTool(c) \in {"edit", "apply_edit_ir"} /\ after \in {Gone, text}
     IN  ftCalls' = [ftCalls EXCEPT ![c].before = text, ![c].after = after,
           ![c].pc = IF refused THEN "error" ELSE IF FtTool(c) = "read" THEN "done" ELSE "temp"]
  /\ FilesKept

OpenTemp(c) ==
  /\ FtAt(c, "temp")
  /\ IF Aborted(c) /\ FtTool(c) # "apply_edit_ir"
     THEN FtFails(c) /\ UNCHANGED ftTemps
     ELSE /\ ftTemps' = [ftTemps EXCEPT ![TempName(c)] = NotFilled]
          /\ FtGoto(c, "fill")
  /\ UNCHANGED <<ftSetup, ftFiles, ftAborted, ftStable, ftDeaths>>
FillTemp(c) ==
  /\ FtAt(c, "fill")
  /\ ftTemps' = [ftTemps EXCEPT ![TempName(c)] = ftCalls[c].after]
  /\ FtGoto(c, "rename")
  /\ UNCHANGED <<ftSetup, ftFiles, ftAborted, ftStable, ftDeaths>>
RenameTemp(c) ==
  /\ FtAt(c, "rename")
  /\ LET text == ftTemps[TempName(c)]
         path == FtInput(c).path
     IN  IF text = Gone THEN FtFails(c) /\ UNCHANGED <<ftFiles, ftStable, ftTemps>>
         ELSE /\ PutText(c, path, text)
              /\ ftTemps' = [ftTemps EXCEPT ![TempName(c)] = Gone]
              /\ ftCalls' = [ftCalls EXCEPT ![c].put = {<<path, text>>}, ![c].pc = "done"]
  /\ UNCHANGED <<ftSetup, ftAborted, ftDeaths>>

-----------------------------------------------------------------------------
(* apply_patch: git looks whether the patch fits, then again, and applies it *)

\* The files of a directory come in the order of their names; a temporary one
\* begins with a dot.
Precedes(e, f) ==
  f[2] = "file" /\ (e[2] = "file" => \E i, j \in DOMAIN FtOrder : i < j /\ FtOrder[i] = e[1] /\ FtOrder[j] = f[1])
FirstOf(todo) == CHOOSE e \in todo : \A f \in todo : ~Precedes(f, e)

Patched(c) == {p \in FtFile : FtInput(c).patch[p] # <<>>}
Fits(c) == \A p \in Patched(c) : ftFiles[p] = FtInput(c).patch[p][1]
CheckPatch(c) ==
  /\ FtAt(c, "start") /\ FtTool(c) = "apply_patch"
  /\ IF Fits(c) THEN FtGoto(c, "apply") ELSE FtFails(c)
  /\ FilesKept
ApplyPatch(c) ==
  /\ FtAt(c, "apply")
  /\ IF Fits(c)
     THEN ftCalls' = [ftCalls EXCEPT ![c].pc = "unlink", ![c].todo = Patched(c) \X {"file"}]
     ELSE FtFails(c)
  /\ FilesKept
\* First all the files go, then they come again.
GitWrites(c, pc, next) ==
  /\ FtAt(c, pc)
  /\ LET e == FirstOf(ftCalls[c].todo)
         text == IF pc = "unlink" THEN Gone ELSE FtInput(c).patch[e[1]][2]
         left == ftCalls[c].todo \ {e}
     IN  /\ PutText(c, e[1], text)
         /\ ftCalls' = [ftCalls EXCEPT ![c].put = {w \in @ : w[1] # e[1]} \cup {<<e[1], text>>},
              ![c].pc = IF left = {} THEN next ELSE pc,
              ![c].todo = IF left = {} /\ next = "create" THEN Patched(c) \X {"file"} ELSE left]
  /\ UNCHANGED <<ftSetup, ftTemps, ftAborted, ftDeaths>>

PatchApplied(c) == FtAt(c, "applied") /\ FtGoto(c, "done") /\ FilesKept

\* git and ripgrep are killed when their time is over or the caller aborts; an
\* abort is an error also when the process had done its work.
KillProcess(c) ==
  /\ ~FtOver(c) /\ FtTool(c) \in {"apply_patch", "rg"}
  /\ FtFails(c)
  /\ FilesKept

-----------------------------------------------------------------------------
(* grep by ripgrep, grep and find without it, search_text, ls *)

Searches == {"rg", "grep", "find", "search_text", "ls"}
Walks(c) == FtTool(c) # "rg"   \* these list temporary files too
TextOf(e) == IF e[2] = "file" THEN ftFiles[e[1]] ELSE ftTemps[e]

Lesser(m, n) == IF m < n THEN m ELSE n

DirEntries(c) == FtFile \X {"file"} \cup (IF Walks(c) THEN TempFile ELSE {})
Listed(c) == {e \in DirEntries(c) : TextOf(e) # Gone}

\* search_text looks at so many entries.
Kept(c) ==
  IF FtTool(c) # "search_text" \/ Cardinality(Listed(c)) <= MaxEntries THEN Listed(c)
  ELSE CHOOSE kept \in SUBSET Listed(c) :
         /\ Cardinality(kept) = MaxEntries
         /\ \A e \in kept, f \in Listed(c) \ kept : ~Precedes(f, e)
ListEntries(c) ==
  /\ FtAt(c, "start") /\ FtTool(c) \in Searches
  /\ ftCalls' = [ftCalls EXCEPT ![c].todo = Kept(c), ![c].capped = (Kept(c) # Listed(c)), ![c].pc = "look"]
  /\ ftStable' = [ftStable EXCEPT ![c] = FtFile]
  /\ UNCHANGED <<ftSetup, ftFiles, ftTemps, ftAborted, ftDeaths>>

\* How many matches a search counts before it stops, and in one file; ls shows
\* what has gone.
StopsEarly(c) == FtTool(c) \in {"search_text", "grep", "find"}
Collects(c) == IF FtTool(c) = "search_text" THEN MaxResults ELSE MaxResults + 1
Enough(c) == StopsEarly(c) /\ ftCalls[c].total >= Collects(c)
MatchesIn(c, e) ==
  IF FtTool(c) = "ls" THEN 1
  ELSE IF TextOf(e) = Gone THEN 0
  ELSE IF FtTool(c) = "find" THEN 1
  ELSE IF FtTool(c) = "rg" THEN Lesser(Occurrences(TextOf(e), FtInput(c).line), MaxResults)
  ELSE Occurrences(TextOf(e), FtInput(c).line)

\* What has gone since the listing is left out, or fails the search without
\* ripgrep.  search_text takes no signal; ripgrep is killed.
LookInto(c) ==
  /\ FtAt(c, "look") /\ ftCalls[c].todo # {}
  /\ LET e == FirstOf(ftCalls[c].todo)
         n == IF StopsEarly(c) THEN Lesser(MatchesIn(c, e), Collects(c) - ftCalls[c].total) ELSE MatchesIn(c, e)
     IN  IF \/ TextOf(e) = Gone /\ FtTool(c) \in {"grep", "find"} /\ ~Enough(c)
            \/ Aborted(c) /\ FtTool(c) # "search_text"
         THEN FtFails(c)
         ELSE ftCalls' = [ftCalls EXCEPT ![c].todo = @ \ {e}, ![c].total = @ + n,
                            ![c].found = IF n > 0 THEN @ \cup {e} ELSE @]
  /\ FilesKept

SaysTruncated(c) ==
  IF FtTool(c) = "search_text" THEN ftCalls[c].total >= MaxResults
  ELSE ftCalls[c].total > MaxResults

SearchEnds(c) ==
  /\ FtAt(c, "look") /\ ftCalls[c].todo = {}
  /\ IF Aborted(c) /\ FtTool(c) # "search_text"
     THEN FtFails(c)
     ELSE FtGoto(c, IF SaysTruncated(c) THEN "some" ELSE "done")
  /\ FilesKept

-----------------------------------------------------------------------------
AbortCall(c) ==
  /\ ~Aborted(c) /\ ~FtOver(c)
  /\ ftAborted' = ftAborted \cup {c}
  /\ UNCHANGED <<ftSetup, ftFiles, ftTemps, ftCalls, ftStable, ftDeaths>>
\* A git that is at work goes on without its caller.
CallerDies(c) ==
  /\ ftDeaths < MaxFtDeaths /\ ~FtOver(c) /\ ftCalls[c].pc \notin {"unlink", "create", "applied"}
  /\ ftDeaths' = ftDeaths + 1
  /\ FtGoto(c, "dead")
  /\ UNCHANGED <<ftSetup, ftFiles, ftTemps, ftAborted, ftStable>>

FileToolsNext == \E c \in FtCaller :
  \/ ResolvePath(c) \/ LoadText(c) \/ OpenTemp(c) \/ FillTemp(c) \/ RenameTemp(c)
  \/ CheckPatch(c) \/ ApplyPatch(c) \/ GitWrites(c, "unlink", "create")
  \/ GitWrites(c, "create", "applied") \/ PatchApplied(c) \/ KillProcess(c)
  \/ ListEntries(c) \/ LookInto(c) \/ SearchEnds(c)
  \/ AbortCall(c) \/ CallerDies(c)
FileToolsSpec == FileToolsInit /\ [][FileToolsNext]_ftVars

-----------------------------------------------------------------------------
(* Properties *)

\* A file never holds a text that was cut off, whoever writes the same file at
\* the same time and dies in between.
NeverHalfWritten == \A p \in FtFile : ftFiles[p] # NotFilled

\* A call that fails has changed nothing, unless it is a patch whose process
\* was killed; one that reports success has put into each file what it says.
ResultIsTrue ==
  \A c \in FtCaller :
    /\ FtAt(c, "error") /\ FtTool(c) # "apply_patch" => ftCalls[c].put = {}
    /\ FtAt(c, "done") /\ FtTool(c) \in {"write", "edit", "apply_edit_ir"}
       => ftCalls[c].put = {<<FtInput(c).path, ftCalls[c].after>>}
    /\ FtAt(c, "done") /\ FtTool(c) = "apply_patch"
       => ftCalls[c].put = {<<p, FtInput(c).patch[p][2]>> : p \in Patched(c)}

\* A search that does not say that it was cut off has found every file that was
\* there all along and matches; unless there were more entries than search_text
\* looks at, which it does not say (tool-registry.ts:221,247).
SearchIsComplete ==
  \A c \in FtCaller :
    FtAt(c, "done") /\ FtTool(c) \in Searches /\ ~ftCalls[c].capped
    => \A p \in ftStable[c] : MatchesIn(c, <<p, "file">>) > 0 /\ ftFiles[p] # Gone
                             => <<p, "file">> \in ftCalls[c].found

FilesSound == NeverHalfWritten /\ ResultIsTrue /\ SearchIsComplete
=============================================================================
