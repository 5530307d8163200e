------------------------------- MODULE MCStores -------------------------------
(***************************************************************************)
(* What several processes keep in files, checked side by side: the fact    *)
(* log of a task, the trees of sessions, shared sessions, and the files of *)
(* a workspace.  "part" says which of them a behaviour is of, the others   *)
(* stay in an initial state.                                               *)
(***************************************************************************)
EXTENDS FactStore, SessionTree, Shares, FileTools

VARIABLE part

\* One session of another workspace, compacted, and the one that is resumed;
\* one agent works while another compacts, leaves the branch, forks or imports.
Entry(parent, role, id) == [msg |-> [role |-> role, id |-> id], parent |-> parent]
MCInitialSessions ==
  LET first == Entry(0, "user", <<"x", 1>>) IN
  <<[cwd |-> "there", entries |-> <<first, Entry(1, "text", <<"x", 2>>)>>, leaf |-> 2,
     compaction |-> [upTo |-> 1, covers |-> {first.msg}]],
    [EmptySession("here") EXCEPT
       !.entries = <<Entry(0, "user", <<"y", 1>>), Entry(1, "text", <<"y", 2>>)>>, !.leaf = 2]>>
Budget(says, commands) == [say |-> says, command |-> commands]
MCTreeBudgets ==
  {[a |-> Budget(3, 0), b |-> Budget(0, 1)], [a |-> Budget(2, 1), b |-> Budget(0, 1)],
   [a |-> Budget(1, 0), b |-> Budget(1, 1)]}

\* Two commands of one user, or of two, with a token or without.
ShareSetup(of, authorized, trusted, maximum) ==
  [of |-> of, anonymous |-> authorized = {}, authorized |-> authorized, trusted |-> trusted,
   maximum |-> maximum]
MCShSetups ==
  {ShareSetup(<<"u", "u">>, {"u"}, {1, 2}, 2), ShareSetup(<<"u", "v">>, {}, {1}, 3),
   ShareSetup(<<"u", "v">>, {"u"}, {1, 2}, 3)}

\* Calls on the file f, of two lines, and on g, which has one twice.
MCFtOrder == <<"f", "g">>
FirstTexts == [f |-> <<"x", "y">>, g |-> <<"x", "x">>]
FileCall(tool) ==
  [tool |-> tool, path |-> "f", text |-> <<"y", "z">>, edits |-> <<>>, base |-> Gone,
   patch |-> [f |-> <<>>, g |-> <<>>], line |-> "x"]
FileEdit(old, new, n) == [old |-> old, new |-> new, expected |-> n]
FileEdits(tool, edits) == [FileCall(tool) EXCEPT !.edits = edits]
Once == FileEdits("edit", <<FileEdit("x", <<"z">>, 1)>>)
Twice == FileEdits("apply_edit_ir", <<FileEdit("y", <<"x">>, 1), FileEdit("x", <<>>, 2)>>)
WithBase == [FileEdits("apply_edit_ir", <<FileEdit("y", <<"x">>, 1)>>) EXCEPT !.base = FirstTexts.f]
PatchOfG == [FileCall("apply_patch") EXCEPT !.patch.g = <<FirstTexts.g, <<"z">>>>]
PatchOfBoth == [PatchOfG EXCEPT !.patch.f = <<FirstTexts.f, <<"y">>>>]
Outside(tool) == [FileCall(tool) EXCEPT !.path = "out"]
MCFtCalls ==
  {[a |-> Once, b |-> Twice], [a |-> FileCall("write"), b |-> WithBase],
   [a |-> Once, b |-> PatchOfBoth], [a |-> PatchOfBoth, b |-> FileCall("read")],
   [a |-> Outside("write"), b |-> FileCall("read")]}
  \cup [a : {Once, PatchOfG}, b : {FileCall(t) : t \in Searches}]
MCFtSetups == [files : {FirstTexts, [FirstTexts EXCEPT !.f = Gone]}, calls : MCFtCalls]

StoresInit ==
  /\ part \in {"facts", "sessions", "shares", "files"}
  /\ Init
  /\ SessionTreeInit /\ (part # "sessions" => trBudget["a"].say = 3)
  /\ SharesInit /\ (part # "shares" => shSetup.anonymous = TRUE)
  /\ FileToolsInit /\ (part # "files" => /\ FtTool("a") = "write" /\ FtTool("b") = "read"
                                        /\ ftFiles["f"] = Gone)

Moves(p, A) == part = p /\ A
Still(p, v) == part # p => UNCHANGED v

StoresNext ==
  /\ \/ Moves("facts", Next)
     \/ Moves("sessions", SessionTreeNext)
     \/ Moves("shares", SharesNext)
     \/ Moves("files", FileToolsNext)
  /\ Still("facts", vars)
  /\ Still("sessions", treeVars)
  /\ Still("shares", shVars)
  /\ Still("files", ftVars)
  /\ UNCHANGED part

StoresSpec ==
  /\ StoresInit /\ [][StoresNext]_<<part, vars, treeVars, shVars, ftVars>>
  /\ \A p \in Process : WF_vars(part = "facts" /\ Proceed(p))
=============================================================================
