------------------------------ MODULE MCConversation ------------------------------
(***************************************************************************)
(* What a user talks to, checked side by side: the agent's loop, the       *)
(* diagnostics after its edits, the terminal front end and its line editor,*)
(* and the logins to providers.                                            *)
(* "part" says which of them a behaviour is of, the others stay in an      *)
(* initial state; they share no variable, so the behaviours of a part are  *)
(* those of its specification.                                             *)
(***************************************************************************)
EXTENDS AgentTurn, LineEditor, MCTerminalUi, SignIn, Diagnostics

VARIABLE part

\* Words, blanks, brackets and quotes over three lines.
Start(lines, row, col) == [lines |-> lines, row |-> row, col |-> col]
MCEditorStarts ==
  {Start(<< <<"a"," ","a","."," ">>, <<" ","(","A",")">> >>, 1, 2),
   Start(<< <<"q","a","q","a">>, <<>>, <<"a">> >>, 1, 1)}
MCPastedTexts == { << <<"a">> >>, << <<" ">>, <<"A">> >> }

\* Two logins on one port, on two, by devices, by one of each.
Web(port, secret) ==
  [kind |-> "web", port |-> port, secret |-> secret, discovered |-> FALSE, methods |-> {}]
Device(secret, methods) ==
  [kind |-> "device", port |-> 0, secret |-> secret, discovered |-> TRUE, methods |-> methods]
MCSiCase ==
  {[l |-> Web(1, FALSE), m |-> Web(1, TRUE)],
   [l |-> Web(1, FALSE), m |-> [Device(TRUE, {"post", "none"}) EXCEPT !.kind = "web", !.port = 2]],
   [l |-> Device(FALSE, {"none", "basic"}), m |-> Device(TRUE, {"basic"})],
   [l |-> Device(FALSE, {"post"}), m |-> Web(1, FALSE)]}

\* Two files of a project.
MCDgFiles == <<"f", "g">>

ConversationInit ==
  /\ part \in {"turn", "editor", "ui", "signin", "diagnostics"}
  /\ Init /\ (part # "turn" => delivery = "all")
  /\ EditorInit /\ (part # "editor" => /\ edVim.mode = "off"
                                      /\ edBuffer.lines[1][1] = "a")
  /\ UiInit
  /\ SignInInit /\ (part # "signin" => siCase["m"].kind = "web" /\ siCase["m"].port = 2)
  /\ DiagnosticsInit

Moves(p, A) == part = p /\ A
Still(p, v) == part # p => UNCHANGED v

ConversationNext ==
  /\ \/ Moves("turn", Next)
     \/ Moves("editor", EditorNext)
     \/ Moves("ui", UiNext)
     \/ Moves("signin", SignInNext)
     \/ Moves("diagnostics", DiagnosticsNext)
  /\ Still("turn", vars)
  /\ Still("editor", editorVars)
  /\ Still("ui", uiVars)
  /\ Still("signin", siVars)
  /\ Still("diagnostics", dgVars)
  /\ UNCHANGED part

ConversationSpec ==
  /\ ConversationInit
  /\ [][ConversationNext]_<<part, vars, editorVars, uiVars, siVars, dgVars>>
  /\ WF_vars(part = "turn" /\ Proceed)
  /\ WF_siVars(part = "signin" /\ SiTick)
  /\ \A l \in SiLogin : WF_siVars(part = "signin" /\ LoginProceeds(l))
  /\ WF_dgVars(part = "diagnostics" /\ DgProceed)

\* What the model is sent is a transcript without holes and in order, and what it is
\* told of an edit is no older than the edit.
TheModelIsTold == TranscriptSound /\ DiagnosticsSound

\* A turn ends, and so does the pass of diagnostics after an edit, during which the
\* turn waits.
TurnsEnd == TurnEnds /\ DiagnosticsEnd
=============================================================================
