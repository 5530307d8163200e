------------------------------ MODULE TerminalUi ------------------------------
(***************************************************************************)
(* FullScreenTui (tui/src/app.ts) as runFullScreenAgent wires it to one    *)
(* CodingAgent (cli/src/tui.ts, cli/src/agent-command.ts): which overlay a *)
(* key goes to, what Enter does with a line, and what happens meanwhile in *)
(* the agent, whose calls the front end does not wait for.                 *)
(*                                                                         *)
(* A line is a member of Lines, typed at once (LineEditor has the editor   *)
(* and vim).  What a query narrows a list to is a function of its length.  *)
(* Theme, sidebars, attachments and cost are left out.                     *)
(***************************************************************************)
EXTENDS Integers, Sequences, FiniteSets

CONSTANTS
  UiModels,       \* the picker's models, per provider: [name, fits]
  UiPalette,      \* the palette's commands: [name, fits]
  Decisions,      \* bound: a confirmation has 1..Decisions of them, two options each
  MaxUiKeys, MaxAgentEvents, MaxSessions   \* bounds

VARIABLES
  ui,           \* the fields of FullScreenTui
  uiAgent,      \* what the agent does: the running call, its session and model
  uiCalls,      \* session and model commands whose promise is pending
  uiChosen,     \* history: the Enter presses the shown confirmation had
  uiKeys, uiEvents    \* bounds

uiVars == <<ui, uiAgent, uiCalls, uiChosen, uiKeys, uiEvents>>

Lines == {"yes", "fix", "/new", "/skill", "/todo"}
Command(line) == line \in {"/new", "/skill", "/todo"}

Closed == [open |-> FALSE, query |-> 0, at |-> 1]
Opened == [Closed EXCEPT !.open = TRUE]
NoConfirmation == [spec |-> 0, at |-> 1, selected |-> <<>>]
NoPicker == [open |-> FALSE, provider |-> 1, query |-> 0, at |-> 1]

UiInit ==
  /\ ui = [busy |-> FALSE, mood |-> "idle", saved |-> "none", flash |-> "none",
           picker |-> NoPicker, confirm |-> NoConfirmation, history |-> FALSE,
           palette |-> Closed, search |-> FALSE, pane |-> "input", prefix |-> FALSE,
           draft |-> "", completing |-> FALSE, asked |-> FALSE, disposed |-> FALSE,
           session |-> 1, model |-> UiModels[1][1].name]
  /\ uiAgent = [pc |-> "idle", spec |-> 0, session |-> 1, turn |-> 1, made |-> 1,
              model |-> UiModels[1][1].name, answer |-> "none"]
  /\ uiCalls = {} /\ uiChosen = 0 /\ uiKeys = 0 /\ uiEvents = 0

-----------------------------------------------------------------------------
(* Lists: a query of length n leaves the items that fit n characters.      *)

Fitting(items, query) == SelectSeq(items, LAMBDA item : item.fits >= query)
Clamped(at, n) == IF n = 0 THEN 1 ELSE IF at > n THEN n ELSE IF at < 1 THEN 1 ELSE at
Wrapped(at, n) == IF n = 0 THEN 1 ELSE ((at - 1) % n) + 1
Down(key) == IF key = "down" THEN 1 ELSE -1

Visible(picker) == Fitting(UiModels[picker.provider], picker.query)

-----------------------------------------------------------------------------
(* What a key does to the screen, and the one call it makes of the agent.  *)

NoCall == [name |-> "none", what |-> "", spec |-> 0]
Call(name, what) == [NoCall EXCEPT !.name = name, !.what = what]
SpecCall(name, spec) == [NoCall EXCEPT !.name = name, !.spec = spec]
Does(screen, call) == [screen |-> screen, call |-> call]
Shows(screen) == Does(screen, NoCall)

\* openPicker.
OpenPicker(s) ==
  IF s.picker.open THEN s
  ELSE [s EXCEPT !.picker = [NoPicker EXCEPT !.open = TRUE,
                               !.provider = CHOOSE p \in DOMAIN UiModels :
                                 \E i \in DOMAIN UiModels[p] : UiModels[p][i].name = s.model],
                 !.saved = s.mood, !.mood = "thinking"]

\* closePicker
ClosePicker(s) ==
  [s EXCEPT !.picker = NoPicker, !.saved = "none",
            !.mood = IF s.saved # "none" /\ s.mood = "thinking" THEN s.saved ELSE s.mood]

\* confirmPickerSelection: the model is shown before the agent has it.
ConfirmPicker(s) ==
  IF Visible(s.picker) = <<>> THEN Shows(s)
  ELSE LET model == Visible(s.picker)[s.picker.at].name
       IN  Does([s EXCEPT !.model = model, !.picker = NoPicker, !.saved = "none",
                          !.mood = IF s.saved # "none" THEN s.saved ELSE s.mood],
                Call("model", model))

\* updatePicker clamps the cursor to what the new query leaves.
PickerMoved(p, query, at) ==
  [p EXCEPT !.query = query, !.at = Clamped(at, Len(Visible([p EXCEPT !.query = query])))]
PickerKey(s, key) ==
  LET p == s.picker
  IN  CASE key = "esc" -> Shows(ClosePicker(s))
        [] key = "enter" -> ConfirmPicker(s)
        [] key = "tab" -> Shows([s EXCEPT !.picker =
             PickerMoved([p EXCEPT !.provider = Wrapped(p.provider + 1, Len(UiModels))], p.query, 1)])
        [] key = "char" -> Shows([s EXCEPT !.picker = PickerMoved(p, p.query + 1, 1)])
        [] key = "backspace" /\ p.query > 0 ->
             Shows([s EXCEPT !.picker = PickerMoved(p, p.query - 1, 1)])
        [] key \in {"up", "down"} ->
             Shows([s EXCEPT !.picker = PickerMoved(p, p.query, p.at + Down(key))])
        [] OTHER -> Shows(s)

\* confirmSpecNavigation with advanceConfirmation: two options per decision.
Decline(s) == Does([s EXCEPT !.confirm = NoConfirmation], SpecCall("decline", s.confirm.spec))

ConfirmKey(s, key) ==
  LET c == s.confirm
      last == c.at = Len(c.selected)
  IN  CASE key = "esc" -> Decline(s)
        [] key \in {"up", "down"} ->
             Shows([s EXCEPT !.confirm.selected[c.at] = 3 - @])
        [] key = "enter" /\ last ->
             Does([s EXCEPT !.confirm = NoConfirmation], SpecCall("confirm", c.spec))
        [] key = "enter" /\ ~last -> Shows([s EXCEPT !.confirm.at = @ + 1])
        [] OTHER -> Shows(s)

\* handleSpecHistoryInput: other keys are dropped.
HistoryKey(s, key) == Shows(IF key = "esc" THEN [s EXCEPT !.history = FALSE] ELSE s)

\* The palette's callback, then closePalette.
PaletteCommand(s, name) ==
  LET closed == [s EXCEPT !.palette = Closed]
  IN  CASE name = "picker" -> Shows(OpenPicker(closed))
        [] name = "search" -> Shows([closed EXCEPT !.search = TRUE])
        [] name = "new" -> Does(closed, Call("new", ""))
        [] name = "decline" -> IF s.confirm.spec = 0 THEN Shows(closed) ELSE Decline(closed)
        [] OTHER -> Shows(closed)   \* theme, sidebars
PaletteKey(s, key) ==
  LET found == Fitting(UiPalette, s.palette.query)
      narrowed(query) == Shows([s EXCEPT !.palette.query = query, !.palette.at = 1])
  IN  CASE key = "esc" -> Shows([s EXCEPT !.palette = Closed])
        [] key = "enter" -> IF found = <<>> THEN Shows([s EXCEPT !.palette = Closed])
                            ELSE PaletteCommand(s, found[s.palette.at].name)
        [] key = "char" -> narrowed(s.palette.query + 1)
        [] key = "backspace" /\ s.palette.query > 0 -> narrowed(s.palette.query - 1)
        [] key \in {"up", "down"} ->
             Shows([s EXCEPT !.palette.at = Wrapped(@ + Down(key), Len(found))])
        [] OTHER -> Shows(s)

\* The transcript search only matters for the keys it takes.
SearchKey(s, key) == Shows(IF key = "esc" THEN [s EXCEPT !.search = FALSE] ELSE s)

\* Nav and preview panes take every key; q and Esc go back to the input.
PaneKey(s, key) == Shows(IF key \in {"esc", "char"} THEN [s EXCEPT !.pane = "input"] ELSE s)

\* action("submit"): a completion is confirmed, an approval answered, or the
\* line entered.
Enter(s) ==
  LET cleared == [s EXCEPT !.draft = ""]
  IN  IF s.completing
        THEN {Shows([s EXCEPT !.completing = FALSE, !.draft = line]) : line \in {l \in Lines : Command(l)}}
      ELSE IF s.draft = "" THEN {Shows(s)}
      ELSE IF s.asked
        THEN {Does([cleared EXCEPT !.asked = FALSE],
                   Call("answer", IF s.draft = "yes" THEN "granted" ELSE "denied"))}
      ELSE {Does(cleared, Call("line", s.draft))}

\* dispose: what is asked is denied.
Dispose(s) ==
  Does([s EXCEPT !.disposed = TRUE, !.asked = FALSE, !.flash = "none"],
       IF s.asked THEN Call("answer", "denied") ELSE NoCall)

\* The decoder's actions, with the input focused.
InputKey(s, key) ==
  LET plain == [s EXCEPT !.completing = FALSE]
  IN  CASE key = "enter" -> Enter(s)
        [] key = "char" -> {Shows([plain EXCEPT !.draft = line, !.completing = Command(line)]) :
                              line \in Lines}
        [] key = "backspace" -> {Shows([plain EXCEPT !.draft = ""])}
        [] key = "ctrl-p" -> {Shows([s EXCEPT !.palette = Opened])}
        [] key = "ctrl-b" -> {Shows([s EXCEPT !.prefix = TRUE])}
        [] key = "alt-h" -> {Shows([s EXCEPT !.history = TRUE])}
        [] key = "ctrl-c" -> {IF s.busy THEN Does(s, Call("abort", "")) ELSE Shows(s)}
        [] key = "ctrl-d" -> {IF s.busy THEN Does(s, Call("abort", "")) ELSE Dispose(s)}
        [] OTHER -> {Shows(s)}

\* feedInput: what is not a pane's key after the prefix is swallowed.
FeedInput(s, key) ==
  IF s.palette.open THEN {PaletteKey(s, key)}
  ELSE IF s.search THEN {SearchKey(s, key)}
  ELSE IF s.pane # "input" THEN {PaneKey(s, key)}
  ELSE IF s.prefix
    THEN {Shows([s EXCEPT !.prefix = FALSE, !.pane = IF key = "left" THEN "nav" ELSE @])}
  ELSE InputKey(s, key)

\* onData: the outermost overlay takes the key.
OnData(s, key) ==
  IF s.picker.open THEN {PickerKey(s, key)}
  ELSE IF s.confirm.spec # 0 THEN {ConfirmKey(s, key)}
  ELSE IF s.history THEN {HistoryKey(s, key)}
  ELSE IF key = "alt-m" THEN {Shows(OpenPicker(s))}
  ELSE FeedInput(s, key)

Keys == {"enter", "esc", "tab", "up", "down", "left", "char", "backspace", "alt-m", "alt-h",
         "ctrl-b", "ctrl-c", "ctrl-d", "ctrl-p"}

-----------------------------------------------------------------------------
(* The calls: what they do at once, up to their first await.               *)

Running == uiAgent.pc # "idle"
SetBusy(s, busy) == [s EXCEPT !.busy = busy, !.mood = IF busy THEN "thinking" ELSE "idle"]
Oops(s) == [s EXCEPT !.mood = "oops"]

\* Mutant: a line that steers a turn ends, like one that starts it, in setBusy.
SubmitTextAlike(s) ==
  IF s.busy THEN /\ ui' = SetBusy(s, FALSE) /\ UNCHANGED uiAgent
  ELSE IF Running THEN /\ ui' = Oops(SetBusy(s, FALSE)) /\ UNCHANGED uiAgent
  ELSE /\ ui' = SetBusy(s, TRUE)
       /\ uiAgent' = [uiAgent EXCEPT !.pc = "turn", !.turn = uiAgent.session]

\* submitText: a prompt steers the turn it meets and starts one otherwise,
\* which fails when a tool of the user's runs.
SubmitText(s) ==
  IF s.busy THEN /\ ui' = s /\ UNCHANGED uiAgent
  ELSE IF Running THEN /\ ui' = Oops(SetBusy(s, FALSE)) /\ UNCHANGED uiAgent
  ELSE /\ ui' = SetBusy(s, TRUE)
       /\ uiAgent' = [uiAgent EXCEPT !.pc = "turn", !.turn = uiAgent.session]

NewCall(session) == [kind |-> "new", session |-> session, model |-> "", at |-> "begun"]
ModelCall(model) == [kind |-> "model", session |-> 0, model |-> model, at |-> "begun"]

\* newSession, from /new and the palette, is refused while the agent runs.
NewSession(s) ==
  IF Running THEN ui' = Oops(s) /\ UNCHANGED <<uiAgent, uiCalls>>
  ELSE /\ ui' = s /\ uiAgent' = [uiAgent EXCEPT !.made = @ + 1]
       /\ uiCalls' = uiCalls \cup {NewCall(uiAgent.made + 1)}

Make(s, call) ==
  CASE call.name = "none" -> ui' = s /\ UNCHANGED <<uiAgent, uiCalls>>
    [] call.name = "abort" -> ui' = s /\ UNCHANGED <<uiAgent, uiCalls>>
    [] call.name = "answer" ->
         ui' = s /\ uiAgent' = [uiAgent EXCEPT !.pc = "turn", !.answer = call.what] /\ UNCHANGED uiCalls
    [] call.name \in {"confirm", "decline"} ->   \* resolveDecisions, declineSpec
         /\ ui' = s /\ UNCHANGED uiCalls
         /\ uiAgent' = IF uiAgent.pc = "waiting" /\ uiAgent.spec = call.spec
                     THEN [uiAgent EXCEPT !.pc = "turn"] ELSE uiAgent
    [] call.name = "model" ->
         ui' = s /\ uiCalls' = uiCalls \cup {ModelCall(call.what)} /\ UNCHANGED uiAgent
    [] call.name = "new" \/ (call.name = "line" /\ call.what = "/new") -> NewSession(s)
    [] call.name = "line" /\ call.what = "/todo" ->   \* runTool
         /\ UNCHANGED uiCalls
         /\ IF Running THEN ui' = Oops(s) /\ UNCHANGED uiAgent
            ELSE ui' = s /\ uiAgent' = [uiAgent EXCEPT !.pc = "tool"]
    [] OTHER -> SubmitText(s) /\ UNCHANGED uiCalls   \* a prompt, or the text of a skill

Key(key) ==
  /\ uiKeys < MaxUiKeys /\ ~ui.disposed
  /\ uiAgent.made < MaxSessions \/ key # "enter"
  /\ \E does \in OnData(ui, key) : Make(does.screen, does.call)
  /\ uiChosen' = IF ui.picker.open \/ ui.confirm.spec = 0 THEN uiChosen
               ELSE IF key = "enter" THEN uiChosen + 1 ELSE uiChosen
  /\ uiKeys' = uiKeys + 1
  /\ UNCHANGED uiEvents

\* SIGINT, SIGTERM and SIGHUP restore the terminal.
Signal ==
  /\ ~ui.disposed
  /\ Make(Dispose(ui).screen, Dispose(ui).call)
  /\ UNCHANGED <<uiChosen, uiKeys, uiEvents>>

-----------------------------------------------------------------------------
(* What the agent does meanwhile, and its events (renderEvent).            *)

AgentEvent == uiEvents < MaxAgentEvents /\ uiEvents' = uiEvents + 1 /\ UNCHANGED uiKeys

\* model_start, tool_start and tool_end set the mood of a turn.
Progress ==
  /\ AgentEvent /\ uiAgent.pc = "turn" /\ ~ui.disposed
  /\ \E mood \in {"working", "oops"} : ui' = [ui EXCEPT !.mood = mood]
  /\ UNCHANGED <<uiAgent, uiCalls, uiChosen>>

\* requestApproval, for a tool of the turn; once the terminal is
\* closed nobody answers.
AskApproval ==
  /\ AgentEvent /\ uiAgent.pc = "turn" /\ ~ui.asked
  /\ uiAgent' = [uiAgent EXCEPT !.pc = "asking", !.answer = "none"]
  /\ ui' = [ui EXCEPT !.asked = TRUE]
  /\ UNCHANGED <<uiCalls, uiChosen>>

\* spec_confirmation_required: shown before the engine waits for the answer.
AnnounceSpec ==
  /\ AgentEvent /\ uiAgent.pc = "turn" /\ ~ui.disposed
  /\ uiAgent' = [uiAgent EXCEPT !.pc = "announced", !.spec = @ + 1]
  /\ \E n \in 1..Decisions :
       ui' = [ui EXCEPT !.mood = "thinking",
                !.confirm = [spec |-> uiAgent.spec + 1, at |-> 1, selected |-> [d \in 1..n |-> 1]]]
  /\ uiChosen' = 0
  /\ UNCHANGED uiCalls
WaitForAnswer ==
  /\ uiAgent.pc = "announced"
  /\ uiAgent' = [uiAgent EXCEPT !.pc = "waiting"]
  /\ UNCHANGED <<ui, uiCalls, uiChosen, uiKeys, uiEvents>>

\* setLevelUpMood, for three seconds.
LevelUp(s) ==
  LET saved == IF s.mood # "levelup" THEN s.mood ELSE s.saved
  IN  [s EXCEPT !.mood = "levelup", !.saved = saved,
                !.flash = IF saved = "none" THEN "idle" ELSE saved]

\* agent_end, perhaps a level up, and submitText's finally.
EndTurn ==
  /\ AgentEvent /\ uiAgent.pc = "turn"
  /\ uiAgent' = [uiAgent EXCEPT !.pc = "ended"]
  /\ ui' = ui \/ (~ui.disposed /\ ui' = LevelUp(ui))
  /\ UNCHANGED <<uiCalls, uiChosen>>
Settle ==
  /\ uiAgent.pc = "ended"
  /\ uiAgent' = [uiAgent EXCEPT !.pc = "idle"]
  /\ ui' = SetBusy(ui, FALSE)
  /\ UNCHANGED <<uiCalls, uiChosen, uiKeys, uiEvents>>

FlashEnds ==
  /\ ui.flash # "none"
  /\ ui' = [ui EXCEPT !.flash = "none", !.saved = "none",
                      !.mood = IF @ = "levelup" THEN ui.flash ELSE @]
  /\ UNCHANGED <<uiAgent, uiCalls, uiChosen, uiKeys, uiEvents>>

ToolEnds ==
  /\ uiAgent.pc = "tool"
  /\ uiAgent' = [uiAgent EXCEPT !.pc = "idle"]
  /\ UNCHANGED <<ui, uiCalls, uiChosen, uiKeys, uiEvents>>

\* SessionStore.create is done: the agent is not asked again whether it runs.
SessionMade(c) ==
  /\ c.kind = "new"
  /\ uiAgent' = [uiAgent EXCEPT !.session = c.session]
  /\ ui' = [ui EXCEPT !.session = c.session]
  /\ uiCalls' = uiCalls \ {c}
  /\ UNCHANGED <<uiChosen, uiKeys, uiEvents>>

\* changeModel once resolveAgentConfig is done: refused while the agent runs,
\* and then the screen keeps the model it shows; setModel ends it.
ModelResolved(c) ==
  /\ c.kind = "model" /\ c.at = "begun"
  /\ uiCalls' = IF Running THEN uiCalls \ {c} ELSE (uiCalls \ {c}) \cup {[c EXCEPT !.at = "saving"]}
  /\ uiAgent' = IF Running THEN uiAgent ELSE [uiAgent EXCEPT !.model = c.model]
  /\ UNCHANGED <<ui, uiChosen, uiKeys, uiEvents>>
ModelSaved(c) ==
  /\ c.kind = "model" /\ c.at = "saving"
  /\ uiCalls' = uiCalls \ {c}
  /\ ui' = [ui EXCEPT !.model = c.model]
  /\ UNCHANGED <<uiAgent, uiChosen, uiKeys, uiEvents>>

UiNext ==
  \/ \E key \in Keys : Key(key)
  \/ Signal
  \/ Progress \/ AskApproval \/ AnnounceSpec \/ WaitForAnswer
  \/ EndTurn \/ Settle \/ FlashEnds \/ ToolEnds
  \/ \E c \in uiCalls : SessionMade(c) \/ ModelResolved(c) \/ ModelSaved(c)

UiSpec == UiInit /\ [][UiNext]_uiVars

-----------------------------------------------------------------------------
(* Properties                                                              *)

\* What the screen says of the agent is so.  The front end is busy exactly while
\* a turn of its own runs, so that a prompt neither starts a second turn nor
\* steers one that is over; a confirmation is shown only for the specification
\* the engine is at, and goes once it is answered, in full or by Esc; a tool
\* waits wherever a question stands.  Commands, tools, failures, pickers and
\* signals overlap with all of it.
ScreenTellsTheAgent ==
  /\ ui.busy = (uiAgent.pc \in {"turn", "asking", "announced", "waiting", "ended"})
  /\ ui.confirm.spec # 0 => /\ uiAgent.pc \in {"announced", "waiting"}
                            /\ ui.confirm.spec = uiAgent.spec
                            /\ ui.confirm.at = uiChosen + 1
  /\ ui.asked /\ ~ui.disposed => uiAgent.pc = "asking"

\* "Cannot replace the session during a running turn" (agent.ts:810): the turn
\* that runs is the active session's.
TurnKeepsSession == uiAgent.pc = "turn" => uiAgent.turn = uiAgent.session
=============================================================================
