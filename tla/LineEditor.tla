------------------------------ MODULE LineEditor ------------------------------
(***************************************************************************)
(* The input editor of the terminal front end: EditorBuffer                *)
(* (tui/src/editor.ts), the vim state machine (tui/src/vim.ts) and the way *)
(* FullScreenTui feeds them keys (tui/src/app.ts).                         *)
(*                                                                         *)
(* A text is a sequence of lines, a line one of graphemes: "a" and "A"     *)
(* letters, "." other, " " white space, "q" a quote, "(" and ")" brackets; *)
(* the other kinds of quotes and brackets behave alike.  A column counts   *)
(* the graphemes before it.  Every method of EditorBuffer is an operator   *)
(* from one buffer to the next.                                            *)
(***************************************************************************)
EXTENDS Integers, Sequences, SequencesExt, FiniteSetsExt

CONSTANTS
  EditorStarts,    \* the texts and cursors a behaviour may start with
  PastedTexts,     \* what may be typed, pasted or completed at once
  UndoLimit, KillLimit, HistoryLimit,
  MaxKeys          \* bound: keys pressed

\* A column counts graphemes: of the others there are none in a text.
Grapheme == {"a", "A", ".", " ", "q", "(", ")"}
EditorText == Seq(Seq(Grapheme)) \ {<<>>}

ASSUME EditorAssumption ==
  /\ \A start \in EditorStarts :
       /\ start \in [lines : EditorText, row : Nat, col : Nat]
       /\ start.row \in DOMAIN start.lines /\ start.col <= Len(start.lines[start.row])
  /\ PastedTexts \subseteq EditorText
  /\ UndoLimit \in Nat \ {0} /\ KillLimit \in Nat \ {0} /\ HistoryLimit \in Nat \ {0}
  /\ MaxKeys \in Nat

VARIABLES
  edBuffer,    \* EditorBuffer: [lines, row, col, undo, kills]
  edVim,       \* vimState: [mode, op, object, anchor]; mode "off" without vim
  edEscape,    \* the input decoder holds an Esc that may begin a sequence
  edHistory, edRecalled,    \* the prompts submitted, and historyIndex
  edKeys,
  edDid        \* history: the method the last key called

editorVars == <<edBuffer, edVim, edEscape, edHistory, edRecalled, edKeys, edDid>>

Cursor(row, col) == [row |-> row, col |-> col]
Vim(mode) == [mode |-> mode, op |-> "", object |-> "", anchor |-> Cursor(0, 0)]
NoText == << <<>> >>
NewLine == << <<>>, <<>> >>

-----------------------------------------------------------------------------
(* Lines                                                                   *)

Space == {" "}
Letters == {"a", "A"}

\* String.slice on graphemes; what is out of range is left out.
Part(line, from, to) == SubSeq(line, from + 1, Min({to, Len(line)}))
Upto(line, col) == Part(line, 0, col)
Beyond(line, col) == Part(line, col, Len(line))
Without(line, from, to) == Upto(line, from) \o Beyond(line, to)

\* An index out of range reads "undefined", which tests like a letter.
Char(line, col) == IF col \in 0..Len(line) - 1 THEN line[col + 1] ELSE "a"
LineAt(lines, row) == IF row \in DOMAIN lines THEN lines[row] ELSE [i \in 1..9 |-> "a"]

IsBlank(line) == \A i \in DOMAIN line : line[i] \in Space

\* The first column from col on, and the last one up to col, where a run of
\* white space, or of anything else, ends.
EndOfSpace(line, col) ==
  Min({c \in col..Max({col, Len(line)}) : c >= Len(line) \/ Char(line, c) \notin Space})
EndOfWord(line, col) ==
  Min({c \in col..Max({col, Len(line)}) : c >= Len(line) \/ Char(line, c) \in Space})
StartOfSpace(line, col) == Max({c \in 0..col : c = 0 \/ Char(line, c - 1) \notin Space})
StartOfWord(line, col) == Max({c \in 0..col : c = 0 \/ Char(line, c - 1) \in Space})

-----------------------------------------------------------------------------
(* The buffer                                                              *)

LineOf(b) == b.lines[b.row]
Snapshot(b) == [lines |-> b.lines, row |-> b.row, col |-> b.col]
LastOf(list, n) == SubSeq(list, Max({1, Len(list) - n + 1}), Len(list))

\* Mutant: a full stack keeps its oldest snapshots.
PushUndoOldest(b) ==
  IF Len(b.undo) < UndoLimit THEN [b EXCEPT !.undo = Append(@, Snapshot(b))] ELSE b

PushUndo(b) == [b EXCEPT !.undo = LastOf(Append(@, Snapshot(b)), UndoLimit)]

PushKill(b, text) == [b EXCEPT !.kills = LastOf(Append(@, text), KillLimit)]
Move(b, row, col) == [b EXCEPT !.row = row, !.col = col]
SetLine(b, line) == [b EXCEPT !.lines[b.row] = line]

\* lines.splice(at, count, ...new)
Splice(b, at, count, new) ==
  [b EXCEPT !.lines = SubSeq(@, 1, at - 1) \o new \o SubSeq(@, at + count, Len(@))]

InsertRaw(b, text) ==
  LET before == Upto(LineOf(b), b.col)
      after == Beyond(LineOf(b), b.col)
  IN  IF Len(text) = 1
      THEN Move(SetLine(b, before \o text[1] \o after), b.row, b.col + Len(text[1]))
      ELSE Move(Splice(b, b.row, 1, <<before \o Head(text)>> \o SubSeq(text, 2, Len(text) - 1)
                                      \o <<Last(text) \o after>>),
                b.row + Len(text) - 1, Len(Last(text)))

SetText(b, text) == Move([PushUndo(b) EXCEPT !.lines = text], Len(text), Len(Last(text)))
Clear(b) == SetText(b, NoText)
InsertText(b, text) == IF text = NoText THEN b ELSE InsertRaw(PushUndo(b), text)

Backspace(b) ==
  IF b.col > 0 THEN Move(SetLine(PushUndo(b), Without(LineOf(b), b.col - 1, b.col)), b.row, b.col - 1)
  ELSE IF b.row = 1 THEN b
  ELSE LET previous == b.lines[b.row - 1]
       IN  Move(Splice(PushUndo(b), b.row - 1, 2, <<previous \o LineOf(b)>>),
                b.row - 1, Len(previous))

\* At the start of a line the lines above are joined on, empty ones all at once.
DeleteWordBackward(b) ==
  LET top == IF b.col > 0 THEN b.row
             ELSE Max({1} \cup {r \in 1..b.row - 1 : b.lines[r] # <<>>})
      line == IF top = b.row THEN LineOf(b) ELSE b.lines[top] \o LineOf(b)
      col == IF top = b.row THEN b.col ELSE Len(b.lines[top])
      start == StartOfWord(line, StartOfSpace(line, col))
  IN  IF b.row = 1 /\ b.col = 0 THEN b
      ELSE Move(Splice(PushUndo(b), top, b.row - top + 1, <<Without(line, start, col)>>), top, start)

CursorLeft(b) ==
  IF b.col > 0 THEN Move(b, b.row, b.col - 1)
  ELSE IF b.row > 1 THEN Move(b, b.row - 1, Len(b.lines[b.row - 1])) ELSE b
CursorRight(b) ==
  IF b.col < Len(LineOf(b)) THEN Move(b, b.row, b.col + 1)
  ELSE IF b.row < Len(b.lines) THEN Move(b, b.row + 1, 0) ELSE b
CursorToRow(b, row) ==
  IF row \in DOMAIN b.lines THEN Move(b, row, Min({b.col, Len(b.lines[row])})) ELSE b
Home(b) == Move(b, b.row, 0)
End(b) == Move(b, b.row, Len(LineOf(b)))

WordLeft(b) ==
  LET up == b.col = 0 /\ b.row > 1
      row == IF up THEN b.row - 1 ELSE b.row
      col == IF up THEN Len(b.lines[row]) ELSE b.col
  IN  Move(b, row, StartOfWord(b.lines[row], StartOfSpace(b.lines[row], col)))
WordRight(b) ==
  LET down == b.col = Len(LineOf(b)) /\ b.row < Len(b.lines)
      row == IF down THEN b.row + 1 ELSE b.row
      col == IF down THEN 0 ELSE b.col
  IN  Move(b, row, EndOfWord(b.lines[row], EndOfSpace(b.lines[row], col)))

\* Lines of at most one grapheme are passed over.
WordEndForward(b) ==
  LET longer == {r \in b.row + 1..Len(b.lines) : Len(b.lines[r]) > 1}
      stays == b.col < Len(LineOf(b)) - 1
      row == IF stays THEN b.row ELSE IF longer # {} THEN Min(longer) ELSE Len(b.lines)
      line == b.lines[row]
      col == EndOfSpace(line, (IF stays THEN b.col ELSE 0) + 1)
      alike(c) == (Char(line, c) \in Letters) = (Char(line, col) \in Letters)
  IN  IF ~stays /\ longer = {} THEN IF row = b.row THEN b ELSE Move(b, row, 0)
      ELSE IF col >= Len(line) THEN Move(b, row, Len(line) - 1)
      ELSE Move(b, row, Min({c \in col..Len(line) - 1 :
             c + 1 = Len(line) \/ Char(line, c + 1) \in Space \/ ~alike(c + 1)}))

Undo(b) ==
  IF b.undo = <<>> THEN b
  ELSE [Move(b, Last(b.undo).row, Last(b.undo).col)
          EXCEPT !.lines = Last(b.undo).lines, !.undo = Front(@)]

\* Takes [from, to) of the line out, onto the kill ring if it is kept.
Cut(b, from, to, kept) ==
  LET cut == SetLine(PushUndo(b), Without(LineOf(b), from, to))
  IN  IF kept THEN PushKill(cut, <<Part(LineOf(b), from, to)>>) ELSE cut

AtEnd(b) == b.col >= Len(LineOf(b))
DeleteToEndOfLine(b) == IF AtEnd(b) THEN b ELSE Cut(b, b.col, Len(LineOf(b)), TRUE)
KillLine(b) ==
  IF ~AtEnd(b) THEN DeleteToEndOfLine(b)
  ELSE IF b.row = Len(b.lines) THEN b
  ELSE PushKill(Splice(PushUndo(b), b.row, 2, <<LineOf(b) \o b.lines[b.row + 1]>>), NewLine)
KillToStart(b) == IF b.col = 0 THEN b ELSE Home(Cut(b, 0, b.col, TRUE))
DeleteChar(b) == IF AtEnd(b) THEN b ELSE Cut(b, b.col, b.col + 1, FALSE)
DeleteWordForward(b) ==
  IF AtEnd(b) THEN b ELSE Cut(b, b.col, EndOfWord(LineOf(b), EndOfSpace(LineOf(b), b.col)), TRUE)
ChangeWord(b) ==
  IF AtEnd(b) THEN b
  ELSE Cut(b, b.col, IF Char(LineOf(b), b.col) \in Space THEN EndOfSpace(LineOf(b), b.col)
                                                        ELSE EndOfWord(LineOf(b), b.col), TRUE)
ChangeLine(b) ==
  LET kept == IF LineOf(b) = <<>> THEN b ELSE PushKill(b, <<LineOf(b)>>)
  IN  Home(SetLine(PushUndo(kept), <<>>))

Upper(c) == IF c = "a" THEN "A" ELSE c
Lower(c) == IF c = "A" THEN "a" ELSE c
Toggled(c) == IF c = "a" THEN "A" ELSE IF c = "A" THEN "a" ELSE c

\* transformWord: at(i) is what grapheme i of the word becomes.
TransformWord(b, style) ==
  LET line == LineOf(b)
      from == EndOfSpace(line, b.col)
      to == EndOfWord(line, from)
      new(i) == IF i \notin from + 1..to THEN line[i]
                ELSE IF style = "upcase" \/ (style = "capitalize" /\ i = from + 1)
                     THEN Upper(line[i]) ELSE Lower(line[i])
  IN  IF from >= Len(line) THEN b
      ELSE Move(SetLine(PushUndo(b), [i \in DOMAIN line |-> new(i)]), b.row, to)
ReplaceChar(b, char) ==
  IF AtEnd(b) THEN b ELSE SetLine(PushUndo(b), [LineOf(b) EXCEPT ![b.col + 1] = char])
ToggleCase(b) ==
  IF AtEnd(b) THEN b
  ELSE Move(ReplaceChar(b, Toggled(Char(LineOf(b), b.col))), b.row, b.col + 1)

Yank(b) == IF b.kills = <<>> THEN b ELSE InsertText(b, Last(b.kills))
Paste(b, row) ==
  IF b.kills = <<>> \/ Last(b.kills) = NoText THEN b
  ELSE Move(Splice(PushUndo(b), row, 0, Last(b.kills)), row, 0)
OpenLine(b, row) == Move(Splice(PushUndo(b), row, 0, NoText), row, 0)
YankLine(b) == PushKill(b, <<LineOf(b)>>)
DeleteLine(b) ==
  LET rest == Splice(PushKill(PushUndo(b), <<LineOf(b)>>), b.row, 1, <<>>)
  IN  IF Len(b.lines) = 1 THEN Move([rest EXCEPT !.lines = NoText], 1, 0)
      ELSE Move(rest, Min({b.row, Len(rest.lines)}), 0)
JoinLines(b) ==
  LET next == b.lines[b.row + 1]
      stripped == Beyond(next, EndOfSpace(next, 0))
      glue == IF stripped = <<>> \/ (LineOf(b) # <<>> /\ Last(LineOf(b)) \in Space)
              THEN <<>> ELSE <<" ">>
  IN  IF b.row = Len(b.lines) THEN b
      ELSE Move(Splice(PushUndo(b), b.row, 2, <<LineOf(b) \o glue \o stripped>>),
                b.row, Len(LineOf(b)))

\* The word before the cursor is replaced by a candidate.
ApplyCompletion(b, text) ==
  LET start == StartOfWord(LineOf(b), Min({b.col, Len(LineOf(b))}))
  IN  InsertRaw(Move(SetLine(PushUndo(b), Without(LineOf(b), start, b.col)), b.row, start), text)

-----------------------------------------------------------------------------
(* Selections and text objects                                             *)

Before(c, d) == c.row < d.row \/ (c.row = d.row /\ c.col <= d.col)
StartOfSelection(b, anchor) == IF Before(anchor, Cursor(b.row, b.col)) THEN anchor ELSE Cursor(b.row, b.col)
EndOfSelection(b, anchor) == IF Before(anchor, Cursor(b.row, b.col)) THEN Cursor(b.row, b.col) ELSE anchor
SelectedRows(b, anchor) ==
  SubSeq(b.lines, Min({b.row, anchor.row}), Min({Max({b.row, anchor.row}), Len(b.lines)}))

\* The text between two places, the lines in between given.
Between(b, from, to) == SubSeq(b.lines, from.row + 1, Min({to.row - 1, Len(b.lines)}))
Selected(b, from, to, between) ==
  IF from.row = to.row THEN <<Part(b.lines[from.row], from.col, to.col)>>
  ELSE <<Beyond(b.lines[from.row], from.col)>> \o between
         \o <<Upto(LineAt(b.lines, to.row), to.col)>>

\* Lines that are not there are yanked as empty ones, deleted as one.
YankSelection(b, anchor) ==
  LET from == StartOfSelection(b, anchor)
      to == EndOfSelection(b, anchor)
      missing == [r \in 1..Max({0, to.row - 1 - Len(b.lines)}) |-> <<>>]
  IN  Move(PushKill(b, Selected(b, from, to, Between(b, from, to) \o missing)), from.row, from.col)

Merged(b, from, to) == Upto(b.lines[from.row], from.col) \o Beyond(LineAt(b.lines, to.row), to.col)

DeleteSelection(b, anchor) ==
  LET from == StartOfSelection(b, anchor)
      to == EndOfSelection(b, anchor)
      between == IF Between(b, from, to) = <<>> /\ to.row > from.row + 1
                 THEN NoText ELSE Between(b, from, to)
      killed == PushKill(PushUndo(b), Selected(b, from, to, between))
  IN  Move(Splice(killed, from.row, to.row - from.row + 1, <<Merged(b, from, to)>>), from.row, from.col)

YankSelectionLines(b, anchor) ==
  Move(PushKill(b, SelectedRows(b, anchor)), Min({b.row, anchor.row}), 0)
DeleteSelectionLines(b, anchor) ==
  LET start == Min({b.row, anchor.row})
      rest == Splice(PushUndo(b), start, Len(SelectedRows(b, anchor)), <<>>)
      left == IF rest.lines = <<>> THEN [rest EXCEPT !.lines = NoText] ELSE rest
  IN  Move(PushKill(left, SelectedRows(b, anchor)), Min({start, Len(left.lines)}), 0)

Places(line, char) == {i \in 0..Len(line) - 1 : line[i + 1] = char}
Interval(from, to) == {[from |-> from, to |-> to]}

\* The ranges are sets: empty when there is no such object.
WordRange(modifier, line, col) ==
  LET from == IF col < Len(line) /\ Char(line, col) \in Space THEN EndOfSpace(line, col)
              ELSE StartOfWord(line, col)
      to == EndOfWord(line, from)
      after == EndOfSpace(line, to)
  IN  IF from >= Len(line) THEN {}
      ELSE IF modifier = "i" THEN Interval(from, to)
      ELSE IF after > to THEN Interval(from, after)
      ELSE Interval(StartOfSpace(line, from), to)

Delimited(modifier, from, to) ==
  IF modifier = "i" THEN Interval(from + 1, to) ELSE Interval(from, to + 1)

QuoteRange(modifier, line, col) ==
  LET quotes == Places(line, "q")
      before == {i \in quotes : i <= col}
      first == IF before # {} THEN Max(before) ELSE Min(quotes)
      second == {i \in quotes : i > first}
  IN  IF quotes = {} \/ second = {} THEN {} ELSE Delimited(modifier, first, Min(second))

\* The brackets strictly between two places pair up.
Balanced(line, from, to) ==
  Cardinality({i \in Places(line, "(") : from < i /\ i < to})
    = Cardinality({i \in Places(line, ")") : from < i /\ i < to})
BracketRange(modifier, line, col) ==
  LET bound == IF col \in Places(line, ")") THEN col ELSE col + 1
      opens == IF col \in Places(line, "(") THEN {col}
               ELSE {i \in Places(line, "(") : i < bound /\ Balanced(line, i, bound)}
      closes == {i \in Places(line, ")") : i > Max(opens) /\ Balanced(line, Max(opens), i)}
  IN  IF opens = {} \/ closes = {} THEN {} ELSE Delimited(modifier, Max(opens), Min(closes))

TextObject(b, modifier, target) ==
  CASE target = "w" -> WordRange(modifier, LineOf(b), b.col)
    [] target = "q" -> QuoteRange(modifier, LineOf(b), b.col)
    [] target = "(" -> BracketRange(modifier, LineOf(b), b.col)
    [] OTHER -> {}   \* a delimiter the texts do not have
DeleteTextObject(b, modifier, target) ==
  LET found == TextObject(b, modifier, target)
      object == CHOOSE r \in found : TRUE
  IN  IF found = {} THEN b ELSE Move(Cut(b, object.from, object.to, TRUE), b.row, object.from)
YankTextObject(b, modifier, target) ==
  LET found == TextObject(b, modifier, target)
      object == CHOOSE r \in found : TRUE
  IN  IF found = {} THEN b
      ELSE Move(PushKill(b, <<Part(LineOf(b), object.from, object.to)>>), b.row, object.from)

-----------------------------------------------------------------------------
(* The calls a key may end in; anchor, object, target and char are what    *)
(* vim's own calls need.                                                   *)

Plain(b, method) ==
  CASE method = "cursorLeft" -> CursorLeft(b)
    [] method = "cursorRight" -> CursorRight(b)
    [] method = "cursorUp" -> CursorToRow(b, b.row - 1)
    [] method = "cursorDown" -> CursorToRow(b, b.row + 1)
    [] method = "home" -> Home(b)
    [] method = "end" -> End(b)
    [] method = "wordLeft" -> WordLeft(b)
    [] method = "wordRight" -> WordRight(b)
    [] method = "wordEndForward" -> WordEndForward(b)
    [] method = "gotoTop" -> Move(b, 1, 0)
    [] method = "gotoBottom" -> Move(b, Len(b.lines), 0)
    [] method = "undo" -> Undo(b)
    [] method = "newline" -> InsertText(b, NewLine)
    [] method = "backspace" -> Backspace(b)
    [] method = "deleteWordBackward" -> DeleteWordBackward(b)
    [] method = "deleteChar" -> DeleteChar(b)
    [] method = "deleteWordForward" -> DeleteWordForward(b)
    [] method = "killToStart" -> KillToStart(b)
    [] method = "killLine" -> KillLine(b)
    [] method = "yank" -> Yank(b)
    [] method \in {"upcase", "downcase", "capitalize"} -> TransformWord(b, method)
    [] method = "toggleCase" -> ToggleCase(b)
    [] method = "deleteToEndOfLine" -> DeleteToEndOfLine(b)
    [] method = "changeWord" -> ChangeWord(b)
    [] method = "changeLine" -> ChangeLine(b)
    [] method = "deleteLine" -> DeleteLine(b)
    [] method = "yankLine" -> YankLine(b)
    [] method = "pasteAfter" -> Paste(b, b.row + 1)
    [] method = "pasteBefore" -> Paste(b, b.row)
    [] method = "appendNewlineBelow" -> OpenLine(b, b.row + 1)
    [] method = "newlineAbove" -> OpenLine(b, b.row)
    [] method = "joinLines" -> JoinLines(b)
    [] OTHER -> b

Motion ==
  [key \in {"h", "j", "k", "l", "w", "e", "b", "0", "$", "G"} |->
     CASE key = "h" -> "cursorLeft" [] key = "j" -> "cursorDown" [] key = "k" -> "cursorUp"
       [] key = "l" -> "cursorRight" [] key = "w" -> "wordRight" [] key = "e" -> "wordEndForward"
       [] key = "b" -> "wordLeft" [] key = "0" -> "home" [] key = "$" -> "end"
       [] key = "G" -> "gotoBottom"]
NormalCommand ==
  [key \in DOMAIN Motion \cup {"p", "P", "x", "u", "~", "D", "J"} |->
     CASE key \in DOMAIN Motion -> Motion[key]
       [] key = "p" -> "pasteAfter" [] key = "P" -> "pasteBefore" [] key = "x" -> "deleteChar"
       [] key = "u" -> "undo" [] key = "~" -> "toggleCase" [] key = "D" -> "deleteToEndOfLine"
       [] key = "J" -> "joinLines"]
InsertCommand ==
  [key \in {"C", "A", "I", "i", "a", "o", "O"} |->
     CASE key = "C" -> "deleteToEndOfLine" [] key = "A" -> "end" [] key = "I" -> "home"
       [] key = "i" -> "noop" [] key = "a" -> "cursorRight" [] key = "o" -> "appendNewlineBelow"
       [] key = "O" -> "newlineAbove"]
Operators == {"d", "y", "c", "g", "r"}
Targets == {"w", "q", "(", "["}

\* What an operator does with its second key, and the mode after it.
Operated(op, key) ==
  CASE op = "d" /\ key = "d" -> {[method |-> "deleteLine", mode |-> "normal"]}
    [] op = "d" /\ key = "w" -> {[method |-> "deleteWordForward", mode |-> "normal"]}
    [] op = "y" /\ key = "y" -> {[method |-> "yankLine", mode |-> "normal"]}
    [] op = "g" /\ key = "g" -> {[method |-> "gotoTop", mode |-> "normal"]}
    [] op = "c" /\ key = "c" -> {[method |-> "changeLine", mode |-> "insert"]}
    [] op = "c" /\ key = "w" -> {[method |-> "changeWord", mode |-> "insert"]}
    [] OTHER -> {}

VimKeys == DOMAIN NormalCommand \cup DOMAIN InsertCommand \cup Operators \cup {"q", "(", "v", "V"}

VimResult(vim, method) == [vim |-> vim, method |-> method]

\* A key with no operator pending.
FreshKey(vim, key, cursor) ==
  IF key \in DOMAIN NormalCommand THEN VimResult(vim, NormalCommand[key])
  ELSE IF key \in DOMAIN InsertCommand THEN VimResult(Vim("insert"), InsertCommand[key])
  ELSE IF key \in Operators THEN VimResult([Vim("normal") EXCEPT !.op = key], "noop")
  ELSE IF key = "v" THEN VimResult([Vim("visual") EXCEPT !.anchor = cursor], "noop")
  ELSE IF key = "V" THEN VimResult([Vim("visual-line") EXCEPT !.anchor = cursor], "noop")
  ELSE VimResult(vim, "noop")

\* handleVisualKey
VisualKey(vim, key) ==
  LET lines == vim.mode = "visual-line"
      stay == [vim EXCEPT !.op = ""]
  IN  CASE key \in {"d", "x"} ->
             VimResult(Vim("normal"), IF lines THEN "deleteSelectionLines" ELSE "deleteSelection")
        [] key = "y" ->
             VimResult(Vim("normal"), IF lines THEN "yankSelectionLines" ELSE "yankSelection")
        [] key \in DOMAIN Motion -> VimResult(stay, Motion[key])
        [] key = "g" /\ vim.op = "g" -> VimResult(stay, "gotoTop")
        [] key = "g" /\ vim.op # "g" -> VimResult([stay EXCEPT !.op = "g"], "noop")
        [] OTHER -> VimResult(vim, "noop")

\* vimHandleKey
HandleVimKey(vim, key, cursor) ==
  IF vim.mode \in {"visual", "visual-line"} THEN VisualKey(vim, key)
  ELSE IF vim.object # ""
    THEN IF key \in Targets
         THEN VimResult(Vim(IF vim.op = "c" THEN "insert" ELSE "normal"),
                     IF vim.op = "y" THEN "yankTextObject" ELSE "deleteTextObject")
         ELSE FreshKey(Vim("normal"), key, cursor)
  ELSE IF vim.op = "r" THEN VimResult(Vim("normal"), "replaceChar")
  ELSE IF Operated(vim.op, key) # {}
    THEN LET done == CHOOSE o \in Operated(vim.op, key) : TRUE
         IN  VimResult(Vim(done.mode), done.method)
  ELSE IF vim.op \in {"d", "y", "c"} /\ key \in {"i", "a"}
    THEN VimResult([vim EXCEPT !.object = key], "noop")
  ELSE FreshKey(Vim("normal"), key, cursor)

\* applyVimAction
ApplyVim(b, method, vim, key) ==
  CASE method = "deleteSelection" -> DeleteSelection(b, vim.anchor)
    [] method = "yankSelection" -> YankSelection(b, vim.anchor)
    [] method = "deleteSelectionLines" -> DeleteSelectionLines(b, vim.anchor)
    [] method = "yankSelectionLines" -> YankSelectionLines(b, vim.anchor)
    [] method = "deleteTextObject" -> DeleteTextObject(b, vim.object, key)
    [] method = "yankTextObject" -> YankTextObject(b, vim.object, key)
    [] method = "replaceChar" -> ReplaceChar(b, IF key \in {"q", "("} THEN key ELSE "a")
    [] OTHER -> Plain(b, method)

-----------------------------------------------------------------------------
(* Keys                                                                    *)

Modal == edVim.mode \in {"normal", "visual", "visual-line"}
Press == edKeys < MaxKeys /\ edKeys' = edKeys + 1

\* handleVimModalInput: every printable character of what the terminal sent
\* goes through vim, also those of an escape sequence.
FedKey(fed, key) ==
  LET handled == HandleVimKey(fed.vim, key, Cursor(fed.buffer.row, fed.buffer.col))
  IN  [vim |-> handled.vim, buffer |-> ApplyVim(fed.buffer, handled.method, fed.vim, key),
       did |-> IF handled.method = "noop" THEN fed.did ELSE Append(fed.did, handled.method)]
Fed(keys) ==
  LET start == [vim |-> edVim, buffer |-> edBuffer, did |-> <<>>]
  IN  IF Modal THEN FoldLeft(FedKey, start, keys) ELSE start

\* The index a walk through the history goes to, and the text there.
RecallIndex(method) ==
  IF method = "history_previous" THEN Max({0, edRecalled - 1})
                                 ELSE Min({Len(edHistory), edRecalled + 1})
HistoryText(index) == IF index < Len(edHistory) THEN edHistory[index + 1] ELSE NoText
Recalls(method) == method \in {"history_previous", "history_next"} /\ edHistory # <<>>

\* What is sent: characters for vim, then the method the decoder makes of them.
Send(keys, method) ==
  /\ Press
  /\ edVim' = Fed(keys).vim
  /\ edRecalled' = IF Recalls(method) THEN RecallIndex(method) ELSE edRecalled
  /\ edBuffer' = IF Recalls(method) THEN SetText(Fed(keys).buffer, HistoryText(edRecalled'))
                                    ELSE Plain(Fed(keys).buffer, method)
  /\ LET did == Fed(keys).did \o (IF method = "noop" THEN <<>> ELSE <<method>>)
     IN  edDid' = IF did = <<>> THEN "noop" ELSE IF Len(did) = 1 THEN Head(did) ELSE "several"
  /\ edEscape' = FALSE
  /\ UNCHANGED edHistory

AltMethod ==
  [key \in {"b", "f", "d", "u", "c"} |->
     CASE key = "b" -> "wordLeft" [] key = "f" -> "wordRight" [] key = "d" -> "deleteWordForward"
       [] key = "u" -> "upcase" [] key = "c" -> "capitalize"]
ArrowMethod ==
  [key \in {"A", "B", "C", "D"} |->
     CASE key = "A" -> "history_previous" [] key = "B" -> "history_next"
       [] key = "C" -> "cursorRight" [] key = "D" -> "cursorLeft"]
ControlMethods ==
  {"newline", "backspace", "deleteWordBackward", "killToStart", "undo", "killLine", "yank", "home",
   "end"}

\* After an Esc the decoder takes the key for an Alt key, besides.
VimKey(key) ==
  Modal /\ Send(<<key>>, IF edEscape /\ key \in DOMAIN AltMethod THEN AltMethod[key] ELSE "noop")
AltKey(key) == Send(<<key>>, AltMethod[key])
\* An arrow key is Esc, "[" and a letter; Delete is Esc, "[", "3" and "~".
ArrowKey(key) == Send(<<"[", key>>, ArrowMethod[key])
DeleteKey == Send(<<"[", "3", "~">>, "deleteChar")
\* Control keys edit in every mode, also under a visual anchor.
ControlKey(method) == Send(<<>>, method)

\* Text goes into the buffer when vim is off or inserting.
TypeText(text) ==
  /\ ~Modal /\ Press
  /\ edBuffer' = InsertText(edBuffer, text)
  /\ edDid' = "insertText" /\ edEscape' = FALSE
  /\ UNCHANGED <<edVim, edHistory, edRecalled>>

\* Esc leaves insert mode; otherwise only the decoder sees it, which keeps it
\* for what comes next: an operator or a selection is not cancelled.
Escape ==
  /\ Press
  /\ edVim' = IF edVim.mode = "insert" THEN Vim("normal") ELSE edVim
  /\ edEscape' = (edVim.mode # "insert")
  /\ edDid' = "noop"
  /\ UNCHANGED <<edBuffer, edHistory, edRecalled>>

\* Tab, and Enter on the candidate.
Complete(text) ==
  /\ Press
  /\ edBuffer' = ApplyCompletion(edBuffer, text)
  /\ edDid' = "applyCompletion" /\ edEscape' = FALSE
  /\ UNCHANGED <<edVim, edHistory, edRecalled>>

\* Enter, unless it follows an Esc, submits what is not blank, trimmed.
Filled == {r \in DOMAIN edBuffer.lines : ~IsBlank(edBuffer.lines[r])}
Trimmed ==
  [r \in 1..Max(Filled) - Min(Filled) + 1 |->
     LET line == edBuffer.lines[Min(Filled) + r - 1]
     IN  Part(line, IF r = 1 THEN EndOfSpace(line, 0) ELSE 0,
              IF Min(Filled) + r - 1 = Max(Filled) THEN StartOfSpace(line, Len(line)) ELSE Len(line))]
SubmitLine ==
  /\ ~edEscape /\ Press /\ Filled # {}
  /\ edHistory' = LastOf(Append(edHistory, Trimmed), HistoryLimit)
  /\ edRecalled' = Len(edHistory')
  /\ edBuffer' = Clear(edBuffer)
  /\ edDid' = "clear"
  /\ UNCHANGED <<edVim, edEscape>>

ToggleVim ==
  /\ Press
  /\ edVim' = Vim(IF edVim.mode = "off" THEN "normal" ELSE "off")
  /\ edDid' = "noop" /\ edEscape' = FALSE
  /\ UNCHANGED <<edBuffer, edHistory, edRecalled>>

EditorInit ==
  /\ \E start \in EditorStarts :
       edBuffer = [lines |-> start.lines, row |-> start.row, col |-> start.col,
                   undo |-> <<>>, kills |-> <<>>]
  /\ edVim \in {Vim("off"), Vim("normal")}
  /\ edEscape = FALSE /\ edHistory = <<>> /\ edRecalled = 0
  /\ edKeys = 0 /\ edDid = "noop"

EditorNext ==
  \/ \E text \in PastedTexts : TypeText(text) \/ Complete(text)
  \/ \E key \in VimKeys : VimKey(key)
  \/ \E key \in DOMAIN AltMethod : AltKey(key)
  \/ \E key \in DOMAIN ArrowMethod : ArrowKey(key)
  \/ \E method \in ControlMethods : ControlKey(method)
  \/ DeleteKey
  \/ Escape \/ SubmitLine \/ ToggleVim

EditorSpec == EditorInit /\ [][EditorNext]_editorVars

-----------------------------------------------------------------------------
(* Properties                                                              *)

\* Ctrl+Z and u take back exactly the last change: whatever key changed the
\* text, in whatever mode, one undo brings back the text and the cursor of
\* before, also when the stack was full; a change that records nothing, or
\* twice, breaks it.  (A key after an Esc may make two changes at once.)
UndoTakesBack ==
  edBuffer'.lines # edBuffer.lines /\ edDid' \notin {"undo", "several"}
    => Snapshot(Undo(edBuffer')) = Snapshot(edBuffer)

CharacterKills ==
  {"killLine", "killToStart", "deleteWordForward", "deleteToEndOfLine", "changeWord",
   "deleteSelection", "deleteTextObject"}
AnchorInside(b, anchor) ==
  anchor.row \in {0} \cup DOMAIN b.lines /\ (anchor.row > 0 => anchor.col <= Len(b.lines[anchor.row]))

\* What a kill takes, within a line or over several, is what Ctrl+Y puts back:
\* inserted where the cursor was left, it restores the text.  A visual anchor
\* that a control key has left outside the text is the exception (app.ts:1360
\* keeps it while Ctrl+W, Ctrl+Z or the history change the lines), and so is a
\* cursor that has been put there, beyond the end of its line (editor.ts:616).
CursorInside(b) == b.col <= Len(LineOf(b))
KillsComeBack ==
  /\ edDid' \in CharacterKills /\ edBuffer'.lines # edBuffer.lines
  /\ AnchorInside(edBuffer, edVim.anchor) /\ CursorInside(edBuffer)
  => Yank(edBuffer').lines = edBuffer.lines

\* No key loses text for good: what it changes one undo takes back, and what it
\* kills one yank brings back.
NoTextLost == [][UndoTakesBack /\ KillsComeBack]_editorVars
=============================================================================
