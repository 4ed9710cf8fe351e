-------------------------------- MODULE Line ---------------------------------
(***************************************************************************)
(* A program drawing on one row: it prints, moves, erases, shifts cells,   *)
(* changes the pen, marks prompts and places pictures, and every so often  *)
(* Emacs takes what changed.  A session draws on its own choice of texts   *)
(* and operations, `left` of them.                                         *)
(***************************************************************************)
EXTENDS Printing

CONSTANTS
  Sessions,   \* the width, the texts, the operations and the autowrap of each session
  MaxOps      \* bound: operations of one session

VARIABLES
  session,    \* what this program does
  t,          \* the terminal
  shown,      \* the row Emacs holds, forgotten once the row is damaged again
  marks,      \* the semantic marks taken so far
  left        \* operations left

vars == <<session, t, shown, marks, left>>

Does(op) == op \in session.ops /\ left > 0
Done == left' = left - 1 /\ UNCHANGED session

\* What Emacs draws of a row, and whether its line goes on (State::live_rows).
Drawing(row) ==
  <<IF row.wrapped THEN RunsTo(row, Width(row)) ELSE Runs(row), row.wrapped>>
Stale == <<>>

\* The terminal after an operation; what Emacs holds is compared while it is not damaged.
Now(u) == t' = u /\ shown' = IF u.dirty THEN Stale ELSE shown

\* What is dispatched as a control or a sequence forgets the cell before the cursor.
Dispatch(u) == Now(Reset(u)) /\ UNCHANGED marks

Moved(u) == [u EXCEPT !.drawn = Nothing]

Init ==
  /\ session \in Sessions
  /\ t = NewTerminal(session.cols, session.autowrap)
  /\ shown = Stale
  /\ marks = 0
  /\ left = MaxOps

Prints == \E text \in session.texts :
  left > 0 /\ Done /\ Now(PrintStr(t, text)) /\ UNCHANGED marks

\* Screen::goto and carriage_return
Goto == \E col \in 0..(session.cols - 1) :
  /\ Does("goto") /\ Done
  /\ Dispatch(Moved([t EXCEPT !.col = col, !.pending = FALSE]))

\* SGR and OSC 8: the pen, the underline's colour, the open link.
Pen == \E style \in {0, 1} : Does("pen") /\ Done /\ Dispatch([t EXCEPT !.pen = style])
Underline == \E colour \in {0, 1} :
  Does("underline") /\ Done /\ Dispatch([t EXCEPT !.underline = colour])
Link == \E link \in {0, 1} : Does("link") /\ Done /\ Dispatch([t EXCEPT !.link = link])
Insert == \E on \in BOOLEAN : Does("insert") /\ Done /\ Dispatch([t EXCEPT !.insert = on])
Graphics == \E on \in BOOLEAN :
  Does("graphics") /\ Done /\ Dispatch([t EXCEPT !.graphics = on])

\* Screen::set_autowrap
Autowrap == \E on \in BOOLEAN :
  /\ Does("autowrap") /\ Done
  /\ Dispatch([t EXCEPT !.autowrap = on, !.pending = @ /\ on])

Rep == \E n \in 1..2 : Does("repeat") /\ Done /\ Now(Repeat(t, n)) /\ UNCHANGED marks

Sized == \E text \in session.texts, width \in 1..2 :
  Does("size") /\ Done /\ Now(TextSize(t, text, width)) /\ UNCHANGED marks

Spans == {t.col..(session.cols - 1), 0..t.col} \cup {t.col..Min({t.col + n, session.cols}) - 1 : n \in 1..2}

\* Screen::erase_line to either end, and erase_chars.
Erase == \E span \in Spans :
  LET new == Blanks(span, t.pen)
  IN  /\ Does("erase") /\ Done
      /\ Dispatch(Moved(Edit(t, Overwrite(t.row, new), Differs(t.row, new))))

EraseLine ==
  /\ Does("erase") /\ Done
  /\ Dispatch(Moved(Edit(t, EraseAll(t.row, t.pen), EraseAllDiffers(t.row, t.pen))))

\* Screen::insert_chars and delete_chars
InsertChars == \E n \in 1..2 :
  Does("ich") /\ Done /\ Dispatch(Moved(Touch(t, InsertBlank(t.row, t.col, n, t.pen))))
DeleteChars == \E n \in session.deletes :
  Done /\ left > 0 /\ Dispatch(Moved(Touch(t, Delete(t.row, t.col, n, t.pen))))

\* State::take_mark leaves the mark on the cursor's cell and damages nothing.
Semantic ==
  /\ Does("mark") /\ Done
  /\ Now(Reset([t EXCEPT !.row = Mark(@, t.col, marks + 1)]))
  /\ marks' = marks + 1

\* Screen::place_image_row, one row of a picture two columns wide.
Picture ==
  LET width == Min({2, session.cols - t.col})
      Lay(row, i) == PlaceImage(row, t.col + i - 1, i, t.pen)
  IN  /\ Does("image") /\ Done
      /\ Dispatch(Moved(Touch(t, FoldLeft(Lay, t.row, [i \in 1..width |-> i]))))

\* Screen::drain_damage
Drain ==
  /\ "drain" \in session.ops /\ t.dirty
  /\ t' = [t EXCEPT !.dirty = FALSE]
  /\ shown' = Drawing(t.row)
  /\ UNCHANGED <<session, marks, left>>

Next ==
  \/ Prints \/ Goto \/ Pen \/ Underline \/ Link \/ Insert \/ Graphics \/ Autowrap
  \/ Rep \/ Sized \/ Erase \/ EraseLine \/ InsertChars \/ DeleteChars
  \/ Semantic \/ Picture \/ Drain

Spec == Init /\ [][Next]_vars

-----------------------------------------------------------------------------
(* Properties *)

TypeOK ==
  /\ session \in Sessions /\ left \in 0..MaxOps
  /\ DOMAIN t.row.cells = 0..(session.cols - 1)
  /\ t.col \in 0..(session.cols - 1)
  /\ t.pending => t.autowrap /\ t.col = session.cols - 1
  /\ \A i \in DOMAIN t.row.extras : t.row.extras[i].col < session.cols

EntryIds(row, col, kind) ==
  LET there == SelectSeq(row.extras, LAMBDA x : x.col = col /\ x.kind = kind)
  IN  [i \in DOMAIN there |-> there[i].id]

\* The cell printed last is one thing: its character, the marks that followed it however
\* many reads and pen changes later, its colour and its link stand on the same column,
\* and the cursor is where that cell ends (Screen::join, mark_underline, mark_link).
RidesItsCell ==
  t.drawn # Nothing =>
    LET d == t.drawn
        Last1(ids, none) == IF ids = <<>> THEN none ELSE Last(ids)
    IN  /\ t.row.cells[d.col].ch = Head(d.text)
        /\ Last1(EntryIds(t.row, d.col, "marks"), <<>>) = Tail(d.text)
        /\ Last1(EntryIds(t.row, d.col, "underline"), 0) = d.underline
        /\ Last1(EntryIds(t.row, d.col, "link"), 0) = d.link
        /\ \A c \in (d.col + 1)..(d.col + d.cells - 1) : t.row.cells[c].ch = CONTINUATION

\* The side table is in column order, which every reader of it relies on (Extras).
InColumnOrder ==
  \A i, j \in DOMAIN t.row.extras : i < j => t.row.extras[i].col <= t.row.extras[j].col

\* What Emacs is handed is what the cells and the table say, on both paths and however
\* much of the row is asked for (Row::runs_to against runs_to_reference).
RunsFaithful ==
  \A end \in 0..session.cols : RunsTo(t.row, end) = RunsReference(t.row, end)

\* A row that is not reported damaged is the row Emacs holds (Screen::edit, touch).
DamageReported == ~t.dirty => shown = Drawing(t.row)

\* A run of text printed at once leaves what it leaves one character at a time.
BatchIsPerCharacter == \A text \in session.texts : PrintStr(t, text) = PrintEach(t, text)

=============================================================================
