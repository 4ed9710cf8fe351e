------------------------------- MODULE Screen -------------------------------
(***************************************************************************)
(* The addressable grid of src/emu/screen.rs, as operators on one screen:  *)
(* a record of rows, cursor, scroll region and `carried`, the rows of the  *)
(* top line that Emacs already holds.  An operation that can push rows off *)
(* the top returns [s |-> the screen after, out |-> the rows that left].   *)
(*                                                                         *)
(* Rows and screen rows count from 1; `col` is the columns to the left of  *)
(* the cursor, as in the code.  Every character is one column wide, every  *)
(* pen is the default one, and insert mode is off.                         *)
(***************************************************************************)
EXTENDS Integers, Sequences, SequencesExt

Blank == 0   \* cell.rs BLANK; a character is a positive number

Least(a, b) == IF a < b THEN a ELSE b
Greatest(a, b) == IF a < b THEN b ELSE a

-----------------------------------------------------------------------------
(* Rows *)

BlankRow(n) == [cells |-> [i \in 1..n |-> Blank], wrapped |-> FALSE]

HasText(row) == \E i \in DOMAIN row.cells : row.cells[i] # Blank

\* Row::content_len: the columns up to the last one that is not blank.
ContentLen(row) == Max({0} \cup {i \in DOMAIN row.cells : row.cells[i] # Blank})

\* Broken: every row is trimmed as a line's last row is.
LineCellsTrimmed(row) == SubSeq(row.cells, 1, ContentLen(row))

\* Row::line_runs and Logical::push_row: a continuation keeps its trailing blanks.
LineCells(row) ==
  SubSeq(row.cells, 1, IF row.wrapped THEN Len(row.cells) ELSE ContentLen(row))

\* Broken: a row forgets on its way out that its line goes on.
DepartedClosed(row) == [text |-> LineCells(row), wrapped |-> FALSE]

Departed(row) == [text |-> LineCells(row), wrapped |-> row.wrapped]
DepartedRows(rows) == [i \in DOMAIN rows |-> Departed(rows[i])]

\* Row::fill over a range of columns leaves `wrapped` alone.
Fill(row, cols) ==
  [row EXCEPT !.cells = [i \in DOMAIN @ |-> IF i \in cols THEN Blank ELSE @[i]]]

\* Broken: the cells move over and the gap is not blanked.
InsertSmearing(row, c) ==
  [row EXCEPT !.cells = SubSeq(@, 1, c) \o <<@[c + 1]>> \o SubSeq(@, c + 1, Len(@) - 1)]

\* Row::insert_blank and Row::delete, one column at column c.
InsertBlank(row, c) ==
  [row EXCEPT !.cells = SubSeq(@, 1, c) \o <<Blank>> \o SubSeq(@, c + 1, Len(@) - 1)]
DeleteCell(row, c) ==
  [row EXCEPT !.cells = SubSeq(@, 1, c) \o SubSeq(@, c + 2, Len(@)) \o <<Blank>>]

\* Row::resize: a plain rectangle cut or padded to n columns.
ResizeRow(row, n) ==
  [row EXCEPT !.cells = [i \in 1..n |-> IF i \in DOMAIN @ THEN @[i] ELSE Blank]]

-----------------------------------------------------------------------------
(* Screens *)

NewScreen(rows, cols) ==
  [rows |-> [r \in 1..rows |-> BlankRow(cols)], cols |-> cols,
   row |-> 1, col |-> 0, pend |-> FALSE,
   top |-> 1, bottom |-> rows, carried |-> 0, autowrap |-> TRUE]

Height(s) == Len(s.rows)
FullRegion(s) == s.top = 1 /\ s.bottom = Height(s)
Quiet(s) == [s |-> s, out |-> <<>>]

LastUsedRow(s) == Max({1} \cup {r \in 1..Height(s) : HasText(s.rows[r])})
\* Broken: what is drawn below the cursor is not in use.
UsedToCursor(s) == s.row

Used(s) == Greatest(LastUsedRow(s), s.row)
HeadOf(s) == s.carried * s.cols

\* Broken: every batch starts the count over.
CarryRestarting(carried, out) ==
  Len(out) - Max({0} \cup {i \in DOMAIN out : ~out[i].wrapped})

\* Screen::carry: the rows of the top line now held by Emacs, after `out` left.
Carry(carried, out) ==
  LET starts == {i \in DOMAIN out : ~out[i].wrapped}
      run == Len(out) - Max({0} \cup starts)
  IN  IF run = Len(out) THEN carried + run ELSE run

ClearRows(s, which) ==
  [s EXCEPT !.rows = [r \in DOMAIN @ |-> IF r \in which THEN BlankRow(s.cols) ELSE @[r]]]

\* Screen::scroll_up; only an unpartitioned screen hands its rows on.
ScrollUp(s, n) ==
  LET k == Least(n, s.bottom + 1 - s.top)
      out == IF FullRegion(s) THEN DepartedRows(SubSeq(s.rows, 1, k)) ELSE <<>>
      Moved(r) == IF r \notin s.top..s.bottom THEN s.rows[r]
                  ELSE IF r + k <= s.bottom THEN s.rows[r + k] ELSE BlankRow(s.cols)
  IN  [s |-> [s EXCEPT !.rows = [r \in DOMAIN @ |-> Moved(r)],
                       !.carried = Carry(@, out)],
       out |-> out]

ScrollDown(s, n) ==
  LET k == Least(n, s.bottom + 1 - s.top)
      Moved(r) == IF r \notin s.top..s.bottom THEN s.rows[r]
                  ELSE IF r - k >= s.top THEN s.rows[r - k] ELSE BlankRow(s.cols)
  IN  [s EXCEPT !.rows = [r \in DOMAIN @ |-> Moved(r)]]

LineFeed(s) ==
  LET t == [s EXCEPT !.pend = FALSE]
  IN  IF t.row = t.bottom THEN ScrollUp(t, 1)
      ELSE Quiet(IF t.row < Height(t) THEN [t EXCEPT !.row = @ + 1] ELSE t)

ReverseIndex(s) ==
  LET t == [s EXCEPT !.pend = FALSE]
  IN  IF t.row = t.top THEN ScrollDown(t, 1)
      ELSE IF t.row = 1 THEN t ELSE [t EXCEPT !.row = @ - 1]

\* Screen::goto clamps; carriage return, backspace, tabs and relative motion are cases of it.
Goto(s, row, col) ==
  [s EXCEPT !.row = Least(row, Height(s)), !.col = Least(col, s.cols - 1), !.pend = FALSE]

\* Screen::place for one column, with settle_cursor: a character beyond the last
\* column first takes the wrap it deferred.
Place(s, ch) ==
  LET at == IF s.pend /\ s.autowrap THEN LineFeed([s EXCEPT !.rows[s.row].wrapped = TRUE, !.col = 0])
            ELSE Quiet(s)
      t == [at.s EXCEPT !.rows[at.s.row].cells[at.s.col + 1] = ch]
      atEdge == t.col + 1 >= t.cols
  IN  [s |-> [t EXCEPT !.col = IF atEdge THEN t.cols - 1 ELSE @ + 1,
                       !.pend = atEdge /\ t.autowrap],
       out |-> at.out]

SetAutowrap(s, on) == [s EXCEPT !.autowrap = on, !.pend = @ /\ on]

\* Screen::set_region: DECSTBM, refused unless it holds two rows.
SetRegion(s, top, bottom) ==
  LET b == Least(bottom, Height(s))
  IN  IF top < b THEN Goto([s EXCEPT !.top = top, !.bottom = b], 1, 0) ELSE s

EraseLine(s, how) ==
  [s EXCEPT !.rows[s.row] =
     CASE how = "end" -> Fill(@, s.col + 1 .. s.cols)
       [] how = "start" -> Fill(@, 1 .. s.col + 1)
       [] how = "all" -> BlankRow(s.cols)]

\* Screen::erase_display: erasing everything archives what was there.
EraseDisplay(s, how) ==
  CASE how = "end" -> Quiet(ClearRows(EraseLine(s, "end"), s.row + 1 .. Height(s)))
    [] how = "start" -> Quiet(EraseLine(ClearRows(s, 1 .. s.row - 1), "start"))
    [] how = "all" ->
         [s |-> [ClearRows(s, 1..Height(s)) EXCEPT !.carried = 0],
          out |-> IF FullRegion(s) /\ \E r \in 1..Height(s) : HasText(s.rows[r])
                  THEN DepartedRows(SubSeq(s.rows, 1, LastUsedRow(s))) ELSE <<>>]

\* Screen::insert_lines and delete_lines borrow the region; what they push off is
\* destroyed, so the carry stands.
InsertLines(s, n) ==
  IF s.row \notin s.top..s.bottom THEN s
  ELSE [ScrollDown([s EXCEPT !.top = s.row], n) EXCEPT !.top = s.top]
DeleteLines(s, n) ==
  IF s.row \notin s.top..s.bottom THEN s
  ELSE [ScrollUp([s EXCEPT !.top = s.row], n).s EXCEPT !.top = s.top, !.carried = s.carried]

InsertChar(s) == [s EXCEPT !.rows[s.row] = InsertBlank(@, s.col)]
DeleteChar(s) == [s EXCEPT !.rows[s.row] = DeleteCell(@, s.col)]
EraseChar(s) == [s EXCEPT !.rows[s.row] = Fill(@, {s.col + 1})]

\* Screen::remove_rows: n rows from `first` go for good, and the cursor rides with its text.
RemoveRows(s, first, n) ==
  LET k == Least(n, Height(s) + 1 - first)
      left == SubSeq(s.rows, 1, first - 1) \o SubSeq(s.rows, first + k, Height(s))
  IN  IF k <= 0 THEN s
      ELSE [s EXCEPT !.rows = left \o [i \in 1..k |-> BlankRow(s.cols)],
                     !.carried = IF first = 1 THEN 0 ELSE @,
                     !.row = IF @ >= first + k THEN @ - k ELSE Least(@, first),
                     !.pend = FALSE]

-----------------------------------------------------------------------------
(* Resizing *)

ResetRegion(s) == [s EXCEPT !.top = 1, !.bottom = Height(s)]

\* Resize::Clamp, and a change of height alone: blank rows below the content go
\* first, then rows off the top.
ClampTo(s, rows, cols) ==
  LET cut == [s EXCEPT !.rows = [r \in DOMAIN @ |-> ResizeRow(@[r], cols)], !.cols = cols]
      excess == Greatest(Height(cut) - rows, 0)
      spare == Least(Height(cut) - Used(cut), excess)
      shed == excess - spare
      kept == SubSeq(cut.rows, shed + 1, Height(cut) - spare)
      out == DepartedRows(SubSeq(cut.rows, 1, shed))
  IN  [s |-> ResetRegion(
               [cut EXCEPT !.rows = kept \o [i \in 1 .. rows - Len(kept) |-> BlankRow(cols)],
                           !.carried = Carry(@, out),
                           !.row = Least(Greatest(@ - shed, 1), rows),
                           !.col = Least(@, cols - 1)]),
       out |-> out]

\* A line is open at the end of a text until a row that ends it: how Screen::reflow
\* gathers rows into logical lines, and cooked--render-scrolled adds them to the buffer.
Emptied == << <<>> >>
Inserted(buffer, row) ==
  LET joined == [buffer EXCEPT ![Len(buffer)] = @ \o row.text]
  IN  IF row.newline THEN Append(joined, <<>>) ELSE joined
AppendTo(buffer, scrolled) ==
  LET upto[n \in 0..Len(scrolled)] ==
        IF n = 0 THEN buffer ELSE Inserted(upto[n - 1], scrolled[n])
  IN  upto[Len(scrolled)]

\* Logical::push_row of the first n rows; the last row in use leaves its line open.
Pieces(s, n) ==
  [r \in 1..n |-> [text |-> LineCells(s.rows[r]), newline |-> ~s.rows[r].wrapped /\ r < Used(s)]]

\* Logical::chunk at one column per character: rows of exactly `cols`.
Chunk(line, cols) ==
  LET n == Greatest(1, (Len(line) + cols - 1) \div cols)
      Cell(k, i) == LET at == (k - 1) * cols + i
                    IN  IF at <= Len(line) THEN line[at] ELSE Blank
  IN  [k \in 1..n |-> [cells |-> [i \in 1..cols |-> Cell(k, i)], wrapped |-> k < n]]

\* screen.rs place: where an offset into a chunked line puts the cursor.
CursorAt(offset, cols, chunks) ==
  LET row == offset \div cols
      col == offset % cols
  IN  IF col = 0 /\ row > 0 /\ row >= chunks
      THEN [row |-> row, col |-> cols - 1, pend |-> TRUE]
      ELSE [row |-> Least(row, chunks - 1) + 1, col |-> col, pend |-> FALSE]

\* The logical lines of the rows in use, and the cursor's line and offset within it;
\* the cursor's line is padded out to wherever the cursor stands.
LogicalLines(s) ==
  LET before == AppendTo(Emptied, Pieces(s, s.row - 1))
      at == Len(before)
      offset == Len(before[at]) + s.col + (IF s.pend THEN 1 ELSE 0)
      Padded(line) == line \o [k \in 1 .. Greatest(offset - Len(line), 0) |-> Blank]
      gathered == AppendTo(Emptied, Pieces(s, Used(s)))
  IN  [lines |-> [gathered EXCEPT ![at] = Padded(@)], at |-> at, offset |-> offset]

\* Screen::reflow, its middle: the head in Emacs is topped up to whole rows at the
\* new width with a fragment cut off the first line.
Realign(logical, head, cols) ==
  LET first == logical.lines[1]
      split == Least(cols - (head % cols), Len(first))
      ends == split = Len(first)
      fragment == [cells |-> SubSeq(first, 1, split), wrapped |-> ~ends]
      rest == SubSeq(first, split + 1, Len(first))
      offset == IF logical.at = 1 THEN Greatest(logical.offset - split, 0) ELSE logical.offset
  IN  IF (head % cols) = 0 THEN [logical |-> logical, head |-> head, out |-> <<>>]
      ELSE [logical |-> [lines |-> IF ends THEN Tail(logical.lines)
                                   ELSE <<rest>> \o Tail(logical.lines),
                         at |-> IF ends THEN Greatest(logical.at - 1, 1) ELSE logical.at,
                         offset |-> offset],
            head |-> IF ends THEN 0 ELSE head + split,
            out |-> <<Departed(fragment)>>]

\* The logical lines chunked again, and where among those rows the cursor lands.
Relaid(lines, cols) == FlattenSeq([i \in DOMAIN lines |-> Chunk(lines[i], cols)])
Landing(logical, cols) ==
  LET cursor == CursorAt(logical.offset, cols, Len(Chunk(logical.lines[logical.at], cols)))
      above == Len(Relaid(SubSeq(logical.lines, 1, logical.at - 1), cols))
  IN  IF logical.lines = <<>> THEN [row |-> 1, col |-> 0, pend |-> FALSE]
      ELSE [cursor EXCEPT !.row = @ + above]

\* What no longer fits leaves off the top.
Fit(s, rows, cols, grid, cursor, head) ==
  LET over == Greatest(Len(grid) - rows, 0)
      out == DepartedRows(SubSeq(grid, 1, over))
      spare == [i \in 1 .. Greatest(rows - Len(grid), 0) |-> BlankRow(cols)]
  IN  [s |-> ResetRegion(
               [s EXCEPT !.rows = SubSeq(grid, over + 1, Len(grid)) \o spare, !.cols = cols,
                         !.row = Least(Greatest(cursor.row - over, 1), rows),
                         !.col = cursor.col, !.pend = cursor.pend,
                         !.carried = Carry(head \div cols, out)]),
       out |-> out]

\* Screen::reflow.
Rewrap(s, rows, cols, seam) ==
  [Fit(s, rows, cols, Relaid(seam.logical.lines, cols), Landing(seam.logical, cols), seam.head)
     EXCEPT !.out = seam.out \o @]
Reflow(s, rows, cols) == Rewrap(s, rows, cols, Realign(LogicalLines(s), HeadOf(s), cols))

\* Screen::resize as the primary screen takes it (Resize::Rewrap).
ResizeScreen(s, rows, cols) ==
  IF cols # s.cols /\ FullRegion(s) THEN Reflow(s, rows, cols) ELSE ClampTo(s, rows, cols)
=============================================================================
