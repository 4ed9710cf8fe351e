--------------------------------- MODULE Row ---------------------------------
(***************************************************************************)
(* One row of the grid (src/emu/cell.rs): its cells, and the side table of *)
(* what is attached to single columns, as operators on one row.            *)
(*                                                                         *)
(* Columns count from 0, as in the code.  A character is a class of its    *)
(* own: "a" and "b" ASCII, "w" CJK, "E" an emoji, "e" a character with an  *)
(* emoji presentation, "r" a regional indicator, "x" a box glyph, and the  *)
(* zero-width "m" a combining mark, "z" the joiner, "v" and "n" the        *)
(* selectors U+FE0F and U+FE0E.  A style is 0, the default, or a colour.   *)
(***************************************************************************)
EXTENDS Integers, Sequences, SequencesExt, FiniteSetsExt

CONSTANT MarksPerRow   \* MARKS_PER_ROW

BLANK == "sp"
CONTINUATION == "cont"
Glyph == {"x"}                 \* what DecoCell::classify draws a shape for

Cell(ch, style) == [ch |-> ch, style |-> style]
BlankCell(style) == Cell(BLANK, style)

Width(row) == Cardinality(DOMAIN row.cells)
NewRow(cols) ==
  [cells |-> [c \in 0..(cols - 1) |-> BlankCell(0)], extras |-> <<>>, wrapped |-> FALSE]

-----------------------------------------------------------------------------
(* The side table *)

\* Extra::is_content: an attachment that makes a blank cell content.
IsContent(x) == x.kind \in {"marks", "image"}

\* Broken: a new attachment goes to the end of the table.
AttachLast(row, col, kind, id) ==
  [row EXCEPT !.extras = Append(@, [col |-> col, kind |-> kind, id |-> id])]

\* Extras::insert: after every entry on a column up to this one.
Attach(row, col, kind, id) ==
  [row EXCEPT !.extras = InsertAt(@, Cardinality({i \in DOMAIN @ : @[i].col <= col}) + 1,
                                  [col |-> col, kind |-> kind, id |-> id])]

\* Row::retire, and Extras::prune with Marks::Keep: what was drawn goes, a mark stays.
Retire(row, cols) ==
  [row EXCEPT !.extras = SelectSeq(@, LAMBDA x : x.col \notin cols \/ x.kind = "mark")]

\* Extras::prune_kind
PruneKind(row, col, kind) ==
  [row EXCEPT !.extras = SelectSeq(@, LAMBDA x : x.col # col \/ x.kind # kind)]

\* Extras::shift: the entries from `from` on move, and those that leave the row go.
Shift(row, from, by) ==
  LET Moved(x) == IF x.col < from THEN x ELSE [x EXCEPT !.col = @ + by]
      kept == SelectSeq(row.extras, LAMBDA x : x.col < from \/ x.col + by \in DOMAIN row.cells)
  IN  [row EXCEPT !.extras = [i \in DOMAIN kept |-> Moved(kept[i])]]

\* Row::set_underline and Row::set_link; 0 is no colour and no link.
SetKind(row, col, kind, id) ==
  LET bare == PruneKind(row, col, kind)
  IN  IF id = 0 \/ col \notin DOMAIN row.cells THEN bare ELSE Attach(bare, col, kind, id)

MarkEntries(row) == {i \in DOMAIN row.extras : row.extras[i].kind = "mark"}

\* Row::mark and evict_oldest_mark: past the bound the smallest id makes room, written
\* over in place when it is on this very column.
Mark(row, col, id) ==
  LET marks == MarkEntries(row)
      oldest == CHOOSE i \in marks : \A j \in marks : row.extras[i].id <= row.extras[j].id
  IN  CASE col \notin DOMAIN row.cells -> row
        [] col \in DOMAIN row.cells /\ Cardinality(marks) < MarksPerRow ->
             Attach(row, col, "mark", id)
        [] col \in DOMAIN row.cells /\ Cardinality(marks) >= MarksPerRow ->
             IF row.extras[oldest].col = col THEN [row EXCEPT !.extras[oldest].id = id]
             ELSE Attach([row EXCEPT !.extras = RemoveAt(@, oldest)], col, "mark", id)

-----------------------------------------------------------------------------
(* Cells *)

\* Row::set, Row::fill_run and Row::fill write these cells over the old ones.
Overwrite(row, new) ==
  Retire([row EXCEPT !.cells = [c \in DOMAIN @ |-> IF c \in DOMAIN new THEN new[c] ELSE @[c]]],
         DOMAIN new)

\* Broken: the answer a row with attachments owes is forgotten.
DiffersInCells(row, new) == \E c \in DOMAIN new \cap DOMAIN row.cells : row.cells[c] # new[c]

\* What the three of them answer: whether the row differs now.
Differs(row, new) ==
  LET written == DOMAIN new \cap DOMAIN row.cells
  IN  written # {} /\ (row.extras # <<>> \/ \E c \in written : row.cells[c] # new[c])

Blanks(cols, style) == [c \in cols |-> BlankCell(style)]

\* Row::place
PlaceImage(row, col, id, style) ==
  IF col \notin DOMAIN row.cells THEN row
  ELSE Attach(Overwrite(row, Blanks({col}, style)), col, "image", id)

\* Row::combine: the first marks on the column grow, or the column gets its first.
Combine(row, col, mark) ==
  LET there == {i \in DOMAIN row.extras : row.extras[i].col = col /\ row.extras[i].kind = "marks"}
  IN  IF there = {} THEN Attach(row, col, "marks", <<mark>>)
      ELSE [row EXCEPT !.extras[Min(there)].id = Append(@, mark)]

\* Row::clear, the row ceasing to be what it was, and Row::erase_all, which keeps marks.
ClearRow(row, style) ==
  [cells |-> Blanks(DOMAIN row.cells, style), extras |-> <<>>, wrapped |-> FALSE]
EraseAll(row, style) ==
  [Overwrite(row, Blanks(DOMAIN row.cells, style)) EXCEPT !.wrapped = FALSE]
EraseAllDiffers(row, style) ==
  row.wrapped \/ Differs(row, Blanks(DOMAIN row.cells, style))

\* Row::insert_blank
InsertBlank(row, col, count, style) ==
  LET n == Min({count, Width(row) - col})
      Moved(c) == CASE c < col -> row.cells[c]
                    [] c \in col..(col + n - 1) -> BlankCell(style)
                    [] c >= col + n -> row.cells[c - n]
  IN  IF col \notin DOMAIN row.cells THEN row
      ELSE Shift([row EXCEPT !.cells = [c \in DOMAIN @ |-> Moved(c)]], col, n)

\* Row::delete: marks on the deleted columns stay where they are.
Delete(row, col, count, style) ==
  LET gone == Min({count, Width(row) - col})
      Moved(c) == CASE c < col -> row.cells[c]
                    [] c >= col /\ c + gone \in DOMAIN row.cells -> row.cells[c + gone]
                    [] c >= col /\ c + gone \notin DOMAIN row.cells -> BlankCell(style)
  IN  IF col \notin DOMAIN row.cells THEN row
      ELSE Shift(Retire([row EXCEPT !.cells = [c \in DOMAIN @ |-> Moved(c)]],
                        col..(col + gone - 1)),
                 col + gone, -gone)

\* Row::content_len
ContentLen(row) ==
  Max({0} \cup {c + 1 : c \in {d \in DOMAIN row.cells : row.cells[d] # BlankCell(0)}}
          \cup {row.extras[i].col + 1 : i \in {j \in DOMAIN row.extras : IsContent(row.extras[j])}})

=============================================================================
