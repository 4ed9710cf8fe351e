------------------------------ MODULE Printing ------------------------------
(***************************************************************************)
(* Printing on a screen of one row: the segmenter that decides which code  *)
(* points share a cell (src/emu/text.rs), the screen's writers             *)
(* (src/emu/screen.rs) and the two ways a run of text reaches them         *)
(* (src/emu/term/perform.rs), as operators on one terminal record.         *)
(*                                                                         *)
(* `drawn` is a ghost: the column, the text and the attachments of the     *)
(* last cell printed, for as long as the cursor has not been moved away    *)
(* and its cluster is not past the bound.                                  *)
(***************************************************************************)
EXTENDS Runs

CONSTANT MaxCluster   \* MAX_CLUSTER, in code points

Ascii == {"a", "b", BLANK}
Nothing == [col |-> -1]

NewTerminal(cols, autowrap) ==
  [row |-> NewRow(cols), col |-> 0, pending |-> FALSE, autowrap |-> autowrap,
   insert |-> FALSE, dirty |-> TRUE, pen |-> 0, underline |-> 0, link |-> 0,
   graphics |-> FALSE, cluster |-> <<>>, cells |-> 0, declared |-> FALSE,
   lastPrint |-> "none", drawn |-> Nothing]

Cols(t) == Width(t.row)

-----------------------------------------------------------------------------
(* The segmenter *)

\* unicode-width, with the one override of char_cells: a regional indicator takes two.
CharCells(c) ==
  CASE c \in {"m", "z", "v", "n"} -> 0
    [] c \in {"w", "E", "r"} -> 2
    [] OTHER -> 1

\* unicode-width over a whole cluster: a selector resizes the emoji it follows.
ClusterCells(cluster) ==
  CASE Len(cluster) > 1 /\ cluster[1] = "e" /\ cluster[2] = "v" -> 2
    [] Len(cluster) > 1 /\ cluster[1] = "E" /\ cluster[2] = "n" -> 1
    [] OTHER -> CharCells(cluster[1])

Pictographic == {"e", "E"}
Trailing(s, c) == Cardinality({i \in DOMAIN s : \A j \in i..Len(s) : s[j] = c})

\* UAX #29: what a code point may follow on one cell.
Boundary(cluster, c) ==
  CASE c \in {"m", "z", "v", "n"} -> FALSE
    [] c = "r" -> Trailing(cluster, "r") % 2 = 0
    [] c \in Pictographic ->
         ~(Len(cluster) > 1 /\ Last(cluster) = "z" /\ cluster[1] \in Pictographic)
    [] OTHER -> TRUE

Seed(t, cluster, cells, declared) ==
  [t EXCEPT !.cluster = cluster, !.cells = cells, !.declared = declared]
Reset(t) == Seed(t, <<>>, 0, FALSE)

\* Segmenter::push: whether the code point starts a cell, and the segmenter after it.
Push(t, c) ==
  LET cells == CharCells(c)
      grown == Append(t.cluster, c)
      breaks == Boundary(t.cluster, c)
      Starts == [opens |-> cells > 0, before |-> 0, after |-> cells,
                 t |-> Seed(t, <<c>>, cells, FALSE)]
      after == IF breaks \/ t.declared THEN t.cells ELSE ClusterCells(grown)
  IN  IF c \in Ascii \/ t.cluster = <<>> \/ Len(t.cluster) >= MaxCluster \/ (breaks /\ cells > 0)
      THEN Starts
      ELSE [opens |-> FALSE, before |-> t.cells, after |-> after,
            t |-> Seed(t, grown, after, t.declared)]

-----------------------------------------------------------------------------
(* The screen *)

Touch(t, row) == [t EXCEPT !.row = row, !.dirty = TRUE]
Edit(t, row, changed) == [t EXCEPT !.row = row, !.dirty = @ \/ changed]

\* Screen::settle_cursor
Settle(t, end) ==
  IF end >= Cols(t) THEN [t EXCEPT !.col = Cols(t) - 1, !.pending = t.autowrap]
  ELSE [t EXCEPT !.col = end, !.pending = FALSE]

\* The only row scrolls off: Screen::linefeed and scroll_up.
LineFeed(t) == [Touch(t, ClearRow(t.row, t.pen)) EXCEPT !.pending = FALSE]

\* The column of the cell that ends at the cursor, WIDTH columns back.
Lead(t, width) == Max({0, (IF t.pending THEN Cols(t) ELSE t.col) - width})

\* Where Screen::place puts a character: past the margin it wraps, or backs up.
Margin(t, width) ==
  CASE ~t.pending /\ t.col + width <= Cols(t) -> t
    [] (t.pending \/ t.col + width > Cols(t)) /\ t.autowrap -> [LineFeed(t) EXCEPT !.col = 0]
    [] (t.pending \/ t.col + width > Cols(t)) /\ ~t.autowrap ->
         [t EXCEPT !.col = Max({0, Cols(t) - width})]

Block(ch, col, width, style) ==
  [c \in col..(col + width - 1) |-> Cell(IF c = col THEN ch ELSE CONTINUATION, style)]

Place(t, ch, width) ==
  LET at == Margin(t, width)
      row == IF at.insert THEN InsertBlank(at.row, at.col, width, t.pen) ELSE at.row
      new == Block(ch, at.col, width, t.pen)
      put == Edit(at, Overwrite(row, new), at.insert \/ Differs(row, new))
  IN  Settle([put EXCEPT !.drawn = [col |-> at.col, text |-> <<ch>>, cells |-> width,
                                    underline |-> 0, link |-> 0]],
             at.col + width)

\* What a mark adds to the cell printed last.
Ridden(t, mark, cells) ==
  IF t.drawn = Nothing THEN t
  ELSE [t EXCEPT !.drawn.text = Append(@, mark), !.drawn.cells = IF cells = 0 THEN @ ELSE cells]

\* Screen::join, and the segmenter told the width the cell ended up at.
Join(t, mark, before, after) ==
  LET lead == Lead(t, Max({before, 1}))
      marked == Touch(t, Combine(t.row, lead, mark))
      resized == (lead + Min({before, after}))..(lead + Max({before, after}) - 1)
      half == Cell(IF after > before THEN CONTINUATION ELSE BLANK, t.row.cells[lead].style)
      new == [c \in resized |-> half]
  IN  IF after = before \/ before = 0 \/ (after > before /\ lead + after > Cols(t))
      THEN Ridden([marked EXCEPT !.cells = before], mark, before)
      ELSE Ridden(Settle([Edit(marked, Overwrite(marked.row, new), TRUE) EXCEPT !.cells = after],
                         lead + after),
                  mark, after)

\* Screen::mark_underline and mark_link for a character just written.
AttachPen(t, width) ==
  LET Put(u, kind, id) ==
        IF id = 0 THEN u ELSE Touch(u, SetKind(u.row, Lead(u, width), kind, id))
      both == Put(Put(t, "underline", t.underline), "link", t.link)
  IN  [both EXCEPT !.drawn.underline = t.underline, !.drawn.link = t.link]

-----------------------------------------------------------------------------
(* Perform *)

\* dec_graphic: a line-drawing set turns a letter into a box glyph.
Charset(t, c) == IF t.graphics /\ c = "b" THEN "x" ELSE c

\* State::print
PrintChar(t, raw) ==
  LET c == Charset(t, raw)
      step == Push(t, c)
  IN  IF step.opens
      THEN [AttachPen(Place(step.t, c, step.after), step.after) EXCEPT !.lastPrint = c]
      ELSE Join(IF Len(t.cluster) >= MaxCluster THEN [step.t EXCEPT !.drawn = Nothing] ELSE step.t,
                c, step.before, step.after)

PrintEach(t, text) == FoldLeft(PrintChar, t, text)

Plain(text) == Min({i \in DOMAIN text : text[i] \notin Ascii} \cup {Len(text) + 1}) - 1

\* Screen::write_run: as much of a plain run as stops short of the last column.
Room(t, text) ==
  IF t.insert \/ t.pending THEN 0 ELSE Min({Plain(text), Max({0, Cols(t) - (t.col + 1)})})

\* Broken: the segmenter is not told of the run that bypassed it.
WriteRunUnseen(t, text, n) ==
  LET new == [c \in t.col..(t.col + n - 1) |-> Cell(text[c - t.col + 1], t.pen)]
      put == Edit(t, IF Differs(t.row, new) THEN Overwrite(t.row, new) ELSE t.row,
                  Differs(t.row, new))
  IN  [put EXCEPT !.col = @ + n, !.lastPrint = text[n],
                  !.drawn = [col |-> t.col + n - 1, text |-> <<text[n]>>, cells |-> 1,
                             underline |-> 0, link |-> 0]]

WriteRun(t, text, n) ==
  LET new == [c \in t.col..(t.col + n - 1) |-> Cell(text[c - t.col + 1], t.pen)]
      put == Edit(t, IF Differs(t.row, new) THEN Overwrite(t.row, new) ELSE t.row,
                  Differs(t.row, new))
  IN  Seed([put EXCEPT !.col = @ + n, !.lastPrint = text[n],
                       !.drawn = [col |-> t.col + n - 1, text |-> <<text[n]>>, cells |-> 1,
                                  underline |-> 0, link |-> 0]],
           <<text[n]>>, 1, FALSE)

\* State::print_str: runs where nothing rides the cells, one character where it may.
PrintStr(t, text) ==
  LET batched == ~t.graphics /\ t.underline = 0 /\ t.link = 0
      Step(walk, i) ==
        LET rest == SubSeq(text, i, Len(text))
            n == IF batched THEN Room(walk.t, rest) ELSE 0
        IN  CASE i < walk.next -> walk
              [] i >= walk.next /\ n = 0 -> [t |-> PrintChar(walk.t, text[i]), next |-> i + 1]
              [] i >= walk.next /\ n > 0 -> [t |-> WriteRun(walk.t, rest, n), next |-> i + n]
  IN  FoldLeft(Step, [t |-> t, next |-> 1], [i \in DOMAIN text |-> i]).t

\* REP, by Screen::write: no segmenter, no attachments.
Repeat(t, n) ==
  LET u == Reset(t)
      Again(v, i) == IF CharCells(v.lastPrint) = 0 THEN Join(v, v.lastPrint, 0, 0)
                     ELSE Place(v, v.lastPrint, CharCells(v.lastPrint))
  IN  IF t.lastPrint = "none" THEN u
      ELSE [FoldLeft(Again, u, [i \in 1..Min({n, Cols(t)}) |-> i]) EXCEPT !.drawn = Nothing]

\* Screen::write_cluster
WriteCluster(t, text, width) ==
  LET base == IF width = 0 THEN Join(t, Head(text), 0, 0) ELSE Place(t, Head(text), width)
  IN  FoldLeft(LAMBDA u, c : Join(u, c, width, width), base, Tail(text))

\* State::text_size with a declared width: one block, seeded as declared.
TextSize(t, text, width) ==
  LET u == AttachPen(WriteCluster(Reset(t), text, width), width)
  IN  IF width > Cols(t) THEN Reset(t) ELSE Seed(u, text, width, TRUE)

=============================================================================
