-------------------------------- MODULE Runs ---------------------------------
(***************************************************************************)
(* How a row is handed to Emacs: as runs of equal style, decoration,       *)
(* underline colour and link (src/emu/cell.rs Row::runs).  PlainRuns and   *)
(* BuiltRuns are the two paths the code takes, RunsReference the per-cell  *)
(* statement its own test holds them against.                              *)
(***************************************************************************)
EXTENDS Row

\* What the column shows beside its character; later entries on a column win.
LastOf(entries, kind, none) ==
  FoldLeft(LAMBDA id, x : IF x.kind = kind THEN x.id ELSE id, none, entries)
Attached(entries, kind) == LastOf(entries, kind, 0)

\* DecoCell: a placement before the character's own shape.
DecoOf(ch, image) ==
  CASE image # 0 -> "image"
    [] image = 0 /\ ch \in Glyph -> "glyph"
    [] image = 0 /\ ch \notin Glyph -> "none"

\* Deco keeps one entry per character: the picture's cell, or the glyph's shape.
Shape(ch, image) ==
  CASE image # 0 -> <<image>> [] image = 0 /\ ch \in Glyph -> <<ch>> [] OTHER -> <<>>

NewRun(cell, entries) ==
  LET image == Attached(entries, "image")
  IN  [text |-> <<cell.ch>>, cols |-> 1, style |-> cell.style,
       kind |-> DecoOf(cell.ch, image), deco |-> Shape(cell.ch, image),
       underline |-> Attached(entries, "underline"), link |-> Attached(entries, "link")]

Joins(run, next) ==
  /\ run.style = next.style /\ run.kind = next.kind
  /\ run.underline = next.underline /\ run.link = next.link

Onto(run, next) ==
  [run EXCEPT !.text = @ \o next.text, !.cols = @ + next.cols, !.deco = @ \o next.deco]

\* Add one run to those so far, joined to the last one where it may be.
Extend(runs, next) ==
  IF runs # <<>> /\ Joins(Last(runs), next) THEN Front(runs) \o <<Onto(Last(runs), next)>>
  ELSE Append(runs, next)

\* A continuation cell is a column of the run before it.
Widen(runs) == IF runs = <<>> THEN runs ELSE [runs EXCEPT ![Len(runs)].cols = @ + 1]

WithMarks(runs, entries) ==
  LET marks == LastOf(entries, "marks", <<>>)
  IN  IF marks = <<>> THEN runs ELSE [runs EXCEPT ![Len(runs)].text = @ \o marks]

AddCell(runs, cell, entries) ==
  IF cell.ch = CONTINUATION THEN Widen(runs)
  ELSE WithMarks(Extend(runs, NewRun(cell, entries)), entries)

Columns(end) == [i \in 1..end |-> i - 1]

\* Row::runs_to_reference: every column looks its attachments up in the whole table.
RunsReference(row, end) ==
  FoldLeft(LAMBDA runs, c :
             AddCell(runs, row.cells[c], SelectSeq(row.extras, LAMBDA x : x.col = c)),
           <<>>, Columns(end))

\* Row::build_runs walks the table with a cursor: past the entries of earlier columns,
\* then as far as they are on this one.
BuiltRuns(row, end) ==
  LET Entry(i) == row.extras[i]
      Skip(at, c) == Min({i \in at..Len(row.extras) : Entry(i).col >= c} \cup {Len(row.extras) + 1})
      Here(at, c) ==
        LET stop == Min({i \in at..Len(row.extras) : Entry(i).col # c} \cup {Len(row.extras) + 1})
        IN  SubSeq(row.extras, at, stop - 1)
      Step(walk, c) ==
        LET at == IF row.cells[c].ch = CONTINUATION THEN walk.at ELSE Skip(walk.at, c)
        IN  [at |-> at, runs |-> AddCell(walk.runs, row.cells[c], Here(at, c))]
  IN  FoldLeft(Step, [at |-> 1, runs |-> <<>>], Columns(end)).runs

Bare(cell) == NewRun(cell, <<>>)

\* Broken: a scan of plain text takes the shapes on its way in as well.
GoesOnThroughGlyphs(cell, next) == next.ch = CONTINUATION \/ next.style = cell.style

\* Whether a scan that began at `cell` takes `next` in as well.
GoesOn(cell, next) ==
  next.ch = CONTINUATION \/ (next.style = cell.style /\ next.ch \notin Glyph)

\* Row::build_plain_runs, for a row with nothing attached: a shape is taken by itself,
\* plain text as far as it goes on.
PlainRuns(row, end) ==
  LET Stop(c) == IF row.cells[c].ch \in Glyph THEN c + 1
                 ELSE Min({d \in (c + 1)..(end - 1) : ~GoesOn(row.cells[c], row.cells[d])} \cup {end})
      Text(c) == SelectSeq([i \in 1..(Stop(c) - c) |-> row.cells[c + i - 1].ch],
                           LAMBDA ch : ch # CONTINUATION)
      Span(c) == [Bare(row.cells[c]) EXCEPT !.text = Text(c), !.cols = Stop(c) - c]
      Take(scan, c) ==   \* the columns a span took are passed over
        CASE c < scan.col -> scan
          [] c >= scan.col /\ row.cells[c].ch = CONTINUATION ->
               [col |-> c + 1, runs |-> Widen(scan.runs)]
          [] c >= scan.col /\ row.cells[c].ch # CONTINUATION ->
               [col |-> Stop(c), runs |-> Extend(scan.runs, Span(c))]
  IN  FoldLeft(Take, [col |-> 0, runs |-> <<>>], Columns(end)).runs

\* Row::runs_to, and Row::runs by Row::content_len.
RunsTo(row, end) == IF row.extras = <<>> THEN PlainRuns(row, end) ELSE BuiltRuns(row, end)
Runs(row) == RunsTo(row, ContentLen(row))

=============================================================================
