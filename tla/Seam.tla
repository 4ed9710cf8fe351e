-------------------------------- MODULE Seam --------------------------------
(***************************************************************************)
(* The seam between the emulator's grid and the Emacs buffer: rows that    *)
(* leave the primary screen (src/emu/term/state.rs) become buffer text     *)
(* (lisp/cooked.el, cooked-render.el, cooked-scrollback.el), and the two   *)
(* ends each keep half of the account of the line that straddles it.       *)
(*                                                                         *)
(* The child's output is fed by the reader thread under the terminal's     *)
(* lock; Emacs takes a delta under the same lock and applies it later, so  *)
(* output can be fed between the two.  The alternate grid is a scratch     *)
(* frame that never reaches the transcript: only the switch is kept.       *)
(***************************************************************************)
EXTENDS Screen, FiniteSets

CONSTANTS
  Sessions,  \* the sessions there may be, each [ops, sizes, cap, joins, text, rows]
  MaxText    \* bound: characters the child of any session prints

\* lib.rs clamps a window to one row and one column; cap is cooked-scrollback-lines, 0 for nil.
ASSUME SessionsAssumption ==
  \A s \in Sessions : /\ s.sizes \subseteq (Nat \ {0}) \X (Nat \ {0})
                      /\ s.cap \in Nat
                      /\ s.joins \subseteq BOOLEAN
                      /\ s.text \in 0..MaxText
ASSUME MaxTextAssumption == MaxText \in Nat

VARIABLES
  session,   \* what its child and its user ever do, its window, settings and bounds
  screen,    \* Term.state.primary
  alt,       \* State.on_alt
  pending,   \* State.pending_scrollback
  erase,     \* an EraseScrollback is among State.events
  prompt,    \* the screen row of State.prompt_start, 0 when unset or scrolled off
  delta,     \* the drain Emacs is applying, <<>> between drains
  lines,     \* the buffer down to cooked--screen-start, the last line the one it is on
  head,      \* cooked-grid-head of cooked--grid
  rejoin,    \* cooked-rejoin-wrapped-lines
  narrowed,  \* cooked--narrowed
  seenRow,   \* cooked-cursor-row of cooked--cursor
  checked,   \* history: the two numbers cooked--check-seam last compared
  typed,     \* history: how many characters the child has printed
  promptText \* history: the first character of the current prompt, 0 for none

termVars == <<screen, alt, pending, erase, prompt>>
lispVars == <<delta, lines, head, rejoin, narrowed, seenRow, checked>>
vars == <<session, termVars, lispVars, typed, promptText>>

Sizes == session.sizes   \* the <<rows, cols>> its window may have
Cap == session.cap       \* cooked-scrollback-lines, 0 for nil

-----------------------------------------------------------------------------
(* Rows leaving the grid *)

\* State::archive: rows join the backlog and the prompt's anchor stays with its row.
Show(result) ==
  /\ screen' = result.s
  /\ pending' = pending \o result.out
  /\ prompt' = Greatest(prompt - Len(result.out), 0)

InFlight == IF delta = <<>> THEN <<>> ELSE delta.scrolled

\* Bound: the lines and rows Emacs has or will have, and the rows of any one line.
Room == Len(lines) + Len(InFlight) + Len(pending) < session.rows /\ screen.carried <= session.rows

-----------------------------------------------------------------------------
(* The child, through the reader: Term::feed *)

\* One operation on the primary screen.
Feed(op, result) ==
  /\ op \in session.ops /\ ~alt /\ Room
  /\ Show(result)
  /\ UNCHANGED <<alt, erase, lispVars, session, promptText>>

PrintChar ==
  /\ typed < session.text
  /\ \E ch \in {typed + 1} \cup (IF "space" \in session.ops THEN {Blank} ELSE {}) :
       Feed("print", Place(screen, ch))
  /\ typed' = typed + 1

\* CR LF, as the tty writes a newline.
Newline == Feed("newline", LineFeed(Goto(screen, screen.row, 0))) /\ UNCHANGED typed

Index == Feed("index", LineFeed(screen)) /\ UNCHANGED typed

ReverseIndexed == Feed("reverse", Quiet(ReverseIndex(screen))) /\ UNCHANGED typed

Scroll ==
  /\ \/ \E n \in 1..2 : Feed("scroll", ScrollUp(screen, n))
     \/ Feed("scroll", Quiet(ScrollDown(screen, 1)))
  /\ UNCHANGED typed

Move ==
  /\ \E r \in 1..Height(screen), c \in 0 .. screen.cols - 1 :
       Feed("move", Quiet(Goto(screen, r, c)))
  /\ UNCHANGED typed

Margins ==
  /\ \E t, b \in 1..Height(screen) : Feed("margins", Quiet(SetRegion(screen, t, b)))
  /\ UNCHANGED typed

\* DECAWM sets both grids, whichever is up.
Autowrap ==
  /\ "autowrap" \in session.ops
  /\ \E on \in BOOLEAN : screen' = SetAutowrap(screen, on)
  /\ UNCHANGED <<session, alt, pending, erase, prompt, lispVars, typed, promptText>>

EraseInLine ==
  /\ \E how \in {"end", "start", "all"} : Feed("eraseline", Quiet(EraseLine(screen, how)))
  /\ UNCHANGED typed

ErasePart ==
  /\ \E how \in {"end", "start"} : Feed("erasepart", EraseDisplay(screen, how))
  /\ UNCHANGED typed

Clear == Feed("clear", EraseDisplay(screen, "all")) /\ UNCHANGED typed

EditLines ==
  /\ \/ Feed("editlines", Quiet(InsertLines(screen, 1)))
     \/ Feed("editlines", Quiet(DeleteLines(screen, 1)))
  /\ UNCHANGED typed

EditChars ==
  /\ \/ Feed("editchars", Quiet(InsertChar(screen)))
     \/ Feed("editchars", Quiet(DeleteChar(screen)))
     \/ Feed("editchars", Quiet(EraseChar(screen)))
  /\ UNCHANGED typed

\* OSC 133 ; A at the start of a line, and the first character of the prompt it opens.
OpenPrompt ==
  /\ "prompt" \in session.ops /\ ~alt /\ typed < session.text
  /\ \A r \in 1..Height(screen) : r + 1 = screen.row => ~screen.rows[r].wrapped
  /\ screen' = Place(Goto(screen, screen.row, 0), typed + 1).s
  /\ prompt' = screen.row
  /\ typed' = typed + 1 /\ promptText' = typed + 1
  /\ UNCHANGED <<session, alt, pending, erase, lispVars>>

\* CSI 3 J is answered by an event alone.
EraseSaved ==
  /\ "erasesaved" \in session.ops
  /\ erase' = TRUE
  /\ UNCHANGED <<screen, alt, pending, prompt, lispVars, typed, session, promptText>>

\* State::set_alt.
SwitchScreen ==
  /\ "alt" \in session.ops
  /\ alt' = ~alt
  /\ UNCHANGED <<screen, pending, erase, prompt, lispVars, typed, session, promptText>>

-----------------------------------------------------------------------------
(* Emacs *)

Idle == delta = <<>>

\* State::resize: rows off the primary are history whichever screen is up.
Resize ==
  /\ "resize" \in session.ops /\ Idle /\ Room
  /\ \E size \in Sizes :
       /\ size # <<Height(screen), screen.cols>>
       /\ Show(ResizeScreen(screen, size[1], size[2]))
  /\ UNCHANGED <<alt, erase, lispVars, typed, session, promptText>>

\* State::drain and lib.rs scrolled_rows: a wrapped row keeps its line open, unless it
\* is the last of a batch drained while the alternate screen is up.
Drained(s, rows, event) ==
  [scrolled |-> [i \in DOMAIN rows |->
                   [text |-> rows[i].text,
                    newline |-> ~(rejoin /\ rows[i].wrapped /\ ~(i = Len(rows) /\ alt))]],
   head |-> IF alt THEN 0 ELSE HeadOf(s),
   row |-> s.row, alt |-> alt, erase |-> event]

Drain ==
  /\ Idle
  /\ delta' = Drained(screen, pending, erase)
  /\ pending' = <<>> /\ erase' = FALSE
  /\ UNCHANGED <<screen, alt, prompt, lines, head, rejoin, narrowed, seenRow, checked,
                 typed, session, promptText>>

\* cooked--trim-scrollback; the slack, a tenth of the cap, is rounded down here.
Threshold == Cap + Greatest(1, Cap \div 10)
Overgrown(buffer) == Cap > 0 /\ Len(buffer) > Threshold
Trimmed(buffer) == SubSeq(buffer, Len(buffer) - Cap, Len(buffer))

\* cooked--apply.  A narrowed buffer begins where the screen did before the render,
\* so that is as far back as the line at the seam can be measured.
Apply ==
  /\ ~Idle
  /\ LET rendered == IF delta.erase THEN Emptied ELSE AppendTo(lines, delta.scrolled)
         visible == IF ~narrowed THEN rendered
                    ELSE IF delta.erase THEN Emptied ELSE AppendTo(Emptied, delta.scrolled)
         column == Len(visible[Len(visible)])
         told == IF delta.erase THEN 0 ELSE delta.head
         split == ~rejoin /\ told # 0 /\ column = 0
         trim == Overgrown(rendered)
     IN  /\ lines' = IF trim THEN Trimmed(rendered) ELSE rendered
         /\ checked' = [buffer |-> column, told |-> IF split THEN 0 ELSE told]
         /\ head' = IF split \/ trim THEN 0 ELSE told
         /\ screen' = [screen EXCEPT !.carried = IF delta.erase \/ split \/ trim THEN 0 ELSE @]
         /\ narrowed' = delta.alt
         /\ seenRow' = delta.row
  /\ delta' = <<>>
  /\ UNCHANGED <<alt, pending, erase, prompt, rejoin, typed, session, promptText>>

ToggleRejoin ==
  /\ "toggle" \in session.ops /\ Idle
  /\ rejoin' = ~rejoin
  /\ UNCHANGED <<termVars, delta, lines, head, narrowed, seenRow, checked, typed, session, promptText>>

\* State::remove_rows: the anchor comes up with the rows below the cut.
Rebased(first, n) ==
  IF prompt >= first + n THEN prompt - n ELSE Least(prompt, first)

\* State::clear_to_prompt: how many rows stand above the prompt.
AbovePrompt ==
  IF alt THEN 0
  ELSE IF prompt \in 1..screen.row THEN prompt - 1 ELSE screen.row - 1

\* cooked-clear-scrollback, down to the drain it ends with.
ClearScrollback ==
  /\ "clearscrollback" \in session.ops /\ Idle
  /\ LET kept == [RemoveRows(screen, 1, AbovePrompt) EXCEPT !.carried = 0]
     IN  /\ screen' = kept
         /\ delta' = Drained(kept, pending, erase)
  /\ prompt' = IF AbovePrompt = 0 THEN prompt ELSE Rebased(1, AbovePrompt)
  /\ lines' = Emptied /\ head' = 0
  /\ pending' = <<>> /\ erase' = FALSE
  /\ UNCHANGED <<alt, rejoin, narrowed, seenRow, checked, typed, session, promptText>>

\* cooked-delete-output: buffer text down to `left`, then `n` screen rows.  Emacs tells
\* the emulator of a cut that reached the seam, and only of that one.
DeleteRegion(left, atSeam, first, n) ==
  LET taken == n > 0 /\ ~alt
      cut == IF taken THEN RemoveRows(screen, first, n) ELSE screen
      kept == [cut EXCEPT !.carried = IF atSeam THEN 0 ELSE @]
  IN  /\ lines' = left
      /\ head' = IF atSeam THEN 0 ELSE head
      /\ screen' = kept
      /\ prompt' = IF taken THEN Rebased(first, n) ELSE prompt
      /\ delta' = Drained(kept, pending, erase)

\* Output of whole lines: in the scrollback, across the seam, or on the screen alone.
DeleteOutput ==
  /\ "deleteoutput" \in session.ops /\ Idle /\ ~narrowed
  /\ \/ \E from, to \in 1 .. Len(lines) - 1 :
          /\ from <= to
          /\ DeleteRegion(SubSeq(lines, 1, from - 1) \o SubSeq(lines, to + 1, Len(lines)),
                          to = Len(lines) - 1 /\ Last(lines) = <<>>, 1, 0)
     \/ \E from \in 1..Len(lines), last \in 1 .. seenRow - 1 :
          DeleteRegion(Append(SubSeq(lines, 1, from - 1), <<>>),
                       from < Len(lines) \/ Last(lines) # <<>>, 1, last)
     \/ \E first, last \in 2 .. seenRow - 1 :
          /\ first <= last
          /\ DeleteRegion(lines, FALSE, first, last + 1 - first)
  /\ pending' = <<>> /\ erase' = FALSE
  /\ UNCHANGED <<alt, rejoin, narrowed, seenRow, checked, typed, session, promptText>>

-----------------------------------------------------------------------------
Init ==
  /\ session \in Sessions
  /\ \E size \in Sizes : screen = NewScreen(size[1], size[2])
  /\ alt = FALSE /\ pending = <<>> /\ erase = FALSE /\ prompt = 0
  /\ delta = <<>> /\ lines = Emptied /\ head = 0
  /\ rejoin \in session.joins
  /\ narrowed = FALSE /\ seenRow = 1
  /\ checked = [buffer |-> 0, told |-> 0]
  /\ typed = 0 /\ promptText = 0

Child ==
  \/ PrintChar \/ Newline \/ Index \/ ReverseIndexed \/ Scroll \/ Move \/ Margins \/ Autowrap
  \/ EraseInLine \/ ErasePart \/ Clear \/ EditLines \/ EditChars
  \/ OpenPrompt \/ EraseSaved \/ SwitchScreen

Emacs == Resize \/ Drain \/ Apply \/ ToggleRejoin \/ ClearScrollback \/ DeleteOutput

Next == Child \/ Emacs

Spec == Init /\ [][Next]_vars

-----------------------------------------------------------------------------
(* Properties *)

\* All the text there is, from the top of the buffer to the last row of the screen.
Cells == FlattenSeq(lines)
         \o FlattenSeq([i \in DOMAIN InFlight |-> InFlight[i].text])
         \o FlattenSeq([i \in DOMAIN pending |-> pending[i].text])
         \o FlattenSeq([r \in 1..Height(screen) |-> screen.rows[r].cells])

Bare(cells) ==
  LET upto[n \in 0..Len(cells)] ==
        IF n = 0 THEN <<>>
        ELSE IF cells[n] = Blank THEN upto[n - 1] ELSE Append(upto[n - 1], cells[n])
  IN  upto[Len(cells)]

\* No character is ever in two places: whatever scrolls, is erased, resized, removed
\* or drained, a row is on the screen, on its way, or in the buffer, never in two of
\* them (Screen::resize: "the transcript gains a duplicate of whatever was on screen").
NoDuplicate ==
  Cardinality(ToSet(Bare(Cells))) = Len(Bare(Cells))

OnlyPrints == session.ops \subseteq {"print", "space", "newline", "resize"}

\* cooked--check-seam's assertion: the line at the seam holds exactly as many
\* characters as the emulator says Emacs has of it.
CheckSeam == checked.buffer = checked.told

\* The same of a child that only prints, in a buffer that is never trimmed.
Printing == OnlyPrints /\ Cap = 0
PrintedSeam == Printing => CheckSeam

\* Above the cursor, the last row of a line that has wrapped is not all blanks: blanks at
\* the end of a line are not kept (Row::content_len), and then neither is the row.
TailsDrawn(s) ==
  \A r \in 2 .. s.row - 1 : s.rows[r - 1].wrapped /\ ~s.rows[r].wrapped => HasText(s.rows[r])

\* A change of width that sends nothing to Emacs is undone, rows and cursor, by changing back.
Undone(s) ==
  \A size \in Sizes :
    \A there \in {ResizeScreen(s, Height(s), size[2])} :
      there.out = <<>> => ResizeScreen(there.s, Height(s), s.cols) = Quiet(s)

\* Screen::reflow's round trip, of a child that only prints.
RoundTrip == OnlyPrints /\ FullRegion(screen) /\ TailsDrawn(screen) => Undone(screen)

\* The same as reflow's comment has it, of any line ("narrowing and widening back returns
\* the original layout, because the wrap provenance is preserved").
LayoutReturns == OnlyPrints /\ FullRegion(screen) => Undone(screen)

\* A resize of an unpartitioned screen loses no text and keeps its order, wherever the
\* cursor was left and whatever was drawn below it (Screen::reflow: "truncating it to a
\* narrower width destroys text outright").
ResizeKeepsText == [][Resize /\ FullRegion(screen) => Bare(Cells') = Bare(Cells)]_vars

\* The lines the user has been, or will be, given, without their blanks: the buffer, the
\* rows on their way to it and the rows on the screen, put together as Emacs does.  When
\* rows are kept split a line is not to be told from its rows, and all the text is one line.
Bared(text) == [i \in DOMAIN text |-> Bare(text[i])]
Above == IF rejoin THEN Bared(lines) ELSE << Bare(FlattenSeq(lines)) >>
Stripped(rows) ==
  [i \in DOMAIN rows |-> [text |-> Bare(rows[i].text), newline |-> rejoin /\ rows[i].newline]]
Backlog == [i \in DOMAIN pending |-> [text |-> pending[i].text, newline |-> ~pending[i].wrapped]]
Told ==
  IF Printing THEN AppendTo(AppendTo(AppendTo(Above, Stripped(InFlight)), Stripped(Backlog)),
                            Stripped(Pieces(screen, Used(screen))))
  ELSE Emptied

T == INSTANCE Transcript WITH lines <- Told, Chars <- 1..MaxText

\* A child that only prints has its lines in the buffer and on the screen, in order
\* and once each, through every resize, eviction and drain.
TranscriptKept == T!Spec

\* Term::clear_to_prompt keeps the prompt: its first row is not among those dropped.
OnGrid(ch) == \E r \in 1..Height(screen) : ch \in ToSet(screen.rows[r].cells)
PromptShown == promptText # 0 /\ OnGrid(promptText)
PromptStays == [][ClearScrollback /\ PromptShown => PromptShown']_vars
=============================================================================
