----------------------------- MODULE MCTerminal -----------------------------
(***************************************************************************)
(* The emulator's models side by side: a behaviour is one of them at work, *)
(* the others left as they start.  The ledger, the pictures and the stream *)
(* are extended, since theorems are stated of them; Line is an instance.   *)
(***************************************************************************)
EXTENDS Ledger, Pictures, Stream

CONSTANTS
  MarksPerRow, MaxCluster, MaxOps   \* Line

VARIABLES
  part,
  drawing, t, row, marks, ops

-----------------------------------------------------------------------------
(* Sessions of Stream: the bytes a child writes, and how many a read takes *)

Text == [bytes |-> {"a", "LF", "ESC", "C2", "E2", "9C", "A9"}, read |-> 4]
Controls == [bytes |-> {"ESC", "[", "1", ";", ":", "?", "sp", "a", "CAN", "LF", "DEL"}, read |-> 1]
Devices == [bytes |-> {"ESC", "P", "1", "?", "sp", "a", "DEL", "9C", "CAN", "LF"}, read |-> 2]
Commands == [bytes |-> {"ESC", "]", ";", "a", "BEL", "CAN", "LF"}, read |-> 1]
Applications == [bytes |-> {"ESC", "_", "X", "a", "BEL", "CAN", "9C"}, read |-> 3]
Children == {Text, Controls, Devices, Commands, Applications}

-----------------------------------------------------------------------------
(* Sessions of Line: the texts a program prints, and what else it does *)

Draws(cols, texts, does, deletes) ==
  [cols |-> cols, texts |-> texts, ops |-> does, deletes |-> deletes, autowrap |-> TRUE]
Clusters == Draws(4, {<<"w">>, <<"E">>, <<"e">>, <<"r">>, <<"m">>, <<"z">>, <<"v">>, <<"n">>, <<"a", "b">>},
                  {"goto"}, {})
Pens == Draws(3, {<<"a">>, <<"a", "b">>, <<"b", "a", "b", "m">>, <<"m">>},
              {"goto", "pen", "underline", "link", "graphics", "insert"}, {})
Shifts == Draws(4, {<<"a", "b">>, <<"w">>}, {"goto", "ich", "mark", "link", "erase"}, {1})
Deletes == Draws(4, {<<"a", "b">>, <<"b", "w">>}, {"goto", "link", "pen", "ich"}, {1, 2})
Redraws == Draws(3, {<<"a">>, <<"b", "a">>}, {"goto", "drain", "pen", "erase", "mark", "image", "underline"}, {})
Pinned == [Draws(3, {<<"a">>, <<"b", "a", "w">>}, {"goto", "autowrap", "drain", "insert", "repeat", "erase"}, {})
             EXCEPT !.autowrap = FALSE]
Scaled == Draws(3, {<<"a">>, <<"w", "m">>, <<"m">>}, {"size", "goto"}, {})
Drawings == {Clusters, Pens, Shifts, Deletes, Redraws, Pinned, Scaled}

-----------------------------------------------------------------------------
(* Sessions of Pictures: what a child transmits, and what its Emacs may drop of it *)

Unnamed == -1
Cmd(act, id, bytes, more) ==
  [act |-> act, id |-> id, body |-> bytes, more |-> more, quiet |-> 0, png |-> FALSE, refused |-> FALSE]
A == <<"a">>
B == <<"b">>
\* Chunked transfers, with everything that may come between two chunks.
Chunks == [commands |-> {Cmd("T", 1, A, TRUE), Cmd("T", 1, A, FALSE), Cmd("t", 2, B, TRUE),
                         Cmd("q", 2, B, FALSE), Cmd("none", Unnamed, <<>>, FALSE), Cmd("d", 1, <<>>, FALSE),
                         Cmd("p", 1, <<>>, FALSE), Cmd("T", 2, <<"garbled">>, FALSE)},
           inline |-> {}, cap |-> 0, drops |-> FALSE, restarts |-> FALSE]
\* Frames drawn over one another, faster than Emacs drains, and a file with nothing in it.
Frames == [commands |-> {Cmd("T", Unnamed, A, FALSE), [Cmd("t", 1, <<>>, FALSE) EXCEPT !.png = TRUE],
                         Cmd("p", 1, <<>>, FALSE)},
           inline |-> {<<"c">>, <<"d">>}, cap |-> 0, drops |-> FALSE, restarts |-> FALSE]
\* An Emacs that drops what it no longer shows.
Drops == [commands |-> {Cmd("T", 1, A, FALSE), Cmd("p", 1, <<>>, FALSE)},
          inline |-> {B, <<"c">>}, cap |-> 1, drops |-> TRUE, restarts |-> TRUE]
Clients == {Chunks, Frames, Drops}

-----------------------------------------------------------------------------
Line == INSTANCE Line WITH Sessions <- Drawings, session <- drawing, shown <- row, left <- ops

ledgerVars == <<byHash, hash, older, newer, oldest, newest, next, gave, used, clock>>
lineVars == <<drawing, t, row, marks, ops>>
Starts(name, choice, choices) == IF part = name THEN choice \in choices ELSE choice = CHOOSE c \in choices : TRUE

TerminalInit ==
  /\ part \in {"ledger", "stream", "line", "pictures"}
  /\ Init
  /\ Starts("stream", repertoire, Repertoires) /\ StreamInit
  /\ Starts("line", drawing, Drawings) /\ Line!Init
  /\ Starts("pictures", session, Clients) /\ PicturesInit

TerminalNext ==
  /\ UNCHANGED part
  /\ \/ part = "ledger" /\ Next /\ UNCHANGED <<streamVars, lineVars, pictureVars>>
     \/ part = "stream" /\ StreamNext /\ UNCHANGED <<ledgerVars, lineVars, pictureVars>>
     \/ part = "line" /\ Line!Next /\ UNCHANGED <<ledgerVars, streamVars, pictureVars>>
     \/ part = "pictures" /\ PicturesNext /\ UNCHANGED <<ledgerVars, streamVars, lineVars>>

TerminalSpec ==
  TerminalInit /\ [][TerminalNext]_<<part, ledgerVars, streamVars, lineVars, pictureVars>>

-----------------------------------------------------------------------------
(* Properties, each of the part at work *)

\* Every part's variables stay in their ranges.
InRange ==
  /\ part = "stream" => StreamOK
  /\ part = "line" => Line!TypeOK
  /\ part = "pictures" => PicturesOK
  /\ part = "ledger" => TypeOK /\ Filed /\ Threaded

\* The cell printed last is one thing, attachments included, and the table of attachments
\* is in column order (Screen::join, mark_underline, mark_link, Extras).
RidesItsCell == part = "line" => Line!RidesItsCell /\ Line!InColumnOrder

\* What Emacs is handed of a row is what its cells and its table say (Row::runs_to).
RunsFaithful == part = "line" => Line!RunsFaithful

\* A row that is not reported damaged is the row Emacs holds (Screen::edit, touch).
DamageReported == part = "line" => Line!DamageReported

\* Text printed in one run leaves what it leaves one character at a time (print_str).
BatchIsPerCharacter == part = "line" => Line!BatchIsPerCharacter
=============================================================================
