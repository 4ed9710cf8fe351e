------------------------------- MODULE MCSeam -------------------------------
(* Sessions: what the child and the user do, and in which windows. *)
EXTENDS Seam

Run(ops, sizes, cap, text, rows) ==
  [ops |-> ops, sizes |-> sizes, cap |-> cap, joins |-> {TRUE}, text |-> text, rows |-> rows]

\* A child that only prints, in a buffer that keeps everything.
Uncapped == [Run({"print", "space", "newline", "resize"},
                 {<<2, 2>>, <<2, 3>>, <<1, 3>>, <<1, 2>>}, 0, 4, 3) EXCEPT !.joins = BOOLEAN]

\* The same in a window high enough for a wrapped line that ends in blanks above the cursor.
Blanks == Run(Uncapped.ops, {<<3, 2>>, <<3, 3>>}, 0, 3, 2)
Spaced == {Blanks}

\* Four kinds of session that between them use every operation.
Small(ops) == Run(ops, {<<3, 1>>, <<2, 2>>}, 1, 2, 2)
Editing == {"print", "move", "eraseline", "erasepart", "clear", "editlines", "editchars", "resize"}
Scrolling == {"print", "index", "reverse", "scroll", "margins", "editlines"}
Dividing == {"print", "index", "margins", "autowrap", "resize"}
Using == {"print", "newline", "prompt", "erasesaved", "alt", "toggle",
          "clearscrollback", "deleteoutput", "resize"}
Programs == {Uncapped, Blanks} \cup {Small(ops) : ops \in {Editing, Scrolling, Dividing, Using}}

\* A child that only prints, in a buffer that keeps one line.
Trimming == {Run(Uncapped.ops, Uncapped.sizes, 1, 6, 6)}

\* A shell with prompts, whose user clears the scrollback.
Prompting == {Run({"print", "newline", "prompt", "clearscrollback", "resize"},
                  {<<4, 2>>, <<4, 3>>}, 0, 4, 3)}
=============================================================================
