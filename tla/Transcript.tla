----------------------------- MODULE Transcript -----------------------------
(***************************************************************************)
(* What a session owes its user: the lines the child printed, in order.    *)
(* A character lands at the end of the last line or a new line is opened;  *)
(* nothing already in the transcript is ever lost, repeated or moved.      *)
(* Resizes, wake-ups and scrolling are invisible at this level.            *)
(***************************************************************************)
EXTENDS Naturals, Sequences

CONSTANT Chars

VARIABLE lines

Init == lines = << <<>> >>

\* A character at the end of the last line, or a line opened below it.
Put(before) == {[before EXCEPT ![Len(before)] = Append(@, ch)] : ch \in Chars}
Break(before) == {Append(before, <<>>)}

Next == lines' \in Put(lines) \cup Break(lines)

Spec == Init /\ [][Next]_lines
=============================================================================
