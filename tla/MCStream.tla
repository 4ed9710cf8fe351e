------------------------------ MODULE MCStream ------------------------------
(* A child that prints ASCII and two-byte characters, read in short reads. *)
EXTENDS Stream

Text == [bytes |-> {"a", "C2", "A9"}, read |-> 4]
Texts == {Text}
=============================================================================
