----------------------------- MODULE MCPictures -----------------------------
(* A child that shows pictures in an Emacs with room for one.              *)
EXTENDS Pictures

Transmit == [act |-> "T", id |-> 1, body |-> <<"a">>, more |-> FALSE, quiet |-> 0, png |-> FALSE,
             refused |-> FALSE]
Place1 == [Transmit EXCEPT !.act = "p", !.body = <<>>]
Dropping == {[commands |-> {Transmit, Place1}, inline |-> {<<"b">>, <<"c">>},
              cap |-> 1, drops |-> TRUE, restarts |-> FALSE]}
=============================================================================
