------------------------------ MODULE MCChild -------------------------------
(***************************************************************************)
(* The child process side by side: its window's size and its end.  A       *)
(* behaviour is one of the two at work.  Both are extended rather than     *)
(* instantiated, since their theorems are stated of them.                  *)
(***************************************************************************)
EXTENDS Teardown, Resize

VARIABLE part

Size(r, c, w, h) == [rows |-> r, cols |-> c, width |-> w, height |-> h]
Spawned == Size(2, 3, 0, 0)
Windows == {Spawned, Size(2, 3, 2, 3), Size(3, 2, 2, 3)}

ChildInit ==
  /\ part \in {"size", "end"}
  /\ Init /\ SizeInit
  /\ part = "size" => job = "none" /\ traps = {}
  /\ part = "end" => answers = "yes"

ChildNext ==
  /\ UNCHANGED part
  /\ \/ part = "size" /\ SizeNext /\ UNCHANGED vars
     \/ part = "end" /\ Next /\ UNCHANGED sizeVars

ChildSpec ==
  /\ ChildInit /\ [][ChildNext]_<<part, sizeVars, vars>>
  /\ (part = "size" => SizeFairness) /\ (part = "end" => Fairness)
=============================================================================
