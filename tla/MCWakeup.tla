------------------------------ MODULE MCWakeup ------------------------------
(***************************************************************************)
(* Model checking Wakeup.  Its state is finite, so nothing is bounded: the *)
(* child writes for ever.                                                  *)
(***************************************************************************)
EXTENDS Wakeup

=============================================================================
