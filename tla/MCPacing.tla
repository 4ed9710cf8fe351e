------------------------------ MODULE MCPacing ------------------------------
(***************************************************************************)
(* Model checking Pacing with small times that keep the order of the real  *)
(* ones, in half milliseconds: quiescence below the resolution of poll,    *)
(* below the redisplay interval, below the two 150ms timeouts.             *)
(***************************************************************************)
EXTENDS Pacing

MCIntervals == {3, 4}

=============================================================================
