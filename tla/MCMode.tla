------------------------------- MODULE MCMode -------------------------------
(* Mode has only scalar constants: each .cfg gives them. *)
EXTENDS Mode
=============================================================================
