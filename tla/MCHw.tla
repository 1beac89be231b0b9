------------------------------- MODULE MCHw --------------------------------
(* StrelaHw for TLC. *)
EXTENDS StrelaHw
=============================================================================
