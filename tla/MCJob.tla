------------------------------- MODULE MCJob -------------------------------
(* StrelaJob for TLC. *)
EXTENDS StrelaJob
=============================================================================
