------------------------------- MODULE MCSim -------------------------------
(* StrelaSim for TLC. *)
EXTENDS StrelaSim
=============================================================================
