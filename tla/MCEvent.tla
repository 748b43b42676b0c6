------------------------------ MODULE MCEvent -------------------------------
(* One event object with two bits for TLC. *)
EXTENDS Event, MCIpc
CONSTANT ev
=============================================================================
