----------------------------- MODULE MCMailbox ------------------------------
(* One mailbox, its two lists, its threads and their priorities for TLC. *)
EXTENDS Mailbox, MCIpc
CONSTANTS rcv, snd
=============================================================================
