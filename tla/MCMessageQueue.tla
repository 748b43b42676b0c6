-------------------------- MODULE MCMessageQueue ---------------------------
(* One message queue, its two lists, nodes and threads for TLC. *)
EXTENDS MessageQueue, MCIpc
CONSTANTS rcv, snd, x, y

Same == Permutations(Message)
=============================================================================
