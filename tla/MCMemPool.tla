----------------------------- MODULE MCMemPool ------------------------------
(* A small heap, one pool in it and two peers for TLC. *)
EXTENDS MemPool, MCIpc
CONSTANT pool
=============================================================================
