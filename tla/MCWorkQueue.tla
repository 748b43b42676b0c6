---------------------------- MODULE MCWorkQueue ----------------------------
(* Two works and two threads that submit and cancel them. *)
EXTENDS WorkQueue

CONSTANTS w1, w2, c1, c2
=============================================================================
