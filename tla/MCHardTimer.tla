---------------------------- MODULE MCHardTimer -----------------------------
(* Three timers and a tick counter of eight values that starts before it wraps. *)
EXTENDS HardTimer, TLC

CONSTANTS t1, t2, t3

Same == Permutations(Timer)
=============================================================================
