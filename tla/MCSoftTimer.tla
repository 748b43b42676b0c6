---------------------------- MODULE MCSoftTimer -----------------------------
(* Two timers and a tick counter of ten values that starts before it wraps. *)
EXTENDS SoftTimer, TLC

CONSTANTS t1, t2
=============================================================================
