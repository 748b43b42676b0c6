---------------------------- MODULE MCScheduler -----------------------------
(* Small systems of threads for TLC: main with a peer of its priority, or  *)
(* with one or two threads above it, and the idle thread.                  *)
EXTENDS Scheduler

CONSTANTS main, a, b, idle

EqualPrio == (main :> 2) @@ (a :> 2) @@ (b :> 2) @@ (idle :> 3)
ThreePrio == (main :> 2) @@ (a :> 1) @@ (b :> 1) @@ (idle :> 2)
MixedPrio == (main :> 2) @@ (a :> 1) @@ (idle :> 2)
=============================================================================
