------------------------------- MODULE MCIpc --------------------------------
(* Threads and priorities of the small systems the IPC runs use: a urgent,  *)
(* b and c its less urgent peers, above the idle thread.                    *)
EXTENDS TLC

CONSTANTS a, b, c, idle

StepPrio  == (a :> 1) @@ (b :> 2) @@ (c :> 3) @@ (idle :> 4)
PairPrio  == (a :> 1) @@ (b :> 2) @@ (idle :> 4)
PeersPrio == (a :> 1) @@ (b :> 1) @@ (idle :> 4)
=============================================================================
