--------------------------- MODULE AbstractMutex ----------------------------
(***************************************************************************)
(* What one recursive mutex promises: it has at most one owner, an owner   *)
(* that lets go hands it to one of the callers that wait, if any, and no   *)
(* newcomer comes before them; who gives up waiting never owns it.  Taken   *)
(* out of service, it sends its waiters away and serves nobody until it is  *)
(* set up again, free.                                                      *)
(***************************************************************************)
EXTENDS Naturals

CONSTANTS Caller, Nobody, MaxDepth
VARIABLES owner, depth, waiting, open
vars == <<owner, depth, waiting, open>>

Init == owner = Nobody /\ depth = 0 /\ waiting = {} /\ open = TRUE

Acquire(t) == /\ open /\ owner = Nobody /\ waiting = {}
              /\ owner' = t /\ depth' = 1
              /\ UNCHANGED <<waiting, open>>

Again == /\ open /\ owner # Nobody /\ depth < MaxDepth
         /\ depth' = depth + 1
         /\ UNCHANGED <<owner, waiting, open>>

Block(t) == /\ open /\ owner \notin {Nobody, t} /\ t \notin waiting
            /\ waiting' = waiting \cup {t}
            /\ UNCHANGED <<owner, depth, open>>

LetGo == /\ open /\ depth > 1
         /\ depth' = depth - 1
         /\ UNCHANGED <<owner, waiting, open>>

HandOver(t) == /\ open /\ depth = 1 /\ t \in waiting
               /\ owner' = t
               /\ waiting' = waiting \ {t}
               /\ UNCHANGED <<depth, open>>

Free == /\ open /\ depth = 1 /\ waiting = {}
        /\ owner' = Nobody /\ depth' = 0
        /\ UNCHANGED <<waiting, open>>

GiveUp(t) == /\ t \in waiting
             /\ waiting' = waiting \ {t}
             /\ UNCHANGED <<owner, depth, open>>

Withdraw == /\ open
            /\ open' = FALSE /\ waiting' = {}
            /\ UNCHANGED <<owner, depth>>

Renew == /\ ~open
         /\ open' = TRUE /\ owner' = Nobody /\ depth' = 0
         /\ UNCHANGED waiting

Next == \/ Withdraw \/ Renew
        \/ Again \/ LetGo \/ Free
        \/ \E t \in Caller : Acquire(t) \/ Block(t) \/ HandOver(t) \/ GiveUp(t)

Spec == Init /\ [][Next]_vars
=============================================================================
