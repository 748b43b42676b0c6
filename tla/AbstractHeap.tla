---------------------------- MODULE AbstractHeap ----------------------------
(***************************************************************************)
(* What rt_malloc, rt_realloc and rt_free promise: a block that is handed  *)
(* out lies inside the heap and, with the header in front of it, touches   *)
(* no other block in use; it stays where it is until it is freed or        *)
(* resized, and a block that moves was copied to a place that did not      *)
(* overlap it.                                                             *)
(***************************************************************************)
EXTENDS Integers

CONSTANTS Header,     \* the bytes in front of a block
          End         \* where the heap ends
VARIABLE owned        \* the size asked for of each block in use, by its address

Apart(p, m, q, n) == p + m <= q - Header \/ q + n <= p - Header

\* p is a place for n bytes beside the blocks in use
Place(p, n) == /\ Header <= p /\ p + n <= End
               /\ \A q \in DOMAIN owned : Apart(p, n, q, owned[q])

Others(p) == [q \in DOMAIN owned \ {p} |-> owned[q]]
Only(S) == [q \in S |-> owned'[q]]

Init == owned = [q \in {} |-> 0]

Malloc(p) == /\ p \notin DOMAIN owned
             /\ Place(p, owned'[p])
             /\ Only(DOMAIN owned' \ {p}) = owned

Free(p) == /\ p \in DOMAIN owned
           /\ owned' = Others(p)

\* in place, up to the next block
Resize(p) == /\ p \in DOMAIN owned \cap DOMAIN owned'
             /\ \A q \in DOMAIN owned \ {p} : Apart(p, owned'[p], q, owned[q])
             /\ p + owned'[p] <= End
             /\ Only(DOMAIN owned' \ {p}) = Others(p)

Move(p, q) == /\ p \in DOMAIN owned /\ q \notin DOMAIN owned
              /\ Place(q, owned'[q])
              /\ Only(DOMAIN owned' \ {q}) = Others(p)

Next == \/ \E p \in DOMAIN owned' : Malloc(p) \/ Resize(p)
        \/ \E p \in DOMAIN owned : Free(p) \/ \E q \in DOMAIN owned' : Move(p, q)

Spec == Init /\ [][Next]_owned
=============================================================================
