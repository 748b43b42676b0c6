-------------------------- MODULE AbstractMailbox --------------------------
(***************************************************************************)
(* What a mailbox or a message queue promises: a bounded queue.  A message *)
(* goes to its end, an urgent one to its front; each is received once, in  *)
(* that order, by one receiver, unless a reset empties the queue.          *)
(***************************************************************************)
EXTENDS Naturals, Sequences

CONSTANTS Receiver, Message, Capacity, Nothing
VARIABLES queue,
          got         \* the last message that each receiver has received
vars == <<queue, got>>

Init == queue = <<>> /\ got = [t \in Receiver |-> Nothing]

Send(m) == /\ Len(queue) < Capacity
           /\ queue' = Append(queue, m)
           /\ UNCHANGED got

SendUrgent(m) == /\ Len(queue) < Capacity
                 /\ queue' = <<m>> \o queue
                 /\ UNCHANGED got

Receive(t) == /\ queue # <<>>
              /\ got' = [got EXCEPT ![t] = Head(queue)]
              /\ queue' = Tail(queue)

Clear == queue' = <<>> /\ UNCHANGED got

Next == \/ Clear
        \/ \E m \in Message : Send(m) \/ SendUrgent(m)
        \/ \E t \in Receiver : Receive(t)

Spec == Init /\ [][Next]_vars
=============================================================================
