---------------------------- MODULE MessageQueue ----------------------------
(***************************************************************************)
(* One message queue of ipc.c: a list of messages and a list of free nodes.*)
(* A node is filled and emptied with interrupts enabled, while it is in    *)
(* neither list.                                                           *)
(***************************************************************************)
EXTENDS IpcOps

CONSTANTS Receivers, Senders,    \* parent.suspend_thread, suspend_sender_thread
          Node, Null,            \* the messages of mq->msg_pool
          Message, NoMessage,    \* what is copied into and out of a node
          Ops,                   \* the functions called
          Timed                  \* the timeouts: TRUE a finite one, FALSE forever

ASSUME QueueAssumption == /\ WaitObj = {Receivers, Senders} /\ Receivers # Senders
                          /\ IsFiniteSet(Node) /\ Node # {} /\ Null \notin Node
                          /\ Timed \subseteq BOOLEAN

VARIABLES k, pc,
          next, data,    \* of each node
          head, tail,    \* msg_queue_head, msg_queue_tail
          free,          \* msg_queue_free
          entry,
          alive,         \* the object is initialised
          held,          \* the node a thread is copying into or out of
          arg,           \* message and timeout of a call
          got            \* the message each thread received last
mq == <<next, data, head, tail, free, entry>>
vars == <<k, pc, mq, alive, held, arg, got>>

PC == {"run", "sched", "sendSched", "sendWoken", "recvSched", "recvWoken",
       "copyIn", "append", "copyOut", "free",
       "drainR", "oneR", "drainS", "oneS", "detachObject",  \* in rt_mq_detach
       "fault"}                  \* stopped at an assertion
InDetach == {"drainR", "oneR", "drainS", "oneS", "detachObject"}
NoCall == [msg |-> NoMessage, urgent |-> FALSE, timed |-> FALSE]

Init == /\ k = StartedKernel
        /\ pc = [t \in Thread |-> "run"]
        /\ \E order \in {SetToSeq(Node)} :
             /\ free = Head(order)
             /\ next = [n \in Node |->
                          LET later == {i \in 2..Len(order) : order[i - 1] = n}
                          IN IF later = {} THEN Null ELSE order[Min(later)]]
        /\ data = [n \in Node |-> NoMessage]
        /\ head = Null /\ tail = Null /\ entry = 0
        /\ alive = TRUE
        /\ held = [t \in Thread |-> Null]
        /\ arg = [t \in Thread |-> NoCall]
        /\ got = [t \in Thread |-> NoMessage]

-----------------------------------------------------------------------------
At(t, l) == t = k.cur /\ pc[t] = l
Goto(t, l) == pc' = [pc EXCEPT ![t] = l]

\* nobody calls a queue that is being detached or is detached
Calls(t, op) == /\ At(t, "run") /\ t # Idle /\ op \in Ops
                /\ alive /\ \A u \in Thread : pc[u] \notin InDetach

Woken(t, l) == At(t, l) /\ k.error[t] = "EOK"

\* (what is left over in a free node, or from a call, is not kept)
EndCall(t) == arg' = [arg EXCEPT ![t] = NoCall]

\* unlink a node from the free list, to fill it
TakeFree(t) ==
  /\ free # Null
  /\ held' = [held EXCEPT ![t] = free]
  /\ free' = next[free]
  /\ Goto(t, "copyIn")
  /\ UNCHANGED <<k, next, data, head, tail, entry, got, alive>>

\* rt_mq_send_wait (with timeout 0 and no node left it changes nothing), rt_mq_urgent
SendNow(t, m, urgent) ==
  /\ Calls(t, IF urgent THEN "urgent" ELSE "send")
  /\ TakeFree(t)
  /\ arg' = [arg EXCEPT ![t] = [msg |-> m, urgent |-> urgent, timed |-> FALSE]]

WaitOn(t, o, timed) == k' = SuspendFor([k EXCEPT !.error[t] = "EINTR"], o, timed)

SendWait(t, m, timed) ==
  /\ Calls(t, "send")
  /\ free = Null
  /\ WaitOn(t, Senders, timed)
  /\ arg' = [arg EXCEPT ![t] = [msg |-> m, urgent |-> FALSE, timed |-> timed]]
  /\ Goto(t, "sendSched")
  /\ UNCHANGED <<mq, alive, held, got>>

SendAgain(t) == Woken(t, "sendWoken") /\ TakeFree(t) /\ UNCHANGED arg

\* with interrupts enabled
CopyIn(t) ==
  /\ At(t, "copyIn")
  /\ data' = [data EXCEPT ![held[t]] = arg[t].msg]
  /\ next' = IF arg[t].urgent THEN next ELSE [next EXCEPT ![held[t]] = Null]
  /\ Goto(t, "append")
  /\ UNCHANGED <<k, head, tail, free, entry, alive, held, arg, got>>

PutBack(n) ==
  /\ next' = IF tail # Null THEN [next EXCEPT ![tail] = n] ELSE next
  /\ tail' = n
  /\ head' = IF head = Null THEN n ELSE head

PutFront(n) ==
  /\ next' = [next EXCEPT ![n] = head]
  /\ head' = n
  /\ tail' = IF tail = Null THEN n ELSE tail

Waking_FirstOnly(o) ==
  IF HasWaiter(k, o) /\ entry \in {0, Cardinality(Node)} THEN ResumeFirst(k, o) ELSE k

Waking(o) == IF HasWaiter(k, o) THEN ResumeFirst(k, o) ELSE k
AfterWake(t, o) == Goto(t, IF HasWaiter(k, o) THEN "sched" ELSE "run")

PutMessage(t) ==
  /\ At(t, "append")
  /\ IF arg[t].urgent THEN PutFront(held[t]) ELSE PutBack(held[t])
  /\ entry' = entry + 1
  /\ held' = [held EXCEPT ![t] = Null]
  /\ k' = Waking(Receivers)
  /\ AfterWake(t, Receivers)
  /\ EndCall(t)
  /\ UNCHANGED <<data, free, got, alive>>

TakeHead_KeepTail(t) ==
  /\ entry > 0
  /\ held' = [held EXCEPT ![t] = head]
  /\ head' = next[head]
  /\ entry' = entry - 1
  /\ Goto(t, "copyOut")
  /\ UNCHANGED <<k, next, data, tail, free, arg, got, alive>>

\* unlink the first message, to empty it
TakeHead(t) ==
  /\ entry > 0
  /\ held' = [held EXCEPT ![t] = head]
  /\ head' = next[head]
  /\ tail' = IF tail = head THEN Null ELSE tail
  /\ entry' = entry - 1
  /\ Goto(t, "copyOut")
  /\ UNCHANGED <<k, next, data, free, arg, got, alive>>

RecvNow(t) == Calls(t, "recv") /\ TakeHead(t)

RecvWait(t, timed) ==
  /\ Calls(t, "recv")
  /\ entry = 0
  /\ WaitOn(t, Receivers, timed)
  /\ arg' = [arg EXCEPT ![t] = [NoCall EXCEPT !.timed = timed]]
  /\ Goto(t, "recvSched")
  /\ UNCHANGED <<mq, alive, held, got>>

RecvAgain(t) == Woken(t, "recvWoken") /\ TakeHead(t)

\* with interrupts enabled
CopyOut(t) ==
  /\ At(t, "copyOut")
  /\ got' = [got EXCEPT ![t] = data[held[t]]]
  /\ Goto(t, "free")
  /\ UNCHANGED <<k, mq, alive, held, arg>>

FreeNode(t) ==
  /\ At(t, "free")
  /\ next' = [next EXCEPT ![held[t]] = free]
  /\ free' = held[t]
  /\ held' = [held EXCEPT ![t] = Null]
  /\ k' = Waking(Senders)
  /\ AfterWake(t, Senders)
  /\ EndCall(t)
  /\ data' = [data EXCEPT ![held[t]] = NoMessage]
  /\ UNCHANGED <<head, tail, entry, got, alive>>

-----------------------------------------------------------------------------
(* the loop around a wait *)

WaitFailed(t) ==
  /\ At(t, "sendWoken") \/ At(t, "recvWoken")
  /\ k.error[t] # "EOK"
  /\ Goto(t, "run")
  /\ EndCall(t)
  /\ UNCHANGED <<k, mq, alive, held, got>>

WaitAgain(t) ==
  /\ \/ /\ Woken(t, "sendWoken") /\ free = Null
        /\ WaitOn(t, Senders, arg[t].timed)
        /\ Goto(t, "sendSched")
     \/ /\ Woken(t, "recvWoken") /\ entry = 0
        /\ WaitOn(t, Receivers, arg[t].timed)
        /\ Goto(t, "recvSched")
  /\ UNCHANGED <<mq, alive, held, arg, got>>

TimeUsedUp(t) ==
  /\ arg[t].timed
  /\ \/ /\ Woken(t, "sendWoken") /\ free = Null
        /\ k' = [k EXCEPT !.error[t] = "EINTR"]
     \/ /\ Woken(t, "recvWoken") /\ entry = 0
        /\ k' = [k EXCEPT !.error[t] = "ETIMEOUT"]
  /\ Goto(t, "run")
  /\ EndCall(t)
  /\ UNCHANGED <<mq, alive, held, got>>

\* the nodes from one on along the pointers nx, at most as many as there are
ChainOf(nx, from) ==
  LET nth[i \in 1..Cardinality(Node)] ==
        IF i = 1 THEN from ELSE IF nth[i - 1] = Null THEN Null ELSE nx[nth[i - 1]]
  IN [i \in 1..Cardinality({j \in DOMAIN nth : nth[j] # Null}) |-> nth[i]]
Chain(from) == ChainOf(next, from)

Emptied_AllFree ==
  LET order == SetToSeq(Node)
  IN /\ free' = Head(order)
     /\ next' = [n \in Node |-> LET later == {i \in 2..Len(order) : order[i - 1] = n}
                                IN IF later = {} THEN Null ELSE order[Min(later)]]
     /\ head' = Null /\ tail' = Null

\* each message in turn becomes the head of the free list
Emptied ==
  LET queued == Chain(head)
      before(i) == IF i = 1 THEN free ELSE queued[i - 1]
  IN /\ next' = [n \in Node |-> IF n \in ToSet(queued)
                                THEN before(CHOOSE i \in DOMAIN queued : queued[i] = n)
                                ELSE next[n]]
     /\ free' = IF queued = <<>> THEN free ELSE Last(queued)
     /\ head' = Null
     /\ tail' = IF tail \in ToSet(queued) THEN Null ELSE tail

\* rt_mq_control(RT_IPC_CMD_RESET)
Reset(t) ==
  /\ Calls(t, "reset")
  /\ k' = ResumeAll(ResumeAll(k, Receivers), Senders)
  /\ Emptied
  /\ data' = [n \in Node |-> IF n \in ToSet(Chain(head)) THEN NoMessage ELSE data[n]]
  /\ entry' = 0
  /\ Goto(t, "sched")
  /\ UNCHANGED <<alive, held, arg, got>>

-----------------------------------------------------------------------------
(* rt_mq_detach: both lists are drained, each looked at with interrupts      *)
(* enabled before one waiter is resumed; who is copying goes on              *)

Detach(t) ==
  /\ Calls(t, "detach")
  /\ Goto(t, "drainR")
  /\ UNCHANGED <<k, mq, alive, held, arg, got>>

DrainLook(t) ==
  /\ \/ At(t, "drainR") /\ Goto(t, IF HasWaiter(k, Receivers) THEN "oneR" ELSE "drainS")
     \/ At(t, "drainS") /\ Goto(t, IF HasWaiter(k, Senders) THEN "oneS" ELSE "detachObject")
  /\ UNCHANGED <<k, mq, alive, held, arg, got>>

DrainOne(t, o, one, look) ==
  /\ At(t, one)
  /\ IF HasWaiter(k, o)
     THEN k' = ResumeFailed(k, Head(k.wait[o])) /\ Goto(t, look)
     ELSE Goto(t, "fault") /\ UNCHANGED k
  /\ UNCHANGED <<mq, alive, held, arg, got>>

DetachObject(t) ==
  /\ At(t, "detachObject")
  /\ alive' = FALSE
  /\ Goto(t, "run")
  /\ UNCHANGED <<k, mq, held, arg, got>>

DoSchedule(t) ==
  /\ \/ At(t, "sched") /\ Goto(t, "run")
     \/ At(t, "sendSched") /\ Goto(t, "sendWoken")
     \/ At(t, "recvSched") /\ Goto(t, "recvWoken")
  /\ k' = Schedule(k)
  /\ UNCHANGED <<mq, alive, held, arg, got>>

-----------------------------------------------------------------------------
(* Interrupt handlers *)

\* rt_mq_send: no thread runs between its two sections
IsrSend(m) ==
  /\ "isr" \in Ops /\ alive /\ free # Null
  /\ data' = [data EXCEPT ![free] = m]
  /\ next' = [n \in Node |-> CASE n = free -> Null
                               [] n = tail -> free
                               [] OTHER    -> next[n]]
  /\ tail' = free
  /\ head' = IF head = Null THEN free ELSE head
  /\ free' = next[free]
  /\ entry' = entry + 1
  /\ \E woken \in {Waking(Receivers)} :
       k' = IF HasWaiter(k, Receivers) THEN Schedule(woken) ELSE woken
  /\ UNCHANGED <<pc, alive, held, arg, got>>

Tick == /\ k' = TickSlice(k)
        /\ UNCHANGED <<pc, mq, alive, held, arg, got>>

TimerExpire(u) == /\ u \in k.timer
                  /\ k' = ThreadTimeout(k, u)
                  /\ UNCHANGED <<pc, mq, alive, held, arg, got>>

-----------------------------------------------------------------------------
ThreadStep(t) ==
  \/ SendAgain(t) \/ CopyIn(t) \/ PutMessage(t)
  \/ RecvNow(t) \/ RecvAgain(t) \/ CopyOut(t) \/ FreeNode(t)
  \/ WaitFailed(t) \/ WaitAgain(t) \/ TimeUsedUp(t) \/ Reset(t) \/ DoSchedule(t)
  \/ Detach(t) \/ DrainLook(t) \/ DetachObject(t)
  \/ DrainOne(t, Receivers, "oneR", "drainR") \/ DrainOne(t, Senders, "oneS", "drainS")
  \/ \E timed \in Timed : RecvWait(t, timed)
  \/ \E m \in Message : \/ \E urgent \in BOOLEAN : SendNow(t, m, urgent)
                        \/ \E timed \in Timed : SendWait(t, m, timed)

Stopped == \E t \in Thread : pc[t] = "fault"

Next == /\ ~Stopped
        /\ \/ \E t \in Thread : ThreadStep(t)
           \/ \E m \in Message : IsrSend(m)
           \/ Tick
           \/ \E u \in Thread : TimerExpire(u)

Spec == Init /\ [][Next]_vars

-----------------------------------------------------------------------------
InSend(t) == pc[t] \in {"sendSched", "sendWoken"}
InRecv(t) == pc[t] \in {"recvSched", "recvWoken"}
Comes(t) == ~Suspended(k, t) /\ k.error[t] = "EOK"

Holding == {"copyIn", "append", "copyOut", "free"}

TypeOK == /\ k \in Kernel
          /\ pc \in [Thread -> PC]
          /\ next \in [Node -> Node \cup {Null}]
          /\ data \in [Node -> Message \cup {NoMessage}]
          /\ {head, tail, free} \subseteq Node \cup {Null}
          /\ entry \in 0..Cardinality(Node)
          /\ alive \in BOOLEAN
          /\ held \in [Thread -> Node \cup {Null}]
          /\ arg \in [Thread -> [msg : Message \cup {NoMessage}, urgent : BOOLEAN,
                                 timed : BOOLEAN]]
          /\ got \in [Thread -> Message \cup {NoMessage}]

\* the pointers nx lead from a node through q and end there
Linked(nx, q, from) ==
  /\ from = IF q = <<>> THEN Null ELSE Head(q)
  /\ \A i \in DOMAIN q : nx[q[i]] = IF i < Len(q) THEN q[i + 1] ELSE Null

\* Each node is in one of the sequences q and u or in the hands of one thread.
Shared(q, u, h) ==
  LET copied == {t \in Thread : h[t] # Null}
      hands  == {h[t] : t \in copied}
  IN /\ IsInjective(q) /\ IsInjective(u)
     /\ \A t, v \in copied : t # v => h[t] # h[v]
     /\ ToSet(q) \cap ToSet(u) = {} /\ (ToSet(q) \cup ToSet(u)) \cap hands = {}
     /\ ToSet(q) \cup ToSet(u) \cup hands = Node
     /\ Len(q) + Len(u) + Cardinality(copied) = Cardinality(Node)

\* No node is lost or shared, also when the queue is reset while threads copy; entry
\* counts the queue, and the tail pointer is its end.
NodeOwned ==
  LET queued == Chain(head)
      unused == Chain(free)
  IN /\ Linked(next, queued, head) /\ Linked(next, unused, free)
     /\ Shared(queued, unused, held)
     /\ entry = Len(queued)
     /\ tail = IF queued = <<>> THEN Null ELSE Last(queued)

\* a current thread that does not run is about to call rt_schedule
Leaves == Suspended(k, k.cur) => pc[k.cur] \in {"sendSched", "recvSched"}

\* A thread has a node in its hands exactly between its two sections, with the
\* message in it once it is copied.
InHand ==
  \A t \in Thread :
    /\ held[t] # Null <=> pc[t] \in Holding
    /\ InSend(t) \/ pc[t] \in {"copyIn", "append"} => arg[t].msg \in Message
    /\ pc[t] = "append" => /\ data[held[t]] = arg[t].msg
                           /\ ~arg[t].urgent => next[held[t]] = Null

\* The kernel's own lists stay in order, whichever way the waiters leave, and a
\* thread is in the list of the receivers exactly while it is suspended in a
\* receive, in that of the senders while in a send: no node and no message is
\* handed to a thread that has gone.
Consistent ==
  /\ TypeOK
  /\ Orderly(k) /\ Leaves /\ ~InSend(Idle) /\ ~InRecv(Idle)
  /\ NodeOwned /\ InHand
  /\ \A t \in Thread : /\ Waits(k, t, Receivers) <=> InRecv(t) /\ Suspended(k, t)
                       /\ Waits(k, t, Senders) <=> InSend(t) /\ Suspended(k, t)

\* No wake-up is lost: while a receiver sleeps, each message in the queue has a
\* woken receiver that comes for it, and while a sender sleeps, each free node has
\* a sender that comes for it, although nodes change hands in two sections.
NoWakeUpLost ==
  /\ HasWaiter(k, Receivers) =>
       entry <= Cardinality({t \in Thread : InRecv(t) /\ Comes(t)})
  /\ HasWaiter(k, Senders) =>
       Len(Chain(free)) <= Cardinality({t \in Thread : InSend(t) /\ Comes(t)})

\* The lists implement the bounded queue, although the copies are made outside:
\* what a receiver gets is what stood in the queue when it unlinked the node.
Abs == INSTANCE AbstractMailbox
         WITH Receiver <- Thread, Message <- Message, Capacity <- Cardinality(Node),
              Nothing <- NoMessage,
              queue <- [i \in 1..Len(Chain(head)) |-> data[Chain(head)[i]]],
              got <- [t \in Thread |-> IF pc[t] = "copyOut" THEN data[held[t]] ELSE got[t]]
Implements == Abs!Spec
=============================================================================
