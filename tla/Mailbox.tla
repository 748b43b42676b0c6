------------------------------ MODULE Mailbox -------------------------------
(***************************************************************************)
(* One mailbox of ipc.c: a ring of machine words, with a suspend list for  *)
(* its receivers and one for its senders.  A thread that is woken looks    *)
(* again, because another one may have been faster.                        *)
(***************************************************************************)
EXTENDS IpcOps

CONSTANTS Receivers, Senders,    \* parent.suspend_thread, suspend_sender_thread
          Size,                  \* mb->size
          Mail, NoMail,          \* the words sent
          Ops,                   \* the functions called
          Timed                  \* the timeouts: TRUE a finite one, FALSE forever

\* rt_mb_init narrows size to 16 bits, so that entry < RT_MB_ENTRY_MAX whenever
\* the mailbox is not full
ASSUME MailboxAssumption == /\ WaitObj = {Receivers, Senders} /\ Receivers # Senders
                            /\ Size \in 1..65535 /\ Timed \subseteq BOOLEAN

VARIABLES k, pc,
          msg_pool, entry, in_offset, out_offset,
          alive,      \* the object is initialised
          arg,        \* the value and the timeout of a waiting call
          got         \* the value that each thread received last
mb == <<msg_pool, entry, in_offset, out_offset>>
vars == <<k, pc, mb, alive, arg, got>>

PC == {"run", "sched",
       "sendSched", "sendWoken", "recvSched", "recvWoken",
       "drainR", "oneR", "drainS", "oneS", "detachObject",  \* in rt_mb_detach
       "fault"}                  \* stopped at an assertion
InDetach == {"drainR", "oneR", "drainS", "oneS", "detachObject"}
Slot == 0..(Size - 1)
NoCall == [mail |-> NoMail, timed |-> FALSE]

Init == /\ k = StartedKernel
        /\ pc = [t \in Thread |-> "run"]
        /\ msg_pool = [i \in Slot |-> NoMail]
        /\ entry = 0 /\ in_offset = 0 /\ out_offset = 0
        /\ alive = TRUE
        /\ arg = [t \in Thread |-> NoCall]
        /\ got = [t \in Thread |-> NoMail]

-----------------------------------------------------------------------------
At(t, l) == t = k.cur /\ pc[t] = l
Goto(t, l) == pc' = [pc EXCEPT ![t] = l]

\* nobody calls a mailbox that is being detached or is detached
Calls(t, op) == /\ At(t, "run") /\ t # Idle /\ op \in Ops
                /\ alive /\ \A u \in Thread : pc[u] \notin InDetach

Full == entry = Size
Wrap(i) == IF i >= Size THEN 0 ELSE i

Waking_FirstMailOnly(o) ==
  IF HasWaiter(k, o) /\ entry \in {0, Size} THEN ResumeFirst(k, o) ELSE k

\* the last part of a send and of a receive: one of the other side is woken
Waking(o) == IF HasWaiter(k, o) THEN ResumeFirst(k, o) ELSE k
WakeOne(o) == k' = Waking(o)
AfterWake(t, o) == Goto(t, IF HasWaiter(k, o) THEN "sched" ELSE "run")

\* (what is left over from a call is not kept)
EndCall(t) == arg' = [arg EXCEPT ![t] = NoCall]

PutSection(v) ==
  /\ ~Full
  /\ msg_pool' = [msg_pool EXCEPT ![in_offset] = v]
  /\ in_offset' = Wrap(in_offset + 1)
  /\ entry' = entry + 1
  /\ WakeOne(Receivers)
  /\ UNCHANGED <<out_offset, alive, got>>

GetSection(t) ==
  /\ entry > 0
  /\ got' = [got EXCEPT ![t] = msg_pool[out_offset]]
  /\ out_offset' = Wrap(out_offset + 1)
  /\ entry' = entry - 1
  /\ WakeOne(Senders)
  /\ EndCall(t)
  /\ UNCHANGED <<msg_pool, in_offset, alive>>

WaitOn(t, o, timed) == k' = SuspendFor([k EXCEPT !.error[t] = "EINTR"], o, timed)

\* rt_mb_send_wait; with timeout 0 on a full mailbox it changes nothing
SendNow(t, v) ==
  /\ Calls(t, "send")
  /\ PutSection(v)
  /\ EndCall(t)
  /\ AfterWake(t, Receivers)

SendWait(t, v, timed) ==
  /\ Calls(t, "send") /\ Full
  /\ WaitOn(t, Senders, timed)
  /\ arg' = [arg EXCEPT ![t] = [mail |-> v, timed |-> timed]]
  /\ Goto(t, "sendSched")
  /\ UNCHANGED <<mb, alive, got>>

RecvNow(t) ==
  /\ Calls(t, "recv")
  /\ GetSection(t)
  /\ AfterWake(t, Senders)

RecvWait(t, timed) ==
  /\ Calls(t, "recv") /\ entry = 0
  /\ WaitOn(t, Receivers, timed)
  /\ arg' = [arg EXCEPT ![t] = [mail |-> NoMail, timed |-> timed]]
  /\ Goto(t, "recvSched")
  /\ UNCHANGED <<mb, alive, got>>

\* the wait failed: thread->error is returned
WaitFailed(t) ==
  /\ At(t, "sendWoken") \/ At(t, "recvWoken")
  /\ k.error[t] # "EOK"
  /\ Goto(t, "run")
  /\ EndCall(t)
  /\ UNCHANGED <<k, mb, alive, got>>

Woken(t, l) == At(t, l) /\ k.error[t] = "EOK"

SendAgain(t) ==
  /\ Woken(t, "sendWoken")
  /\ PutSection(arg[t].mail)
  /\ EndCall(t)
  /\ AfterWake(t, Receivers)

RecvAgain(t) ==
  /\ Woken(t, "recvWoken")
  /\ GetSection(t)
  /\ AfterWake(t, Senders)

\* someone was faster: the thread waits for the rest of its time
WaitAgain(t) ==
  /\ \/ /\ Woken(t, "sendWoken") /\ Full
        /\ WaitOn(t, Senders, arg[t].timed)
        /\ Goto(t, "sendSched")
     \/ /\ Woken(t, "recvWoken") /\ entry = 0
        /\ WaitOn(t, Receivers, arg[t].timed)
        /\ Goto(t, "recvSched")
  /\ UNCHANGED <<mb, alive, arg, got>>

\* someone was faster, and no time is left
TimeUsedUp(t) ==
  /\ arg[t].timed
  /\ \/ /\ Woken(t, "sendWoken") /\ Full
        /\ k' = [k EXCEPT !.error[t] = "EINTR"]
     \/ /\ Woken(t, "recvWoken") /\ entry = 0
        /\ k' = [k EXCEPT !.error[t] = "ETIMEOUT"]
  /\ Goto(t, "run")
  /\ EndCall(t)
  /\ UNCHANGED <<mb, alive, got>>

\* rt_mb_urgent
Urgent(t, v) ==
  /\ Calls(t, "urgent") /\ ~Full
  /\ out_offset' = IF out_offset > 0 THEN out_offset - 1 ELSE Size - 1
  /\ msg_pool' = [msg_pool EXCEPT ![out_offset'] = v]
  /\ entry' = entry + 1
  /\ WakeOne(Receivers)
  /\ AfterWake(t, Receivers)
  /\ UNCHANGED <<in_offset, alive, arg, got>>

Cleared_KeepOut == entry' = 0 /\ in_offset' = 0 /\ UNCHANGED out_offset

Cleared == entry' = 0 /\ in_offset' = 0 /\ out_offset' = 0

\* rt_mb_control(RT_IPC_CMD_RESET)
Reset(t) ==
  /\ Calls(t, "reset")
  /\ k' = ResumeAll(ResumeAll(k, Receivers), Senders)
  /\ Cleared
  /\ Goto(t, "sched")
  /\ UNCHANGED <<msg_pool, alive, arg, got>>

-----------------------------------------------------------------------------
(* rt_mb_detach, and rt_mb_delete: both lists are drained, each looked at    *)
(* with interrupts enabled before one waiter is resumed                      *)

Detach(t) ==
  /\ Calls(t, "detach")
  /\ Goto(t, "drainR")
  /\ UNCHANGED <<k, mb, alive, arg, got>>

DrainLook(t) ==
  /\ \/ At(t, "drainR") /\ Goto(t, IF HasWaiter(k, Receivers) THEN "oneR" ELSE "drainS")
     \/ At(t, "drainS") /\ Goto(t, IF HasWaiter(k, Senders) THEN "oneS" ELSE "detachObject")
  /\ UNCHANGED <<k, mb, alive, arg, got>>

DrainOne(t, o, one, look) ==
  /\ At(t, one)
  /\ IF HasWaiter(k, o)
     THEN k' = ResumeFailed(k, Head(k.wait[o])) /\ Goto(t, look)
     ELSE Goto(t, "fault") /\ UNCHANGED k
  /\ UNCHANGED <<mb, alive, arg, got>>

DetachObject(t) ==
  /\ At(t, "detachObject")
  /\ alive' = FALSE
  /\ Goto(t, "run")
  /\ UNCHANGED <<k, mb, arg, got>>

\* rt_mb_init of the detached mailbox, once nobody sleeps in its lists, which it
\* empties without a look: threads that were woken by a mail or a free place, or by
\* the detach, may still have to look at it again
InitAgain(t) ==
  /\ At(t, "run") /\ t # Idle /\ "detach" \in Ops
  /\ ~alive /\ \A o \in WaitObj : ~HasWaiter(k, o)
  /\ alive' = TRUE
  /\ Cleared
  /\ UNCHANGED <<k, pc, msg_pool, arg, got>>

DoSchedule(t) ==
  /\ \/ At(t, "sched") /\ Goto(t, "run")
     \/ At(t, "sendSched") /\ Goto(t, "sendWoken")
     \/ At(t, "recvSched") /\ Goto(t, "recvWoken")
  /\ k' = Schedule(k)
  /\ UNCHANGED <<mb, alive, arg, got>>

-----------------------------------------------------------------------------
(* Interrupt handlers *)

\* rt_mb_send: one that finds the mailbox full changes nothing
IsrSend(v) ==
  /\ "isr" \in Ops /\ alive /\ ~Full
  /\ msg_pool' = [msg_pool EXCEPT ![in_offset] = v]
  /\ in_offset' = Wrap(in_offset + 1)
  /\ entry' = entry + 1
  /\ \E woken \in {Waking(Receivers)} :
       k' = IF HasWaiter(k, Receivers) THEN Schedule(woken) ELSE woken
  /\ UNCHANGED <<pc, out_offset, alive, arg, got>>

Tick == /\ k' = TickSlice(k)
        /\ UNCHANGED <<pc, mb, alive, arg, got>>

TimerExpire(u) == /\ u \in k.timer
                  /\ k' = ThreadTimeout(k, u)
                  /\ UNCHANGED <<pc, mb, alive, arg, got>>

-----------------------------------------------------------------------------
ThreadStep(t) ==
  \/ RecvNow(t) \/ Reset(t) \/ DoSchedule(t)
  \/ WaitFailed(t) \/ SendAgain(t) \/ RecvAgain(t) \/ WaitAgain(t) \/ TimeUsedUp(t)
  \/ Detach(t) \/ DrainLook(t) \/ DetachObject(t) \/ InitAgain(t)
  \/ DrainOne(t, Receivers, "oneR", "drainR") \/ DrainOne(t, Senders, "oneS", "drainS")
  \/ \E timed \in Timed : RecvWait(t, timed)
  \/ \E v \in Mail : \/ SendNow(t, v) \/ Urgent(t, v)
                     \/ \E timed \in Timed : SendWait(t, v, timed)

Stopped == \E t \in Thread : pc[t] = "fault"

Next == /\ ~Stopped
        /\ \/ \E t \in Thread : ThreadStep(t)
           \/ \E v \in Mail : IsrSend(v)
           \/ Tick
           \/ \E u \in Thread : TimerExpire(u)

Spec == Init /\ [][Next]_vars

-----------------------------------------------------------------------------
InSend(t) == pc[t] \in {"sendSched", "sendWoken"}
InRecv(t) == pc[t] \in {"recvSched", "recvWoken"}

\* where the i-th mail of the ring is, or would be
Place(i) == LET n == out_offset + i - 1 IN IF n < Size THEN n ELSE n - Size

\* woken by the other side, and not yet looked
Comes(t) == ~Suspended(k, t) /\ k.error[t] = "EOK"

TypeOK == /\ k \in Kernel
          /\ pc \in [Thread -> PC]
          /\ msg_pool \in [Slot -> Mail \cup {NoMail}]
          /\ entry \in 0..Size /\ in_offset \in Slot /\ out_offset \in Slot
          /\ alive \in BOOLEAN
          /\ arg \in [Thread -> [mail : Mail \cup {NoMail}, timed : BOOLEAN]]
          /\ got \in [Thread -> Mail \cup {NoMail}]

\* a current thread that does not run is about to call rt_schedule
Leaves == Suspended(k, k.cur) => pc[k.cur] \in {"sendSched", "recvSched"}

\* The kernel's own lists stay in order, whichever way the waiters leave, and a
\* thread is in the list of the receivers exactly while it is suspended in a
\* receive, in that of the senders while in a send: no mail and no place is
\* handed to a thread that has gone.  The two offsets of the ring are as far
\* apart as there are mails in it, through urgent mails, resets and an rt_mb_init
\* of the detached mailbox that a woken thread still looks at.
Consistent ==
  /\ TypeOK
  /\ Orderly(k) /\ Leaves /\ ~InSend(Idle) /\ ~InRecv(Idle)
  /\ in_offset = Place(entry + 1)
  /\ \A t \in Thread : /\ Waits(k, t, Receivers) <=> InRecv(t) /\ Suspended(k, t)
                       /\ Waits(k, t, Senders) <=> InSend(t) /\ Suspended(k, t)
                       /\ InSend(t) => arg[t].mail \in Mail

\* No wake-up is lost: while a receiver sleeps, each mail in the ring has a woken
\* receiver that comes for it, however many newcomers took mail first; and while
\* a sender sleeps, each free place has a sender that comes for it.  A timeout
\* between the wake-up and the second look, or an urgent mail, loses none.
NoWakeUpLost ==
  /\ HasWaiter(k, Receivers) =>
       entry <= Cardinality({t \in Thread : InRecv(t) /\ Comes(t)})
  /\ HasWaiter(k, Senders) =>
       Size - entry <= Cardinality({t \in Thread : InSend(t) /\ Comes(t)})

\* The ring implements the bounded queue.
Abs == INSTANCE AbstractMailbox
         WITH Receiver <- Thread, Message <- Mail, Capacity <- Size, Nothing <- NoMail,
              queue <- [i \in 1..entry |-> msg_pool[Place(i)]]
Implements == Abs!Spec
=============================================================================
