------------------------------- MODULE Event --------------------------------
(***************************************************************************)
(* One event object of ipc.c: threads wait for all or for any of some      *)
(* bits, threads and interrupt handlers set bits.                          *)
(***************************************************************************)
EXTENDS IpcOps

CONSTANTS Ev,         \* the event object
          Bits,       \* the bits of event->set in use
          Ops,        \* the functions called
          Timed       \* the timeouts used: TRUE is a finite one, FALSE forever

ASSUME EventAssumption == WaitObj = {Ev}

VARIABLES k, pc,
          set,        \* event->set
          alive,      \* the object is initialised
          want,       \* thread->event_set: what it waits for, then what it got
          how,        \* thread->event_info
          asked       \* what each thread asked for (history)
vars == <<k, pc, set, alive, want, how, asked>>

PC == {"run", "sched", "recvSched", "received",
       "detach", "detachOne", "detachObject",   \* in rt_event_detach
       "fault"}                                 \* stopped at an assertion
InDetach == {"detach", "detachOne", "detachObject"}

\* RT_EVENT_FLAG_AND or RT_EVENT_FLAG_OR, with or without RT_EVENT_FLAG_CLEAR
Option == [all : BOOLEAN, clear : BOOLEAN]

Init == /\ k = StartedKernel
        /\ pc = [t \in Thread |-> "run"]
        /\ set = {}
        /\ alive = TRUE
        /\ want = [t \in Thread |-> {}]
        /\ how = [t \in Thread |-> [all |-> TRUE, clear |-> FALSE]]
        /\ asked = want

-----------------------------------------------------------------------------
At(t, l) == t = k.cur /\ pc[t] = l
Goto(t, l) == pc' = [pc EXCEPT ![t] = l]
Calls(t, op) == At(t, "run") /\ t # Idle /\ op \in Ops

\* nobody calls an event that is being detached or is detached
Uses(t, op) == Calls(t, op) /\ alive /\ \A u \in Thread : pc[u] \notin InDetach

Satisfied(bits, opt, flags) ==
  IF opt.all THEN bits \subseteq flags ELSE bits \cap flags # {}

RecvNow(t, bits, opt) ==
  /\ Uses(t, "recv")
  /\ Satisfied(bits, opt, set)
  /\ k' = [k EXCEPT !.error[t] = "EOK"]
  /\ want' = [want EXCEPT ![t] = set \cap bits]
  /\ how' = [how EXCEPT ![t] = opt]
  /\ set' = IF opt.clear THEN set \ bits ELSE set
  /\ asked' = [asked EXCEPT ![t] = {}]
  /\ UNCHANGED <<pc, alive>>

\* (a call with timeout 0 that is not satisfied changes thread->error only)
RecvWait(t, bits, opt, timed) ==
  /\ Uses(t, "recv")
  /\ ~Satisfied(bits, opt, set)
  /\ want' = [want EXCEPT ![t] = bits]
  /\ how' = [how EXCEPT ![t] = opt]
  /\ asked' = [asked EXCEPT ![t] = bits]
  /\ k' = SuspendFor([k EXCEPT !.error[t] = "EINTR"], Ev, timed)
  /\ Goto(t, "recvSched")
  /\ UNCHANGED <<set, alive>>

RecvReturn(t) ==
  /\ At(t, "received")
  /\ Goto(t, "run")
  /\ asked' = [asked EXCEPT ![t] = {}]
  /\ UNCHANGED <<k, set, alive, want, how>>

Woken_First(bits) ==
  IF HasWaiter(k, Ev) /\ Satisfied(want[Head(k.wait[Ev])], how[Head(k.wait[Ev])], set \cup bits)
  THEN {Head(k.wait[Ev])} ELSE {}

\* the waiters that rt_event_send satisfies
Woken(bits) == {t \in ToSet(k.wait[Ev]) : Satisfied(want[t], how[t], set \cup bits)}

Got_Unmasked(bits) ==
  [t \in Thread |-> IF t \in Woken(bits) /\ ~how[t].all
                    THEN set \cup bits ELSE want[t]]

\* what they got is recorded in event_set
Got(bits) ==
  [t \in Thread |-> IF t \in Woken(bits) /\ ~how[t].all
                    THEN want[t] \cap (set \cup bits) ELSE want[t]]

FlagsAfter_AllClear(bits) ==
  (set \cup bits) \ UNION {Got(bits)[t] : t \in Woken(bits)}

\* the bits are cleared once every waiter has been looked at
FlagsAfter(bits) ==
  (set \cup bits) \ UNION {Got(bits)[t] : t \in {u \in Woken(bits) : how[u].clear}}

\* rt_event_send in its section, but for the kernel
SendSection(bits) ==
  /\ want' = Got(bits)
  /\ set' = FlagsAfter(bits)
  /\ UNCHANGED <<how, asked>>

Send(t, bits) ==
  /\ Uses(t, "send")
  /\ SendSection(bits)
  /\ k' = ResumeSome(k, Ev, Woken(bits), "EOK")
  /\ Goto(t, IF Woken(bits) # {} THEN "sched" ELSE "run")
  /\ UNCHANGED alive

\* rt_event_control(RT_IPC_CMD_RESET)
Reset(t) ==
  /\ Uses(t, "reset")
  /\ k' = ResumeAll(k, Ev)
  /\ set' = {}
  /\ Goto(t, "sched")
  /\ UNCHANGED <<alive, want, how, asked>>

\* rt_event_detach, and rt_event_delete: the list is looked at with interrupts
\* enabled, and then one waiter is resumed with interrupts disabled
Detach(t) ==
  /\ Uses(t, "detach")
  /\ Goto(t, "detach")
  /\ UNCHANGED <<k, set, alive, want, how, asked>>

DetachLook(t) ==
  /\ At(t, "detach")
  /\ Goto(t, IF HasWaiter(k, Ev) THEN "detachOne" ELSE "detachObject")
  /\ UNCHANGED <<k, set, alive, want, how, asked>>

DetachOne(t) ==
  /\ At(t, "detachOne")
  /\ IF HasWaiter(k, Ev)
     THEN k' = ResumeFailed(k, Head(k.wait[Ev])) /\ Goto(t, "detach")
     ELSE Goto(t, "fault") /\ UNCHANGED k
  /\ UNCHANGED <<set, alive, want, how, asked>>

DetachObject(t) ==
  /\ At(t, "detachObject")
  /\ alive' = FALSE
  /\ Goto(t, "run")
  /\ UNCHANGED <<k, set, want, how, asked>>

\* rt_event_init of the detached object, once nobody is inside a function of it
InitAgain(t) ==
  /\ Calls(t, "detach") /\ ~alive
  /\ \A u \in Thread : pc[u] \in {"run", "sched"}
  /\ alive' = TRUE /\ set' = {}
  /\ UNCHANGED <<k, pc, want, how, asked>>

DoSchedule(t) ==
  /\ \/ At(t, "sched") /\ Goto(t, "run")
     \/ At(t, "recvSched") /\ Goto(t, "received")
  /\ k' = Schedule(k)
  /\ UNCHANGED <<set, alive, want, how, asked>>

-----------------------------------------------------------------------------
(* Interrupt handlers *)

IsrSend(bits) ==
  /\ "isr" \in Ops /\ alive
  /\ SendSection(bits)
  /\ \E woken \in {ResumeSome(k, Ev, Woken(bits), "EOK")} :
       k' = IF Woken(bits) # {} THEN Schedule(woken) ELSE woken
  /\ UNCHANGED <<pc, alive>>

Tick == /\ k' = TickSlice(k)
        /\ UNCHANGED <<pc, set, alive, want, how, asked>>

TimerExpire(u) == /\ u \in k.timer
                  /\ k' = ThreadTimeout(k, u)
                  /\ UNCHANGED <<pc, set, alive, want, how, asked>>
-----------------------------------------------------------------------------
ThreadStep(t) ==
  \/ RecvReturn(t) \/ Reset(t) \/ DoSchedule(t)
  \/ Detach(t) \/ DetachLook(t) \/ DetachOne(t) \/ DetachObject(t) \/ InitAgain(t)
  \/ \E bits \in (SUBSET Bits) \ {{}} :
       \/ Send(t, bits)
       \/ \E opt \in Option : \/ RecvNow(t, bits, opt)
                              \/ \E timed \in Timed : RecvWait(t, bits, opt, timed)

Stopped == \E t \in Thread : pc[t] = "fault"

Next == /\ ~Stopped
        /\ \/ \E t \in Thread : ThreadStep(t)
           \/ \E bits \in (SUBSET Bits) \ {{}} : IsrSend(bits)
           \/ Tick
           \/ \E u \in Thread : TimerExpire(u)

Spec == Init /\ [][Next]_vars

-----------------------------------------------------------------------------
InRecv(t) == pc[t] \in {"recvSched", "received"}

\* a current thread that does not run is about to call rt_schedule
Leaves == Suspended(k, k.cur) => pc[k.cur] = "recvSched"

TypeOK == /\ k \in Kernel
          /\ pc \in [Thread -> PC]
          /\ set \in SUBSET Bits /\ alive \in BOOLEAN
          /\ want \in [Thread -> SUBSET Bits]
          /\ how \in [Thread -> Option]
          /\ asked \in [Thread -> SUBSET Bits]

\* The kernel's own lists stay in order when one send wakes several threads, and a
\* thread is in the list exactly while it is suspended in a receive: one that timed
\* out, or that a reset woke, is not found by a later send.
Consistent ==
  /\ TypeOK
  /\ Orderly(k) /\ Leaves /\ ~InRecv(Idle)
  /\ \A t \in Thread : /\ Waits(k, t, Ev) <=> InRecv(t) /\ Suspended(k, t)
                       /\ Waits(k, t, Ev) => want[t] = asked[t] /\ want[t] # {}

\* No thread waits for bits that are there: whoever sets the last bit it needs
\* wakes it, and whoever resets or clears bits leaves no waiter satisfied.
NoSatisfiedWaiter ==
  \A t \in ToSet(k.wait[Ev]) : ~Satisfied(want[t], how[t], set)

\* What a woken thread finds in event_set is what it asked for: all of it, or a
\* part that is not empty, whatever has been sent, cleared and reset since.
ReceivesWhatItAskedFor ==
  \A t \in Thread : InRecv(t) /\ ~Suspended(k, t) /\ k.error[t] = "EOK" =>
    /\ want[t] # {} /\ want[t] \subseteq asked[t]
    /\ how[t].all => want[t] = asked[t]

\* Unless the event is reset or initialised again, a bit goes away only because a thread that asked to
\* clear it has got it.
Receives(t) == \/ At(t, "run") /\ pc'[t] = "run" /\ how'[t].clear
               \/ Waits(k, t, Ev) /\ ~Waits(k', t, Ev) /\ how[t].clear
NoBitLost ==
  [][\/ \E t \in Thread : Reset(t) \/ InitAgain(t)
     \/ \A b \in set \ set' : \E t \in Thread : Receives(t) /\ b \in want'[t]]_vars
=============================================================================
