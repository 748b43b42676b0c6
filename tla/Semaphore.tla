----------------------------- MODULE Semaphore ------------------------------
(***************************************************************************)
(* One semaphore of ipc.c between threads, interrupt handlers and the      *)
(* timers of the waiting threads.                                          *)
(***************************************************************************)
EXTENDS IpcOps

CONSTANTS Sem,        \* the semaphore
          SemMax,     \* RT_SEM_VALUE_MAX
          Ops,        \* the functions called
          Timed       \* the timeouts used: TRUE is a finite one, FALSE forever

ASSUME SemaphoreAssumption == WaitObj = {Sem} /\ SemMax \in Nat

VARIABLES k, pc,
          value,      \* sem->value
          alive,      \* the object is initialised
          owed        \* permits put in and not returned by a take (history)
vars == <<k, pc, value, alive, owed>>

PC == {"run", "sched",            \* rt_schedule still to be called
       "takeSched", "taken",      \* in rt_sem_take
       "detach", "detachOne", "detachObject",   \* in rt_sem_detach
       "fault"}                   \* stopped at an assertion
InDetach == {"detach", "detachOne", "detachObject"}

Init == /\ k = StartedKernel
        /\ pc = [t \in Thread |-> "run"]
        /\ value \in 0..SemMax
        /\ alive = TRUE
        /\ owed = value

-----------------------------------------------------------------------------
At(t, l) == t = k.cur /\ pc[t] = l
Goto(t, l) == pc' = [pc EXCEPT ![t] = l]
Calls(t, op) == At(t, "run") /\ t # Idle /\ op \in Ops

\* nobody calls a semaphore that is being detached or is detached
Uses(t, op) == Calls(t, op) /\ alive /\ \A u \in Thread : pc[u] \notin InDetach

\* a take that fails at once (timeout 0) changes nothing
TakeNow(t) ==
  /\ Uses(t, "take")
  /\ value > 0
  /\ value' = value - 1
  /\ owed' = owed - 1
  /\ UNCHANGED <<k, pc, alive>>

TakeWait(t, timed) ==
  /\ Uses(t, "take")
  /\ value = 0
  /\ k' = SuspendFor([k EXCEPT !.error[t] = "EINTR"], Sem, timed)
  /\ Goto(t, "takeSched")
  /\ UNCHANGED <<value, alive, owed>>

\* thread->error tells why the thread goes on
TakeReturn(t) ==
  /\ At(t, "taken")
  /\ Goto(t, "run")
  /\ owed' = IF k.error[t] = "EOK" THEN owed - 1 ELSE owed
  /\ UNCHANGED <<k, value, alive>>

\* rt_sem_release in its section: full, or one waiter or the value goes on
ReleaseSection ==
  \/ /\ HasWaiter(k, Sem)
     /\ k' = ResumeFirst(k, Sem)
     /\ owed' = owed + 1
     /\ UNCHANGED value
  \/ /\ ~HasWaiter(k, Sem)
     /\ value < SemMax
     /\ value' = value + 1
     /\ owed' = owed + 1
     /\ UNCHANGED k

Release(t) ==
  /\ Uses(t, "release")
  /\ ReleaseSection
  /\ Goto(t, IF HasWaiter(k, Sem) THEN "sched" ELSE "run")
  /\ UNCHANGED alive

Reset_ValueOnly(t, v) ==
  /\ Uses(t, "reset")
  /\ value' = v
  /\ owed' = v + Cardinality({u \in Thread : /\ pc[u] \in {"takeSched", "taken"}
                                             /\ k.error[u] = "EOK"})
  /\ Goto(t, "sched")
  /\ UNCHANGED <<k, alive>>

\* rt_sem_control(RT_IPC_CMD_RESET)
Reset(t, v) ==
  /\ Uses(t, "reset")
  /\ k' = ResumeAll(k, Sem)
  /\ value' = v
  /\ owed' = v + Cardinality({u \in Thread : /\ pc[u] \in {"takeSched", "taken"}
                                             /\ k.error[u] = "EOK"})
  /\ Goto(t, "sched")
  /\ UNCHANGED alive

\* rt_sem_detach, and rt_sem_delete: the list is looked at with interrupts
\* enabled, and then one waiter is resumed with interrupts disabled
Detach(t) ==
  /\ Uses(t, "detach")
  /\ Goto(t, "detach")
  /\ UNCHANGED <<k, value, alive, owed>>

DetachLook(t) ==
  /\ At(t, "detach")
  /\ Goto(t, IF HasWaiter(k, Sem) THEN "detachOne" ELSE "detachObject")
  /\ UNCHANGED <<k, value, alive, owed>>

\* rt_object_detach
DetachObject(t) ==
  /\ At(t, "detachObject")
  /\ alive' = FALSE
  /\ Goto(t, "run")
  /\ UNCHANGED <<k, value, owed>>

\* what stands first is taken for a thread, the list head itself if no waiter
\* is left: rt_thread_resume then stops at its assertion
DetachOne(t) ==
  /\ At(t, "detachOne")
  /\ IF HasWaiter(k, Sem)
     THEN k' = ResumeFailed(k, Head(k.wait[Sem])) /\ Goto(t, "detach")
     ELSE Goto(t, "fault") /\ UNCHANGED k
  /\ UNCHANGED <<value, alive, owed>>

\* rt_sem_init of the detached object, once nobody is inside a function of it
InitAgain(t, v) ==
  /\ Calls(t, "detach") /\ ~alive
  /\ \A u \in Thread : pc[u] \in {"run", "sched"}
  /\ alive' = TRUE
  /\ value' = v
  /\ owed' = v
  /\ UNCHANGED <<k, pc>>

DoSchedule(t) ==
  /\ \/ At(t, "sched") /\ Goto(t, "run")
     \/ At(t, "takeSched") /\ Goto(t, "taken")
  /\ k' = Schedule(k)
  /\ UNCHANGED <<value, alive, owed>>

\* a thread leaves the processor, until an interrupt handler resumes it
Pause(t) ==
  /\ Calls(t, "pause")
  /\ k' = SuspendSelf(k)
  /\ Goto(t, "sched")
  /\ UNCHANGED <<value, alive, owed>>

ChangePrio(t, u, p) ==
  /\ Calls(t, "chprio")
  /\ k' = ChangePriority(k, u, p)
  /\ UNCHANGED <<pc, value, alive, owed>>

-----------------------------------------------------------------------------
(* Interrupt handlers, each ending with the rt_schedule it asks for *)

IsrRelease ==
  /\ "isr" \in Ops /\ alive
  /\ \/ /\ HasWaiter(k, Sem)
        /\ \E woken \in {ResumeFirst(k, Sem)} : k' = Schedule(woken)
        /\ owed' = owed + 1
        /\ UNCHANGED value
     \/ /\ ~HasWaiter(k, Sem) /\ ReleaseSection
  /\ UNCHANGED <<pc, alive>>

\* rt_thread_resume, of a paused thread or of one that waits for the semaphore: the
\* take of that one fails, with the -RT_EINTR that it has set itself.  Whether an
\* rt_schedule follows is left to the handler.
IsrResume(u) ==
  /\ Suspended(k, u)
  /\ \E resumed \in {Resume(k, u)} : k' \in {resumed, Schedule(resumed)}
  /\ UNCHANGED <<pc, value, alive, owed>>

Tick == /\ k' = TickSlice(k)
        /\ UNCHANGED <<pc, value, alive, owed>>

TimerExpire(u) == /\ u \in k.timer
                  /\ k' = ThreadTimeout(k, u)
                  /\ UNCHANGED <<pc, value, alive, owed>>

-----------------------------------------------------------------------------
ThreadStep(t) ==
  \/ TakeNow(t) \/ TakeReturn(t) \/ Release(t) \/ Pause(t) \/ DoSchedule(t)
  \/ Detach(t) \/ DetachLook(t) \/ DetachOne(t)
  \/ DetachObject(t)
  \/ \E timed \in Timed : TakeWait(t, timed)
  \/ \E u \in App, p \in Prio : ChangePrio(t, u, p)
  \/ \E v \in 0..SemMax : Reset(t, v) \/ InitAgain(t, v)

Stopped == \E t \in Thread : pc[t] = "fault"

Next == /\ ~Stopped
        /\ \/ \E t \in Thread : ThreadStep(t)
           \/ IsrRelease \/ Tick
           \/ \E u \in Thread : IsrResume(u) \/ TimerExpire(u)

Spec == Init /\ [][Next]_vars

\* The device behind the interrupt goes on releasing, and the processor goes on.
FairSpec == /\ Spec
            /\ SF_vars(IsrRelease)
            /\ WF_vars(\E t \in Thread : DoSchedule(t) \/ TakeReturn(t))

-----------------------------------------------------------------------------
InTake(t) == pc[t] \in {"takeSched", "taken"}
Granted(t) == InTake(t) /\ ~Waits(k, t, Sem) /\ k.error[t] = "EOK"

TypeOK == /\ k \in Kernel
          /\ pc \in [Thread -> PC]
          /\ value \in 0..SemMax
          /\ alive \in BOOLEAN
          /\ owed \in 0..(SemMax + Cardinality(Thread))

\* a current thread that does not run is about to call rt_schedule
Leaves == Suspended(k, k.cur) => pc[k.cur] \in {"sched", "takeSched"}

\* The kernel's lists stay in order whichever way a waiter leaves, and a thread
\* queues at the semaphore exactly while it is suspended inside a take, so one
\* that timed out or was resumed is never resumed a second time.
Consistent ==
  /\ TypeOK
  /\ Orderly(k) /\ Leaves
  /\ \A t \in Thread : /\ Waits(k, t, Sem) <=> InTake(t) /\ Suspended(k, t)
                       /\ Waits(k, t, Sem) => k.error[t] = "EINTR"

\* No permit is lost or handed out twice: what was put in is stored or on its
\* way to one thread whose take will return RT_EOK.  None lies unused while a
\* thread waits (a timeout, a reset and a release each change one of the two).
PermitsAccounted ==
  /\ owed = value + Cardinality({t \in Thread : Granted(t)})
  /\ HasWaiter(k, Sem) => value = 0

\* Every waiter of a FIFO semaphore is served as long as releases keep coming.
EveryWaiterServed ==
  \A t \in Thread : Waits(k, t, Sem) ~> ~Waits(k, t, Sem)

\* The semaphore implements the abstract one.
AbsState(t) == CASE ~InTake(t)                      -> "out"
                 [] InTake(t) /\ Waits(k, t, Sem)   -> "waiting"
                 [] Granted(t)                      -> "granted"
                 [] OTHER                           -> "failed"
Abs == INSTANCE AbstractSemaphore
         WITH Caller <- Thread, MaxPermits <- SemMax, avail <- value,
              st <- [t \in Thread |-> AbsState(t)]
Implements == Abs!Spec
=============================================================================
