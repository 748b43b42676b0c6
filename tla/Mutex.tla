------------------------------- MODULE Mutex --------------------------------
(***************************************************************************)
(* Threads that share the mutexes of ipc.c, with priority inheritance and  *)
(* priority ceilings, and a semaphore they also wait for.                  *)
(***************************************************************************)
EXTENDS MutexOps

CONSTANTS Ops,        \* the functions called
          Timed,      \* the timeouts used: TRUE is a finite one, FALSE forever
          Ceilings,   \* the ceilings set, each a mutex and a priority
          Nested      \* whether a thread that owns a mutex waits for something else

ASSUME OneSemaphore == \E o \in WaitObj : WaitObj \ Mutex = {o}

VARIABLES s, pc,
          arg,        \* the mutex each thread is taking, or the thread it closes
          value,      \* of the semaphore
          live        \* the mutexes that are initialised
vars == <<s, pc, arg, value, live>>

Sem == CHOOSE o \in WaitObj : o \notin Mutex

PC == {"run", "sched",                \* rt_schedule still to be called
       "takeSched", "taken",          \* in rt_mutex_take
       "semSched", "semTaken",        \* in rt_sem_take
       "close"}                       \* in rt_thread_detach

Init == /\ s = [k |-> StartedKernel,
                owner |-> [m \in Mutex |-> None],
                hold |-> [m \in Mutex |-> 0],
                urgency |-> [m \in Mutex |-> Lowest],
                ceiling |-> [m \in Mutex |-> Lowest],
                taken |-> [t \in Thread |-> {}],
                pending |-> [t \in Thread |-> None],
                fault |-> FALSE]
        /\ pc = [t \in Thread |-> "run"]
        /\ arg = [t \in Thread |-> None]
        /\ value = 0
        /\ live = Mutex

-----------------------------------------------------------------------------
At(t, l) == t = s.k.cur /\ pc[t] = l
Goto(t, l) == pc' = [pc EXCEPT ![t] = l] /\ UNCHANGED live
Aim(t, x) == arg' = [arg EXCEPT ![t] = x]
Calls(t, op) == At(t, "run") /\ t # Idle /\ op \in Ops

\* owned already: one more level, up to the limit (-RT_EFULL changes only error)
TakeAgain(t, m) ==
  /\ Calls(t, "take") /\ m \in live
  /\ s.owner[m] = t
  /\ s' = [s EXCEPT !.k.error[t] = "EOK",
                    !.hold[m] = IF @ < HoldMax THEN @ + 1 ELSE @]
  /\ UNCHANGED <<pc, arg, value, live>>

TakeFree(t, m) ==
  /\ Calls(t, "take") /\ m \in live
  /\ s.owner[m] = None
  /\ Nested \/ \A x \in Mutex : s.owner[x] # t
  /\ s' = Grab(s, t, m)
  /\ UNCHANGED <<pc, arg, value, live>>

\* timeout 0
TakeRefused(t, m) ==
  /\ Calls(t, "trytake") /\ m \in live
  /\ s.owner[m] \notin {None, t}
  /\ s' = [s EXCEPT !.k.error[t] = "ETIMEOUT"]
  /\ UNCHANGED <<pc, arg, value, live>>

TakeWait(t, m, timed) ==
  /\ Calls(t, "take") /\ m \in live
  /\ s.owner[m] \notin {None, t}
  /\ Nested \/ \A x \in Mutex : s.owner[x] # t
  /\ s' = Join(s, t, m, timed)
  /\ Goto(t, "takeSched")
  /\ Aim(t, m)
  /\ UNCHANGED value

TakeDone(t) ==
  /\ At(t, "taken")
  /\ s.k.error[t] = "EOK"
  /\ Goto(t, "run")
  /\ Aim(t, None)
  /\ UNCHANGED <<s, value>>

\* The owner is read whether there is one or not.  What stands at the null
\* pointer may or may not look like the priority of t.
TakeFailed(t) ==
  /\ At(t, "taken")
  /\ s.k.error[t] # "EOK"
  /\ \/ s.owner[arg[t]] # None /\ s' = Leave(s, t, arg[t])
     \/ s.owner[arg[t]] = None /\ s' = Refresh(s, arg[t])
     \/ s.owner[arg[t]] = None /\ s' = [s EXCEPT !.fault = TRUE]
  /\ Goto(t, "run")
  /\ Aim(t, None)
  /\ UNCHANGED value

ReleaseOwned(t, m) ==
  /\ Calls(t, "release") /\ m \in live
  /\ s.owner[m] = t
  /\ s' = Release(s, t, m)
  /\ Goto(t, IF ReleaseSchedules(s, t, m) THEN "sched" ELSE "run")
  /\ UNCHANGED <<arg, value>>

ReleaseForeign(t, m) ==
  /\ Calls(t, "trytake") /\ m \in live
  /\ s.owner[m] # t
  /\ s' = [s EXCEPT !.k.error[t] = "ERROR"]
  /\ UNCHANGED <<pc, arg, value, live>>

Ceil(t, m, c) ==
  /\ Calls(t, "ceiling") /\ m \in live /\ <<m, c>> \in Ceilings
  /\ s' = SetCeiling(s, m, c)
  /\ UNCHANGED <<pc, arg, value, live>>

\* by its owner, or while it has none
Detach(t, m) ==
  /\ Calls(t, "detach") /\ m \in live
  /\ s.owner[m] \in {t, None}
  /\ s' = DetachMutex(s, m)
  /\ live' = live \ {m}
  /\ UNCHANGED <<pc, arg, value>>

\* once no thread is in a function of the mutex any more
InitAgain(t, m) ==
  /\ Calls(t, "detach") /\ m \notin live
  /\ \A u \in Thread : arg[u] # m
  /\ s' = InitMutex(s, m)
  /\ live' = live \cup {m}
  /\ UNCHANGED <<pc, arg, value>>

\* rt_thread_detach of a thread u that waits for ever, in two sections, and the
\* rt_schedule after it if it is rt_thread_control(RT_THREAD_CTRL_CLOSE) that is called.
\* A thread that owns a mutex is not closed: the code would leave the mutex to it.
Close(t, u) ==
  /\ Calls(t, "close")
  /\ Suspended(s.k, u) /\ u \notin s.k.timer /\ s.taken[u] = {}
  /\ \A v \in Thread : arg[v] # u
  /\ s' = [s EXCEPT !.k = RemoveThread(s.k, u)]
  /\ Goto(t, "close")
  /\ Aim(t, u)
  /\ UNCHANGED value

Shut(x, u) == [x EXCEPT !.k = CloseThread(@, u)]

\* Again the owner is read whether there is one or not.
CloseDrop(t) ==
  /\ At(t, "close")
  /\ LET u == arg[t]
         m == s.pending[u]
         n == [s EXCEPT !.pending[u] = None]
     IN \/ /\ \/ m = None /\ s' = Shut(s, u)
              \/ m # None /\ s.owner[m] # None /\ s' = Shut(DropThread(n, m, u), u)
              \/ /\ m # None /\ s.owner[m] = None
                 /\ s' = Shut(Refresh([n EXCEPT !.k = ListRemove(@, u)], m), u)
           /\ \E l \in {"sched", "run"} : Goto(t, l)
           /\ arg' = [arg EXCEPT ![t] = None, ![u] = None]
        \/ /\ m # None /\ s.owner[m] = None
           /\ s' = [s EXCEPT !.fault = TRUE]
           /\ UNCHANGED <<pc, arg, live>>
  /\ UNCHANGED value

DoSchedule(t) ==
  /\ \/ At(t, "sched") /\ Goto(t, "run")
     \/ At(t, "takeSched") /\ Goto(t, "taken")
     \/ At(t, "semSched") /\ Goto(t, "semTaken")
  /\ s' = [s EXCEPT !.k = Schedule(s.k)]
  /\ UNCHANGED <<arg, value>>

\* rt_sem_take, for ever
SemTake(t) ==
  /\ Calls(t, "sem")
  /\ \/ value > 0 /\ value' = value - 1 /\ UNCHANGED <<s, pc>>
     \/ /\ value = 0
        /\ Nested \/ \A x \in Mutex : s.owner[x] # t
        /\ s' = [s EXCEPT !.k = SuspendOn([s.k EXCEPT !.error[t] = "EINTR"], Sem)]
        /\ pc' = [pc EXCEPT ![t] = "semSched"]
        /\ UNCHANGED value
  /\ UNCHANGED <<arg, live>>

SemReturn(t) == At(t, "semTaken") /\ Goto(t, "run") /\ UNCHANGED <<s, arg, value>>

-----------------------------------------------------------------------------
(* Interrupt handlers *)

IsrSemRelease ==
  /\ "sem" \in Ops
  /\ \/ /\ HasWaiter(s.k, Sem)
        /\ \E woken \in {ResumeFirst(s.k, Sem)} : s' = [s EXCEPT !.k = Schedule(woken)]
        /\ UNCHANGED value
     \/ /\ ~HasWaiter(s.k, Sem) /\ value = 0
        /\ value' = 1
        /\ UNCHANGED s
  /\ UNCHANGED <<pc, arg, live>>

Tick == /\ s' = [s EXCEPT !.k = TickSlice(s.k)]
        /\ UNCHANGED <<pc, arg, value, live>>

TimerExpire(u) == /\ u \in s.k.timer
                  /\ s' = [s EXCEPT !.k = ThreadTimeout(s.k, u)]
                  /\ UNCHANGED <<pc, arg, value, live>>

-----------------------------------------------------------------------------
ThreadStep(t) ==
  \/ TakeDone(t) \/ TakeFailed(t) \/ DoSchedule(t) \/ SemTake(t) \/ SemReturn(t)
  \/ CloseDrop(t)
  \/ \E u \in App \ {t} : Close(t, u)
  \/ \E m \in Mutex :
       \/ TakeAgain(t, m) \/ TakeFree(t, m) \/ TakeRefused(t, m)
       \/ ReleaseOwned(t, m) \/ ReleaseForeign(t, m)
       \/ Detach(t, m) \/ InitAgain(t, m)
       \/ \E timed \in Timed : TakeWait(t, m, timed)
       \/ \E c \in Prio : Ceil(t, m, c)

Next == /\ ~s.fault
        /\ \/ \E t \in Thread : ThreadStep(t)
           \/ IsrSemRelease \/ Tick
           \/ \E u \in Thread : TimerExpire(u)

Spec == Init /\ [][Next]_vars

\* Threads finish the functions they are in, an owner that runs again and again
\* lets go, and the device behind the interrupt goes on releasing the semaphore.
FairSpec ==
  /\ Spec
  /\ WF_vars(IsrSemRelease)
  /\ \A t \in App : /\ WF_vars(DoSchedule(t) \/ TakeDone(t) \/ SemReturn(t))
                    /\ SF_vars(\E m \in Mutex : ReleaseOwned(t, m))

-----------------------------------------------------------------------------
TypeOK == /\ s \in MutexState
          /\ pc \in [Thread -> PC]
          /\ arg \in [Thread -> Mutex \cup Thread \cup {None}]
          /\ value \in {0, 1}
          /\ live \subseteq Mutex

InTake(t) == pc[t] \in {"takeSched", "taken"}
InSem(t) == pc[t] \in {"semSched", "semTaken"}
Closed == {t \in Thread : s.k.stat[t] = "CLOSE"}
Failing(t) == InTake(t) /\ ~Suspended(s.k, t) /\ s.k.error[t] # "EOK"
Closing(t) == \E u \in Thread : pc[u] = "close" /\ arg[u] = t

\* what the function a thread is in may wait for
Goal(t) == IF InTake(t) THEN arg[t] ELSE IF InSem(t) THEN Sem ELSE None

\* A thread that suspends itself goes on to rt_schedule.
Leaves == Suspended(s.k, s.k.cur) => pc[s.k.cur] \in {"takeSched", "semSched"}

\* A thread is in a suspend list exactly while it is suspended, and in that of
\* the object it called for, unless it is being closed.
InPlace ==
  \A t \in Thread :
    /\ InTake(t) => IF t \in Closed THEN arg[t] = None ELSE arg[t] \in Mutex
    /\ Suspended(s.k, t) => InTake(t) \/ InSem(t)
    /\ \A o \in WaitObj : Waits(s.k, t, o) <=> /\ Suspended(s.k, t) /\ ~Closing(t)
                                              /\ Goal(t) = o

\* A thread that waits has somebody else to wait for: no hand-over is lost.
HasOwner ==
  \A t \in Thread, m \in Mutex :
    Waits(s.k, t, m) => m \in live /\ s.pending[t] = m /\ s.owner[m] \notin {None, t}

\* A thread between the two sections of its detach stays where it is.
BeingClosed ==
  \A t \in Thread :
    pc[t] = "close" => /\ arg[t] \in Thread \ {t}
                       /\ Suspended(s.k, arg[t]) /\ arg[t] \notin s.k.timer
                       /\ s.taken[arg[t]] = {}
                       /\ \A u \in Thread : arg[u] = arg[t] => u = t

\* A mutex is on the list of its owner and on no other, and counts its holds.
Owned ==
  \A m \in Mutex :
    /\ \A t \in Thread : m \in s.taken[t] <=> m \in live /\ s.owner[m] = t
    /\ m \in live => (s.hold[m] > 0 <=> s.owner[m] # None)
    /\ s.owner[m] \notin Closed
    /\ s.owner[m] # None /\ ~Nested => ~Suspended(s.k, s.owner[m])

\* The thread->pending_object of a thread that owns mutexes is not out of date.
PendingWaits ==
  Nested => /\ s.k.timer = {} /\ live = Mutex
            /\ \A t \in Thread : s.pending[t] # None
                                   => Waits(s.k, t, s.pending[t]) \/ Closing(t)

\* A thread that was woken without an error is the owner.
WokenOwns ==
  \A t \in Thread :
    (InTake(t) /\ ~Suspended(s.k, t) /\ t \notin Closed /\ s.k.error[t] = "EOK")
      => s.owner[arg[t]] = t

\* The kernel's lists stay in order through every change of a priority, and the
\* lists of waiters, the owners and the functions the threads are in agree.
Consistent ==
  /\ TypeOK
  /\ InOrder(s.k, Closed)
  /\ Leaves /\ InPlace /\ HasOwner /\ BeingClosed /\ Owned /\ PendingWaits /\ WokenOwns

\* A take that returned RT_EOK made the caller the owner.
SuccessOwns ==
  \A t \in Thread :
    (/\ pc[t] = "taken" /\ ~Suspended(s.k, t)
     /\ s.k.error[t] = "EOK" /\ arg[t] \in live) => s.owner[arg[t]] = t

\* Priority inheritance: no owner is less urgent than a thread that waits for
\* it, along chains of owners that wait themselves.
Inherits ==
  \A m \in live, t \in Thread :
    Waits(s.k, t, m) => s.k.prio[s.owner[m]] <= s.k.prio[t]

\* Nor is a thread more urgent than its own priority and what it owns call for, once the
\* takes that fail and the threads that are closed have been seen to the end.  (After
\* timeouts, a detach or overlapping closes the code may keep a boost: see the README.)
CalledFor(t) ==
  Min({InitPrio[t]} \cup {FirstUrgency(s.k, m) : m \in s.taken[t]}
                    \cup {s.ceiling[m] : m \in s.taken[t]})
GivesBack ==
  (\A t \in Thread : ~Failing(t) /\ ~Closing(t)) =>
     \A t \in Thread : s.k.prio[t] >= CalledFor(t)

\* A take that fails returns (it does not read the priority of no owner).
NoFault == ~s.fault

\* The most urgent thread gets the mutex it waits for, whatever less urgent
\* threads do with the processor.
MostUrgent(t) == \A u \in Thread \ {t} : InitPrio[t] < InitPrio[u]
NoInversion ==
  \A t \in App, m \in Mutex : MostUrgent(t) /\ Waits(s.k, t, m) ~> ~Waits(s.k, t, m)

\* A mutex implements the abstract one.
AnyMutex == CHOOSE m \in Mutex : TRUE
Abs == INSTANCE AbstractMutex
         WITH Caller <- Thread, Nobody <- None, MaxDepth <- HoldMax,
              owner <- s.owner[AnyMutex], depth <- s.hold[AnyMutex],
              waiting <- ToSet(s.k.wait[AnyMutex]), open <- AnyMutex \in live
Implements == Abs!Spec
=============================================================================
