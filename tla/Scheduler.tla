----------------------------- MODULE Scheduler ------------------------------
(***************************************************************************)
(* Threads that create, start, suspend, resume, reprioritise and close one *)
(* another through thread.c, the tick interrupt, and the idle thread that  *)
(* reclaims the closed ones.                                               *)
(*                                                                         *)
(* A step of a thread is the code it runs between two points where an      *)
(* interrupt can come in: a section under rt_hw_interrupt_disable is one   *)
(* step, and so is a read or write made with interrupts enabled.  Only the *)
(* current thread takes steps; the tick interrupt comes in between any two *)
(* of them.  pc[t] is the place t has reached inside an API function and   *)
(* arg[t] the thread that function was called for.                         *)
(***************************************************************************)
EXTENDS SchedOps

CONSTANTS Main,       \* the main thread, current when the scheduler starts
          None,       \* no thread
          Ops,        \* the API functions the application calls
          MaxNest,    \* bound on nested rt_enter_critical
          Disciplined \* whether the application keeps the calling discipline

ASSUME SchedulerAssumption ==
  /\ Main \in Thread /\ Idle # Main /\ None \notin Thread
  /\ MaxNest \in Nat
  /\ Disciplined \in BOOLEAN

VARIABLES k, pc, arg
vars == <<k, pc, arg>>

\* where a thread is
PC == {"run",                                \* in its own code
       "sched",                              \* about to call rt_schedule
       "check", "unlink", "insert",          \* in rt_thread_resume
      "startCheck", "startUnlink", "startInsert",   \* there for rt_thread_startup
       "slept", "sleepSched", "woken",       \* in rt_thread_sleep, delay_until
       "remove", "close",                    \* in rt_thread_detach / delete
       "dequeue", "free"}                    \* in rt_defunct_execute (idle)

\* the state in which rt_system_scheduler_start leaves the system
Init ==
  /\ k = [cur |-> Main,
          stat |-> [t \in Thread |-> CASE t = Main -> "RUNNING"
                                       [] t = Idle -> "READY"
                                       [] OTHER    -> "INIT"],
          yield |-> {},
          prio |-> InitPrio,
          ready |-> [p \in Prio |-> IF p = InitPrio[Idle] THEN <<Idle>>
                                                          ELSE <<>>],
          wait |-> [o \in WaitObj |-> <<>>],
          defunct |-> <<>>,
          group |-> {InitPrio[Idle]},
          nest |-> 0,
          timer |-> {},
          error |-> [t \in Thread |-> "EOK"],
          left |-> [t \in Thread |-> Slice]]
  /\ pc = [t \in Thread |-> "run"]
  /\ arg = [t \in Thread |-> None]

-----------------------------------------------------------------------------
(* Steps *)

\* t runs its own code and may call the API function op; a disciplined thread
\* that suspended or closed itself under rt_enter_critical only unlocks
Calls(t, op) == /\ t = k.cur /\ t # Idle
                /\ pc[t] = "run"
                /\ op \in Ops
                /\ Disciplined => k.stat[t] = "RUNNING" \/ op = "critical"

\* t executes the step of an API function that starts at l
At(t, l) == t = k.cur /\ pc[t] = l

Goto(t, l) == pc' = [pc EXCEPT ![t] = l]
GotoFor(t, l, u) == Goto(t, l) /\ arg' = [arg EXCEPT ![t] = u]

\* The discipline of the workloads: no thread is operated on by two threads at
\* a time; a thread inside rt_thread_sleep, or inside an operation on another
\* thread, is left alone; and a thread that may go on in the meantime is neither
\* resumed nor, unless the scheduler is locked, closed by another one.
Busy == {arg[t] : t \in Thread}
Alone(u) == u \notin Busy /\ u \notin k.timer /\ arg[u] = None
MayResume(u) == Disciplined => Alone(u) /\ k.stat[u] \in {"SUSPEND", "CLOSE"}
MayClose(t, u) ==
  Disciplined => /\ Alone(u)
                 /\ u = t \/ k.stat[u] \in {"INIT", "SUSPEND"} \/ k.nest > 0

Create(t, u) ==
  /\ Calls(t, "create")
  /\ k.stat[u] = "FREE"
  /\ k' = InitThread(k, u, InitPrio[u])
  /\ pc' = [pc EXCEPT ![u] = "run"]
  /\ arg' = [arg EXCEPT ![u] = None]

Startup(t, u) ==
  /\ Calls(t, "startup")
  /\ k.stat[u] = "INIT"
  /\ Disciplined => Alone(u)
  /\ k' = [k EXCEPT !.stat[u] = "SUSPEND", !.yield = @ \ {u}]
  /\ GotoFor(t, "startCheck", u)

ResumeCall(t, u) ==
  /\ Calls(t, "resume")
  /\ k.stat[u] \notin {"FREE", "INIT"}
  /\ MayResume(u)
  /\ GotoFor(t, "check", u)
  /\ UNCHANGED k

\* the places of rt_thread_resume, and those of the call in rt_thread_startup,
\* which alone goes on to rt_schedule
Resumption == [check |-> "check", unlink |-> "unlink",
               insert |-> "insert", done |-> "run"]
StartingUp == [check |-> "startCheck", unlink |-> "startUnlink",
               insert |-> "startInsert", done |-> "sched"]
Resumptions == {Resumption, StartingUp}

ResumeCheck(t) ==
  /\ \E r \in Resumptions :
       /\ At(t, r.check)
       /\ IF k.stat[arg[t]] = "SUSPEND" THEN Goto(t, r.unlink) /\ UNCHANGED arg
                                        ELSE GotoFor(t, r.done, None)
  /\ UNCHANGED k

ResumeUnlinkStep(t) ==
  /\ \E r \in Resumptions : At(t, r.unlink) /\ Goto(t, r.insert)
  /\ k' = ResumeUnlink(k, arg[t])
  /\ UNCHANGED arg

ResumeInsert(t) ==
  /\ \E r \in Resumptions : At(t, r.insert) /\ GotoFor(t, r.done, None)
  /\ k' = InsertThread(k, arg[t])

\* rt_schedule, called by the application itself
ScheduleCall(t) ==
  /\ Calls(t, "schedule")
  /\ Goto(t, "sched")
  /\ UNCHANGED <<k, arg>>

YieldCall(t) ==
  /\ Calls(t, "yield")
  /\ k' = Yield(k, t)
  /\ Goto(t, "sched")
  /\ UNCHANGED arg

\* rt_thread_suspend(rt_thread_self()) followed by the rt_schedule it asks for
Suspend(t) ==
  /\ Calls(t, "suspend")
  /\ k.stat[t] = "RUNNING"
  /\ k' = SuspendSelf(k)
  /\ Goto(t, "sched")
  /\ UNCHANGED arg

\* RT_DEBUG_SCHEDULER_AVAILABLE: no sleep under rt_enter_critical
Sleep(t) ==
  /\ Calls(t, "sleep")
  /\ k.stat[t] = "RUNNING" /\ k.nest = 0
  /\ k' = StartTimer(SuspendSelf([k EXCEPT !.error[t] = "EOK"]), t)
  /\ Goto(t, "slept")
  /\ UNCHANGED arg

\* rt_thread_delay_until (one whose time is over resets thread->error only)
DelayUntil(t) ==
  /\ Calls(t, "sleep")
  /\ k.stat[t] = "RUNNING" /\ k.nest = 0
  /\ k' = StartTimer(SuspendSelf([k EXCEPT !.error[t] = "EOK"]), t)
  /\ Goto(t, "sleepSched")
  /\ UNCHANGED arg

\* thread->error = -RT_EINTR, written with interrupts enabled again
SleepMark(t) ==
  /\ At(t, "slept")
  /\ k' = [k EXCEPT !.error[t] = "EINTR"]
  /\ Goto(t, "sleepSched")
  /\ UNCHANGED arg

SleepReturn(t) ==
  /\ At(t, "woken")
  /\ k' = [k EXCEPT !.error[t] = IF @ = "ETIMEOUT" THEN "EOK" ELSE @]
  /\ Goto(t, "run")
  /\ UNCHANGED arg

DoSchedule(t) ==
  /\ \/ At(t, "sched") /\ Goto(t, "run")
     \/ At(t, "sleepSched") /\ Goto(t, "woken")
  /\ k' = Schedule(k)
  /\ UNCHANGED arg

ChangePrio(t, u, p) ==
  /\ Calls(t, "chprio")
  /\ k.stat[u] # "FREE" /\ u # Idle
  /\ Disciplined => u \notin Busy /\ p # InitPrio[Idle]
  /\ k' = ChangePriority(k, u, p)
  /\ UNCHANGED <<pc, arg>>

\* rt_thread_detach or rt_thread_delete, and the rt_schedule after it if it is
\* rt_thread_control(RT_THREAD_CTRL_CLOSE) that is called.  A thread not yet
\* started is in no list; any other one is first unlinked, in its own section.
Close(t, u) ==
  /\ Calls(t, "close")
  /\ k.stat[u] \notin {"FREE", "CLOSE"} /\ u # Idle
  /\ MayClose(t, u)
  /\ GotoFor(t, IF k.stat[u] = "INIT" THEN "close" ELSE "remove", u)
  /\ UNCHANGED k

CloseRemove_Skip(t) == At(t, "remove") /\ Goto(t, "close") /\ UNCHANGED <<k, arg>>

CloseRemove(t) ==
  /\ At(t, "remove")
  /\ k' = RemoveThread(k, arg[t])
  /\ Goto(t, "close")
  /\ UNCHANGED arg

CloseFinish(t) ==
  /\ At(t, "close")
  /\ k' = CloseThread(k, arg[t])
  /\ \E l \in {"sched", "run"} : GotoFor(t, l, None)

\* the entry function returns to _thread_exit
Exit(t) ==
  /\ Calls(t, "exit")
  /\ k.stat[t] = "RUNNING" /\ k.nest = 0
  /\ k' = CloseThread(RemoveThread(k, t), t)
  /\ Goto(t, "sched")
  /\ UNCHANGED arg

EnterCritical(t) ==
  /\ Calls(t, "critical")
  /\ k.nest < MaxNest
  /\ k' = [k EXCEPT !.nest = @ + 1]
  /\ UNCHANGED <<pc, arg>>

ExitCritical_NoSchedule(t) ==
  /\ Calls(t, "critical")
  /\ k.nest > 0
  /\ k' = [k EXCEPT !.nest = @ - 1]
  /\ UNCHANGED <<pc, arg>>

ExitCritical(t) ==
  /\ Calls(t, "critical")
  /\ k.nest > 0
  /\ k' = [k EXCEPT !.nest = @ - 1]
  /\ Goto(t, IF k.nest = 1 THEN "sched" ELSE "run")
  /\ UNCHANGED arg

\* rt_thread_defunct_dequeue looks at the list before it disables interrupts
IdlePeek ==
  /\ At(Idle, "run")
  /\ k.defunct # <<>>
  /\ GotoFor(Idle, "dequeue", Head(k.defunct))
  /\ UNCHANGED k

IdleDequeue ==
  /\ At(Idle, "dequeue")
  /\ k' = ListRemove(k, arg[Idle])
  /\ Goto(Idle, "free")
  /\ UNCHANGED arg

\* rt_object_detach, or rt_free of the stack and rt_object_delete
IdleFree ==
  /\ At(Idle, "free")
  /\ k' = [k EXCEPT !.stat[arg[Idle]] = "FREE"]
  /\ GotoFor(Idle, "run", None)

-----------------------------------------------------------------------------
(* The tick interrupt: the time slice, then the timers that have expired *)

Tick == /\ k' = TickSlice(k)
        /\ UNCHANGED <<pc, arg>>

\* rt_timer_check runs _thread_timeout of an expired timer
TimerExpire(u) == /\ u \in k.timer
                  /\ k' = ThreadTimeout(k, u)
                  /\ UNCHANGED <<pc, arg>>

-----------------------------------------------------------------------------
InApi(t) ==
  \/ ResumeCheck(t) \/ ResumeUnlinkStep(t) \/ ResumeInsert(t)
  \/ SleepMark(t) \/ SleepReturn(t) \/ DoSchedule(t)
  \/ CloseRemove(t) \/ CloseFinish(t)

CallApi(t) ==
  \/ ScheduleCall(t) \/ YieldCall(t) \/ Suspend(t) \/ Sleep(t) \/ DelayUntil(t) \/ Exit(t)
  \/ EnterCritical(t) \/ ExitCritical(t)
  \/ \E u \in App : \/ Create(t, u) \/ Startup(t, u)
                    \/ ResumeCall(t, u) \/ Close(t, u)
                    \/ \E p \in Prio : ChangePrio(t, u, p)

IdleStep == IdlePeek \/ IdleDequeue \/ IdleFree

Next == \/ \E t \in Thread : InApi(t) \/ CallApi(t)
        \/ IdleStep
        \/ Tick
        \/ \E u \in Thread : TimerExpire(u)

Spec == Init /\ [][Next]_vars

\* The tick interrupt keeps coming, and the loop of the idle thread goes on
\* whenever the processor is left to it.
FairSpec == Spec /\ WF_vars(Tick) /\ SF_vars(IdleStep)

-----------------------------------------------------------------------------
(* The inductive invariant of a disciplined application *)

TypeOK == /\ k \in Kernel
          /\ pc \in [Thread -> PC]
          /\ arg \in [Thread -> Thread \cup {None}]

\* threads that another one has unlinked in rt_thread_detach and not closed yet
Removed == {arg[t] : t \in {u \in Thread : pc[u] = "close" /\ arg[u] # u}}

\* the steps of a function called for another thread
ForIdle == {"dequeue", "free"}
ForClose == {"remove", "close"}
ForCheck == {"check", "startCheck"}
ForResume == {"unlink", "insert", "startUnlink", "startInsert"}
Working == ForCheck \cup ForResume \cup ForClose \cup ForIdle

\* arg[t] is set during these steps, which a blocked or closed thread is not at
Args == \A t \in Thread : /\ arg[t] # None <=> pc[t] \in Working
                          /\ arg[t] # None => k.stat[t] \in {"READY", "RUNNING"}

\* the idle thread reclaims closed threads, and it alone
IdleReclaims ==
  /\ k.stat[Idle] \in {"READY", "RUNNING"}
  /\ pc[Idle] \in {"run"} \cup ForIdle
  /\ \A t \in Thread : pc[t] \in ForIdle => t = Idle /\ k.stat[arg[t]] = "CLOSE"
  /\ pc[Idle] = "free" => arg[Idle] \notin DefunctSet(k)

\* a thread on its way to be resumed stays suspended
Resuming ==
  \A t \in Thread :
    /\ pc[t] \in ForCheck => k.stat[arg[t]] \in {"SUSPEND", "CLOSE", "FREE", "INIT"}
    /\ pc[t] \in ForResume => k.stat[arg[t]] = "SUSPEND"

\* a thread on its way to be closed by another one does not run meanwhile
Closing ==
  \A t \in Thread : pc[t] \in ForClose /\ arg[t] # t =>
    /\ arg[t] # k.cur /\ arg[t] # Idle
    /\ arg[arg[t]] = None
    /\ \/ k.stat[arg[t]] \in {"INIT", "SUSPEND"}
       \/ t = k.cur /\ k.nest > 0 /\ k.stat[arg[t]] = "READY"

\* no two threads have the same one in hand, but for a closed thread that the
\* idle thread reclaims while another is about to find that it is closed
OneHand ==
  \A t \in Thread \ {Idle}, s \in Thread : t # s /\ arg[t] # None /\ arg[s] = arg[t] =>
    s = Idle /\ pc[t] \in ForCheck /\ k.stat[arg[t]] = "CLOSE"

\* a running timer is that of a suspended thread that is in no one's hands
Timers == \A u \in k.timer : k.stat[u] = "SUSPEND" /\ \A t \in Thread : arg[t] # u

\* The ready lists, the bitmap and the states agree with one another and with
\* the place every thread has reached in the functions that change them in more
\* than one section (rt_thread_resume, rt_thread_detach, rt_defunct_execute).
Consistent ==
  /\ TypeOK
  /\ QueueInv(k, Removed)
  /\ WaitSet(k) = {}
  /\ Args /\ IdleReclaims /\ Resuming /\ Closing /\ OneHand /\ Timers

-----------------------------------------------------------------------------
(* Properties *)

\* A ready list holds exactly the READY threads of its priority, so the
\* scheduler neither loses a thread nor runs one that is blocked or closed
\* (rt_schedule_insert_thread and rt_schedule_remove_thread against every
\* caller that changes stat or current_priority).
ReadyExact ==
  \A p \in Prio : \A t \in Thread :
    t \in ToSet(k.ready[p])
      <=> /\ k.stat[t] = "READY" /\ k.prio[t] = p
          /\ t \notin Removed

\* rt_thread_ready_priority_group has a bit for exactly the lists that are not
\* empty: rt_schedule takes the head of the list of the highest bit without
\* looking whether there is one.
BitmapExact == k.group = {p \in Prio : k.ready[p] # <<>>}

\* The one list node of a thread is linked once: no list holds a thread twice,
\* and no thread is both ready and defunct.
LinkedOnce ==
  /\ \A p \in Prio : IsInjective(k.ready[p])
  /\ IsInjective(k.defunct)
  /\ ReadySet(k) \cap DefunctSet(k) = {}

\* Only the current thread is RUNNING and it is in no ready list, at any point
\* where an interrupt can come in.
CurrentUnlinked ==
  /\ k.cur \notin ReadySet(k)
  /\ \A t \in Thread : k.stat[t] = "RUNNING" => t = k.cur

\* The assertion of _thread_timeout: the timer of a thread only expires while
\* the thread is suspended, because whoever wakes it stops the timer first.
TimerOnlyWhenSuspended == \A t \in k.timer : k.stat[t] = "SUSPEND"

\* A closed thread is in no ready list ("The thread object will be removed from
\* thread queue and detached/deleted from the system object management").
ClosedNotReady == \A t \in ReadySet(k) : k.stat[t] # "CLOSE"

\* the places from which a thread goes straight on to rt_schedule
ToSchedule == {"sched", "slept", "sleepSched"} \cup
              {"startCheck", "startUnlink", "startInsert"}

\* the current thread, unless on its way to rt_schedule, runs and is a most urgent one
HighestHere ==
  (k.nest = 0 /\ pc[k.cur] \notin ToSchedule) =>
    /\ k.stat[k.cur] = "RUNNING"
    /\ \A t \in ReadySet(k) : k.prio[k.cur] <= k.prio[t]

\* the functions that leave the switch to their caller
Reprioritise == \E t, u \in Thread, p \in Prio : ChangePrio(t, u, p)
ResumeOnly == \E t \in Thread : ResumeInsert(t) /\ pc'[t] = "run"
DetachOnly == \E t \in Thread : CloseFinish(t) /\ pc'[t] = "run"
LeftToCaller == Reprioritise \/ ResumeOnly \/ DetachOnly

\* the steps that call rt_schedule
Reschedule == \/ \E t \in Thread : DoSchedule(t) \/ TimerExpire(t)
              \/ Tick /\ k.left[k.cur] = 1

\* Whenever the scheduler is not locked and the current thread is not on its way
\* to rt_schedule, no ready thread is more urgent.  Only the three functions that
\* leave it to their caller to reschedule (a change of priority, a plain
\* rt_thread_resume, a plain rt_thread_detach) put an end to it, and whatever they
\* left undone, the next rt_schedule makes up for: a call, the end of a time slice
\* or a thread timer.
HighestRuns ==
  /\ HighestHere
  /\ [][HighestHere \/ Reschedule => HighestHere' \/ LeftToCaller]_vars

\* A closed thread that has left the processor never gets it back, until it is
\* created anew.
ClosedNeverRuns ==
  [][\A t \in Thread : k.stat[t] = "CLOSE" /\ k.cur # t => k'.cur # t]_vars

\* A thread put back because a more urgent one came in, while ticks of its time
\* slice are left, is at the head of its list: it goes on before its equals ("there
\* are some time slices left, inserting thread after ready list to schedule it
\* firstly at next time").
SliceOver == k.cur \in k.yield \/ (Tick /\ k.left[k.cur] = 1)
PreemptedGoesFirst ==
  [][(/\ k'.cur # k.cur /\ k'.stat[k.cur] = "READY"
      /\ k'.prio[k'.cur] < k.prio[k.cur]
      /\ ~SliceOver) =>
        Head(k'.ready[k.prio[k.cur]]) = k.cur]_vars

\* The time slice ends every turn: no thread keeps the processor while an equal
\* is ready (the tick, the YIELD bit and the choice of rt_schedule together),
\* even if the slice ends under rt_enter_critical, as long as no thread stays
\* there for ever.
HasReadyPeer(t) == \E u \in Thread : k.stat[u] = "READY" /\ k.prio[u] = k.prio[t]
TurnsEnd ==
  []<>(k.nest = 0) =>
    \A t \in App :
      k.cur = t /\ HasReadyPeer(t) ~> k.cur # t \/ ~HasReadyPeer(t)

\* Equals take turns: a ready thread gets its turn if nothing more urgent is
\* ready (a thread whose slice is over is to be put behind its equals).
Runnable == {t \in Thread : k.stat[t] \in {"READY", "RUNNING"}}
TopReady(t) == /\ k.stat[t] = "READY"
               /\ \A u \in Runnable : k.prio[t] <= k.prio[u]
EveryoneGetsATurn == \A t \in Thread : TopReady(t) ~> ~TopReady(t)

\* If the application leaves the processor to the idle thread again and again,
\* and at some time creates no more threads, every closed thread is reclaimed.
\* (The list of defunct threads is a stack: threads that are created and closed
\* again and again are reclaimed before one that was closed earlier.)
Creating == \E t, u \in Thread : Create(t, u)
ClosedReclaimed ==
  []<>(k.cur = Idle) /\ <>[][~Creating]_vars =>
    \A t \in App : k.stat[t] = "CLOSE" ~> k.stat[t] = "FREE"
=============================================================================
