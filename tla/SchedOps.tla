------------------------------ MODULE SchedOps ------------------------------
(***************************************************************************)
(* The uniprocessor scheduler of the kernel (rt-thread/src/scheduler_up.c) *)
(* and the thread primitives built on it (thread.c, idle.c), as operators  *)
(* on a kernel record k.  One operator is one C function executed with     *)
(* interrupts disabled; a caller that holds the interrupt lock over several *)
(* calls composes them.  The fields of k are                               *)
(*                                                                         *)
(*   cur      rt_current_thread                                            *)
(*   stat     thread->stat & RT_THREAD_STAT_MASK                           *)
(*   yield    the threads whose RT_THREAD_STAT_YIELD bit is set            *)
(*   prio     thread->current_priority (0 is the highest)                  *)
(*   ready    rt_thread_priority_table, the head of a list first           *)
(*   wait     the suspend list of each IPC object                          *)
(*   defunct  _rt_thread_defunct                                           *)
(*   group    the bits set in rt_thread_ready_priority_group               *)
(*   nest     rt_scheduler_lock_nest                                       *)
(*   timer    the threads whose thread_timer is started                    *)
(*   error    thread->error                                                *)
(*   left     thread->remaining_tick                                       *)
(*                                                                         *)
(* A thread has a single list node, tlist.  rt_list_remove unlinks it from *)
(* whatever list holds it; rt_list_insert_* does not unlink first, so a    *)
(* thread inserted while still linked is in two lists here, as the broken  *)
(* links of the two lists are in the code.                                 *)
(***************************************************************************)
EXTENDS Lists

CONSTANTS Thread,     \* the threads of the system
          Prio,       \* the priorities in use
          WaitObj,    \* the IPC objects with a suspend list
          Slice,      \* init_tick, the length of a time slice in ticks
          Idle,       \* the idle thread
          InitPrio    \* init_priority of each thread

ASSUME PrioAssumption == Prio \subseteq Nat
ASSUME SliceAssumption == Slice \in Nat \ {0}
ASSUME ThreadAssumption == Idle \in Thread /\ InitPrio \in [Thread -> Prio]

App == Thread \ {Idle}

Stat == {"FREE", "INIT", "READY", "RUNNING", "SUSPEND", "CLOSE"}
Error == {"EOK", "ETIMEOUT", "EINTR", "ERROR"}

Kernel == [cur : Thread,
           stat : [Thread -> Stat],
           yield : SUBSET Thread,
           prio : [Thread -> Prio],
           ready : [Prio -> Seq(Thread)],
           wait : [WaitObj -> Seq(Thread)],
           defunct : Seq(Thread),
           group : SUBSET Prio,
           nest : Nat,
           timer : SUBSET Thread,
           error : [Thread -> Error],
           left : [Thread -> 1..Slice]]

-----------------------------------------------------------------------------
(* Lists *)

\* rt_list_remove(&thread->tlist), whichever list holds the node
ListRemove(k, t) ==
  [k EXCEPT !.ready = [p \in Prio |-> Unlink(k.ready[p], t)],
            !.wait = [o \in WaitObj |-> Unlink(k.wait[o], t)],
            !.defunct = Unlink(k.defunct, t)]

\* the lists, as sets of threads
ReadySet(k) == UNION {ToSet(k.ready[p]) : p \in Prio}
WaitSet(k) == UNION {ToSet(k.wait[o]) : o \in WaitObj}
DefunctSet(k) == ToSet(k.defunct)

-----------------------------------------------------------------------------
(* scheduler_up.c *)

\* (mutated forms of a definition, which a run must reject, stand before it)
InsertThread_TailAlways(k, t) ==
  IF t = k.cur
  THEN [k EXCEPT !.stat[t] = "RUNNING"]
  ELSE [k EXCEPT !.stat[t] = "READY",
                 !.ready[k.prio[t]] = Append(@, t),
                 !.group = @ \cup {k.prio[t]}]

\* rt_schedule_insert_thread: the current thread only becomes RUNNING again;
\* a thread with the YIELD bit goes to the tail of its ready list, any other
\* to the head
InsertThread(k, t) ==
  IF t = k.cur
  THEN [k EXCEPT !.stat[t] = "RUNNING"]
  ELSE [k EXCEPT !.stat[t] = "READY",
                 !.ready[k.prio[t]] = IF t \in k.yield THEN Append(@, t)
                                                       ELSE Cons(t, @),
                 !.group = @ \cup {k.prio[t]}]

\* rt_schedule_remove_thread: unlink, and clear the bit of an empty list
RemoveThread(k, t) ==
  LET u == ListRemove(k, t)
  IN IF u.ready[k.prio[t]] = <<>>
     THEN [u EXCEPT !.group = @ \ {k.prio[t]}]
     ELSE u

\* _scheduler_get_highest_priority_thread
HighestPrio(k) == Min(k.group)
HighestThread(k) == Head(k.ready[HighestPrio(k)])

PickThread_NoTurns(k) ==
  IF k.stat[k.cur] = "RUNNING" /\ k.prio[k.cur] <= HighestPrio(k)
  THEN k.cur
  ELSE HighestThread(k)

\* the thread rt_schedule picks: the current one keeps the processor when it
\* runs and nothing more urgent is ready; a thread as urgent counts as more
\* urgent once the YIELD bit says that the time slice is over
PickThread(k) ==
  IF /\ k.stat[k.cur] = "RUNNING"
     /\ \/ k.prio[k.cur] < HighestPrio(k)
        \/ k.prio[k.cur] = HighestPrio(k) /\ k.cur \notin k.yield
  THEN k.cur
  ELSE HighestThread(k)

\* the switch to another thread; the YIELD bit of a running thread has been
\* cleared by the time it is put back
SwitchTo(k, to) ==
  LET running == k.stat[k.cur] = "RUNNING"
      from    == [k EXCEPT !.yield = IF running THEN @ \ {k.cur} ELSE @,
                           !.cur = to]
      queued  == IF running THEN InsertThread(from, k.cur) ELSE from
  IN [RemoveThread(queued, to) EXCEPT !.stat[to] = "RUNNING"]

\* rt_schedule
Schedule(k) ==
  IF k.nest # 0 \/ k.group = {} THEN k
  ELSE IF PickThread(k) # k.cur THEN SwitchTo(k, PickThread(k))
  ELSE [RemoveThread(k, k.cur) EXCEPT !.yield = @ \ {k.cur},
                                      !.stat[k.cur] = "RUNNING"]

-----------------------------------------------------------------------------
(* thread.c and idle.c *)

\* rt_thread_suspend_with_flag of the current thread, which is RUNNING
SuspendSelf(k) ==
  [RemoveThread(k, k.cur) EXCEPT !.stat[k.cur] = "SUSPEND",
                                 !.timer = @ \ {k.cur}]

\* the part of rt_thread_resume before the insertion
ResumeUnlink(k, t) == [ListRemove(k, t) EXCEPT !.timer = @ \ {t}]

\* rt_thread_resume as a caller with interrupts disabled sees it
Resume(k, t) ==
  IF k.stat[t] = "SUSPEND" THEN InsertThread(ResumeUnlink(k, t), t) ELSE k

\* rt_timer_start of the thread's own timer
StartTimer(k, t) == [k EXCEPT !.timer = @ \cup {t}]

ThreadTimeout_StillStarted(k, t) ==
  Schedule(InsertThread([ListRemove(k, t) EXCEPT !.error[t] = "ETIMEOUT"], t))

ThreadTimeout_KeepLinks(k, t) ==
  Schedule(InsertThread([k EXCEPT !.timer = @ \ {t}, !.error[t] = "ETIMEOUT"], t))

ThreadTimeout_NoError(k, t) ==
  Schedule(InsertThread([ListRemove(k, t) EXCEPT !.timer = @ \ {t}], t))

\* _thread_timeout, called by rt_timer_check for an expired one-shot timer
ThreadTimeout(k, t) ==
  LET expired == [ListRemove(k, t) EXCEPT !.timer = @ \ {t},
                                          !.error[t] = "ETIMEOUT"]
  IN Schedule(InsertThread(expired, t))

\* rt_thread_control(RT_THREAD_CTRL_CHANGE_PRIORITY)
ChangePriority(k, t, p) ==
  IF k.stat[t] = "READY"
  THEN InsertThread([RemoveThread(k, t) EXCEPT !.prio[t] = p], t)
  ELSE [k EXCEPT !.prio[t] = p]

CloseThread_NoEnqueue(k, t) ==
  [k EXCEPT !.timer = @ \ {t}, !.stat[t] = "CLOSE", !.yield = @ \ {t}]

\* the closing half of rt_thread_detach, rt_thread_delete and _thread_exit:
\* stop the timer and hand the thread to the idle thread
CloseThread(k, t) ==
  [k EXCEPT !.timer = @ \ {t},
            !.stat[t] = "CLOSE",
            !.yield = @ \ {t},
            !.defunct = Cons(t, @)]

\* the state that _thread_init gives a thread (back)
InitThread(k, t, p) ==
  [k EXCEPT !.stat[t] = "INIT",
            !.yield = @ \ {t},
            !.prio[t] = p,
            !.error[t] = "EOK",
            !.left[t] = Slice]

\* the part of rt_thread_yield before its rt_schedule
Yield(k, t) == [k EXCEPT !.left[t] = Slice, !.yield = @ \cup {t}]

\* the time slice of the current thread in rt_tick_increase: one tick less, and
\* at the end of the slice a fresh one, the YIELD bit and a reschedule
TickSlice(k) ==
  IF k.left[k.cur] > 1
  THEN [k EXCEPT !.left[k.cur] = @ - 1]
  ELSE Schedule(Yield(k, k.cur))

-----------------------------------------------------------------------------
(* What the lists and the bitmap mean.  R is a set of threads that           *)
(* rt_thread_detach has unlinked but not yet marked as closed.               *)

\* a ready list holds exactly the READY threads of its priority
ReadyLists(k, R) ==
  \A p \in Prio : \A t \in Thread :
    t \in ToSet(k.ready[p])
      <=> k.stat[t] = "READY" /\ k.prio[t] = p /\ t \notin R

\* a bit for exactly the lists that are not empty
Bitmap(k) == k.group = {p \in Prio : k.ready[p] # <<>>}

\* no list holds a thread twice
NoRepeats(k) == /\ \A p \in Prio : IsInjective(k.ready[p])
                /\ \A o \in WaitObj : IsInjective(k.wait[o])
                /\ IsInjective(k.defunct)

\* at most the current thread is RUNNING, and it is in no ready list
OneRunning(k) == /\ \A t \in Thread : k.stat[t] = "RUNNING" => t = k.cur
                 /\ k.stat[k.cur] # "READY"

\* the threads of a suspend list are suspended, the defunct ones closed
OtherLists(k) == /\ \A t \in WaitSet(k) : k.stat[t] = "SUSPEND"
                 /\ \A t \in DefunctSet(k) : k.stat[t] = "CLOSE"

QueueLists(k, R) == /\ k \in Kernel
                    /\ ReadyLists(k, R)
                    /\ Bitmap(k)
                    /\ NoRepeats(k)
                    /\ OtherLists(k)

QueueInv(k, R) == QueueLists(k, R) /\ OneRunning(k)
=============================================================================
