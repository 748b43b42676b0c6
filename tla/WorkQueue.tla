----------------------------- MODULE WorkQueue -----------------------------
(***************************************************************************)
(* A work queue (rt-thread/components/drivers/ipc/workqueue.c): its thread *)
(* runs the submitted works one after the other, threads submit works at   *)
(* once or after a delay and cancel them, and the soft timer of a delayed  *)
(* work moves it to the works to run.  The callers and the work thread may *)
(* preempt one another wherever interrupts are enabled, and the timer      *)
(* thread, the most urgent one, preempts them all.                         *)
(***************************************************************************)
EXTENDS Lists

CONSTANTS Work, Client,
          Worker,     \* the work_thread
          Null

ASSUME WorkQueueAssumption == Null \notin Work /\ Worker \notin Client

Actor == Client \cup {Worker}

VARIABLES q,          \* the queue and its works
          pc, arg,    \* where each actor is, and with which work
          sem,        \* the value of the semaphore
          due,        \* works submitted, and not started or cancelled since, nor
                      \* dropped because their delay ended while they executed (history)
          watched     \* clients that found their work executing, until that
                      \* execution ends (history)
vars == <<q, pc, arg, sem, due, watched>>

PC == {"run", "start", "cancel", "wait", "waits",  \* a client; "start" the worker too
       "loop", "suspended", "func", "clear", "complete", "none",  \* the worker
       "fault"}                                 \* in a failed assertion

\* submitting is a flag of the works (the flag pending is never read), of the works
\* with a workqueue; a timer is initialised with the flag and detached with it
InitQueue == [work |-> <<>>, delayed |-> <<>>, current |-> Null,
              submitting |-> {}, of |-> {}, armed |-> {}]

Init == /\ q = InitQueue
        /\ pc = [a \in Actor |-> IF a = Worker THEN "loop" ELSE "run"]
        /\ arg = [a \in Actor |-> Null]
        /\ sem = 0
        /\ due = {} /\ watched = {}

-----------------------------------------------------------------------------
(* The sections of the functions, interrupts disabled *)

Listed(qq) == ToSet(qq.work) \cup ToSet(qq.delayed)

TakeOut(qq, w) == [qq EXCEPT !.work = Unlink(@, w), !.delayed = Unlink(@, w)]

SubmitNow(qq, w) == LET u == TakeOut(qq, w)
                    IN [u EXCEPT !.work = Append(@, w), !.of = @ \cup {w}]

\* rt_timer_stop of a timer in use, rt_timer_init of another
SubmitDelayed(qq, w) == LET u == TakeOut(qq, w)
                        IN [u EXCEPT !.delayed = Append(@, w), !.submitting = @ \cup {w}, !.of = @ \cup {w},
                                     !.armed = @ \ {w}]

SubmitUrgent(qq, w) == LET u == TakeOut(qq, w) IN [u EXCEPT !.work = Cons(w, @)]

CancelWork_KeepsTimer(qq, w) == [TakeOut(qq, w) EXCEPT !.submitting = @ \ {w},
                                                      !.of = @ \ {w}]
CancelWork_KeepsLink(qq, w) == [qq EXCEPT !.submitting = @ \ {w}, !.of = @ \ {w},
                                          !.armed = @ \ {w}]

\* rt_timer_stop and rt_timer_detach
CancelWork(qq, w) == LET u == TakeOut(qq, w)
                     IN [u EXCEPT !.submitting = @ \ {w},
                                  !.of = @ \ {w}, !.armed = @ \ {w}]

\* rt_workqueue_cancel_all_work
CancelListed(qq) == [qq EXCEPT !.work = <<>>, !.delayed = <<>>,
                               !.submitting = @ \ Listed(qq), !.of = @ \ Listed(qq),
                               !.armed = @ \ Listed(qq)]

\* a work that executes is put in no list
DelayOver(qq, w) == LET u == TakeOut([qq EXCEPT !.submitting = @ \ {w}, !.armed = @ \ {w}], w)
                    IN IF u.current = w THEN u
                       ELSE [u EXCEPT !.work = Append(@, w)]

\* "whether the workqueue is doing work"
Resumed(p) == IF q.current = Null /\ p[Worker] = "suspended"
              THEN [p EXCEPT ![Worker] = "loop"] ELSE p

\* who waits for the semaphore, woken all together
Woken(p) == [a \in Actor |-> IF p[a] = "waits" THEN "run" ELSE p[a]]

-----------------------------------------------------------------------------
(* What the clients call, and a work function once before it returns *)

Alive == "fault" \notin {pc[a] : a \in Actor}

Calls(a) == /\ Alive /\ pc[Worker] # "none"
            /\ pc[a] = IF a = Worker THEN "func" ELSE "run"
Returned(a) == [pc EXCEPT ![a] = IF a = Worker THEN "clear" ELSE "run"]
Goto(a, l) == pc' = [pc EXCEPT ![a] = l]
At(a, l) == Alive /\ pc[a] = l

Submit(a, w) == /\ Calls(a)
                /\ q' = SubmitNow(q, w)
                /\ pc' = Resumed(Returned(a))
                /\ due' = due \cup {w}
                /\ UNCHANGED <<arg, sem, watched>>

Urgent(a, w) == /\ Calls(a)
                /\ q' = SubmitUrgent(q, w)
                /\ pc' = Resumed(Returned(a))
                /\ due' = due \cup {w}
                /\ UNCHANGED <<arg, sem, watched>>

Delay(a, w) == /\ Calls(a)
               /\ q' = SubmitDelayed(q, w)
               /\ Goto(a, "start") /\ arg' = [arg EXCEPT ![a] = w]
               /\ due' = due \cup {w}
               /\ UNCHANGED <<sem, watched>>

\* rt_timer_start, once interrupts are enabled; of a timer that has been detached
\* since it fails an assertion
StartTimer(a) == /\ At(a, "start")
                 /\ \/ /\ arg[a] \in q.submitting
                       /\ q' = [q EXCEPT !.armed = @ \cup {arg[a]}]
                       /\ pc' = Returned(a)
                    \/ /\ arg[a] \notin q.submitting
                       /\ Goto(a, "fault") /\ UNCHANGED q
                 /\ arg' = [arg EXCEPT ![a] = Null]
                 /\ UNCHANGED <<sem, due, watched>>

Cancel(a, w) == /\ Calls(a)
                /\ q' = CancelWork(q, w)
                /\ pc' = Returned(a)
                /\ due' = due \ {w}
                /\ UNCHANGED <<arg, sem, watched>>

\* under the scheduler lock
CancelAll(a) == /\ Calls(a)
                /\ q' = CancelListed(q)
                /\ pc' = Returned(a)
                /\ due' = due \ Listed(q)
                /\ UNCHANGED <<arg, sem, watched>>

\* rt_workqueue_cancel_work_sync, which a work does not call for itself
CancelSync(c, w) == /\ Calls(c)
                    /\ \/ /\ q.current = w
                          /\ Goto(c, "wait") /\ watched' = watched \cup {c}
                          /\ UNCHANGED arg
                       \/ /\ q.current # w
                          /\ Goto(c, "cancel") /\ arg' = [arg EXCEPT ![c] = w]
                          /\ UNCHANGED watched
                    /\ UNCHANGED <<q, sem, due>>

SyncCancels(c) == /\ At(c, "cancel")
                  /\ q' = CancelWork(q, arg[c])
                  /\ Goto(c, "run") /\ arg' = [arg EXCEPT ![c] = Null]
                  /\ due' = due \ {arg[c]}
                  /\ UNCHANGED <<sem, watched>>

\* rt_sem_take
SyncWaits(c) == /\ At(c, "wait")
                /\ \/ sem > 0 /\ sem' = sem - 1 /\ Goto(c, "run")
                   \/ sem = 0 /\ Goto(c, "waits") /\ UNCHANGED sem
                /\ UNCHANGED <<q, arg, due, watched>>

\* rt_workqueue_destroy, when no other call is on the way: rt_sem_detach wakes those
\* who wait for a completion
Destroy(c) ==
  /\ Calls(c)
  /\ \A d \in Client : pc[d] \in {"run", "waits"}
  /\ q' = CancelListed(q)
  /\ pc' = [Woken(pc) EXCEPT ![Worker] = "none"]
  /\ arg' = [arg EXCEPT ![Worker] = Null]
  /\ due' = due \ Listed(q) /\ watched' = {}
  /\ UNCHANGED <<sem>>

\* rt_workqueue_create
Create == /\ pc[Worker] = "none"
          /\ q' = [q EXCEPT !.current = Null]
          /\ pc' = [pc EXCEPT ![Worker] = "loop"]
          /\ sem' = 0
          /\ UNCHANGED <<arg, due, watched>>

-----------------------------------------------------------------------------
(* _delayed_work_timeout_handler *)

\* the timer thread takes the timer out and runs the handler before any other goes on;
\* a work that the work thread has taken has no queue any more, which fails an
\* assertion; one that executes is dropped
TimerExpires(w) ==
  /\ Alive /\ w \in q.armed
  /\ \/ /\ w \in q.of
        /\ q' = DelayOver(q, w)
        /\ due' = IF q.current = w THEN due \ {w} ELSE due
        /\ pc' = Resumed(pc)
     \/ /\ w \notin q.of
        /\ Goto(Worker, "fault") /\ UNCHANGED <<q, due>>
  /\ UNCHANGED <<arg, sem, watched>>

-----------------------------------------------------------------------------
(* _workqueue_thread_entry *)

SuspendSelf_NotAtOnce == /\ At(Worker, "loop")
                         /\ Goto(Worker, "suspended")
                         /\ UNCHANGED <<q, arg, sem, due, watched>>

SuspendSelf == /\ At(Worker, "loop") /\ q.work = <<>>
               /\ Goto(Worker, "suspended")
               /\ UNCHANGED <<q, arg, sem, due, watched>>

Take == /\ At(Worker, "loop") /\ q.work # <<>>
        /\ LET w == Head(q.work)
           IN /\ q' = [TakeOut(q, w) EXCEPT !.current = w, !.of = @ \ {w}]
              /\ due' = due \ {w}
        /\ Goto(Worker, "func")
        /\ UNCHANGED <<arg, sem, watched>>

FunctionReturns == /\ At(Worker, "func")
                   /\ Goto(Worker, "clear")
                   /\ UNCHANGED <<q, arg, sem, due, watched>>

\* "clean current work", interrupts enabled
ClearCurrent == /\ At(Worker, "clear")
                /\ q' = [q EXCEPT !.current = Null]
                /\ Goto(Worker, "complete")
                /\ watched' = {}
                /\ UNCHANGED <<arg, sem, due>>

Complete_KeepsPermit == /\ At(Worker, "complete")
                        /\ sem' = 1 /\ pc' = [Woken(pc) EXCEPT ![Worker] = "loop"]
                        /\ UNCHANGED <<q, arg, due, watched>>

\* _workqueue_work_completion, under the scheduler lock: each release wakes one of
\* those who wait, and the last one is for rt_sem_trytake
Complete == /\ At(Worker, "complete")
            /\ \/ sem > 0 /\ sem' = sem - 1 /\ Goto(Worker, "loop")
               \/ sem = 0 /\ pc' = [Woken(pc) EXCEPT ![Worker] = "loop"] /\ UNCHANGED sem
            /\ UNCHANGED <<q, arg, due, watched>>

-----------------------------------------------------------------------------
WorkThread == \/ SuspendSelf \/ Take \/ FunctionReturns \/ ClearCurrent \/ Complete
              \/ StartTimer(Worker)

Next == \/ WorkThread \/ Create
        \/ \E w \in Work : TimerExpires(w)
        \/ \E c \in Client : StartTimer(c) \/ SyncCancels(c) \/ SyncWaits(c)
        \/ \E a \in Actor : CancelAll(a)
        \/ \E c \in Client : Destroy(c) \/ \E w \in Work : CancelSync(c, w)
        \/ \E a \in Actor, w \in Work :
              Submit(a, w) \/ Urgent(a, w) \/ Delay(a, w) \/ Cancel(a, w)

Spec == Init /\ [][Next]_vars

\* The work thread and the timer thread get the processor, works end, a call that
\* has begun goes on, and ticks keep coming.
FairSpec == /\ Spec /\ WF_vars(WorkThread)
            /\ \A w \in Work : WF_vars(TimerExpires(w))
            /\ \A c \in Client : WF_vars(StartTimer(c))

-----------------------------------------------------------------------------
QueueType == [work : Seq(Work), delayed : Seq(Work), current : Work \cup {Null},
              submitting : SUBSET Work, of : SUBSET Work, armed : SUBSET Work]

TypeOK == /\ q \in QueueType
          /\ pc \in [Actor -> PC] /\ arg \in [Actor -> Work \cup {Null}]
          /\ sem \in Nat
          /\ due \subseteq Work /\ watched \subseteq Client

\* a work is in one list, once, exactly while it is submitted, and one that is
\* delayed has its queue and a timer; a timer that runs with a queue is one of these
QueueOK(qq, submitted) ==
  /\ qq \in QueueType
  /\ IsInjective(qq.work) /\ IsInjective(qq.delayed)
  /\ ToSet(qq.work) \cap ToSet(qq.delayed) = {}
  /\ Listed(qq) = submitted
  /\ ToSet(qq.delayed) \subseteq qq.submitting \cap qq.of
  /\ qq.submitting \cap qq.of \subseteq submitted
  /\ qq.armed \subseteq qq.submitting

Starts(a, w) == pc[a] = "start" /\ arg[a] = w
TimersRun ==
  Alive => \A w \in ToSet(q.delayed) : w \in q.armed \/ \E a \in Actor : Starts(a, w)

\* the work thread sleeps only while there is nothing to run, and between two works
\* nothing executes
AtRest ==
  /\ pc[Worker] = "suspended" => q.work = <<>>
  /\ pc[Worker] \in {"loop", "suspended", "complete"} => q.current = Null
  /\ pc[Worker] \in {"loop", "suspended", "complete", "none"} => watched = {}

Args == \A a \in Actor : pc[a] \in {"start", "cancel"} => arg[a] \in Work

\* A work is in one list, once, from its submission until it starts or is cancelled, or
\* until its delay ends while it executes, when the handler drops it; one that is
\* delayed has its queue, and a timer that runs or that somebody is about to start; the
\* work thread sleeps only while there is nothing to run, and a completion leaves no
\* permit.
Consistent == /\ TypeOK
              /\ QueueOK(q, due) /\ TimersRun /\ AtRest /\ Args
              /\ sem = 0

\* The work thread runs only what was submitted after its last run and not cancelled
\* since, whatever timers and calls overtake one another.
OnlySubmittedRun ==
  [][pc[Worker] = "loop" /\ pc'[Worker] = "func" => q'.current \in due]_vars

\* A cancel_sync that found its work executing returns when that execution is over
\* and not before,
NeverBeforeTheEnd ==
  [][\A c \in Client : pc[c] \in {"wait", "waits"} /\ pc'[c] = "run" => c \notin watched']_vars

\* and it does return if it was asleep before the end.
SyncWaitsForTheEnd ==
  /\ NeverBeforeTheEnd
  /\ \A c \in Client : pc[c] = "waits" /\ c \in watched ~> pc[c] = "run" \/ ~Alive

\* A submitted work starts, unless it is cancelled, or dropped as its delay ends while
\* it executes; as long as it is not submitted again and no urgent one overtakes it.
SubmittedRuns ==
  \A w \in Work :
     <>[][\A a \in Actor : ~Submit(a, w) /\ ~Delay(a, w) /\ \A v \in Work : ~Urgent(a, v)]_vars
       => (w \in due ~> w \notin due \/ ~Alive)
=============================================================================
