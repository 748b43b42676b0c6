# A TLA+ development of the RT-Thread kernel of this repository

The repository is a board support package for an nRF52832 with the RT-Thread
kernel it runs: `applications/` (one LED), `board/`, `libraries/drivers` (the
translation of the device API to the nrfx library), and `rt-thread/`, the kernel,
its device framework, the shell, and many components that `rtconfig.h` does not
select.  What is hard in it is the kernel: `rt-thread/src/scheduler_up.c`,
`thread.c`, `idle.c`, `clock.c`, `ipc.c`, `timer.c`, `mempool.c` and `mem.c`, and the
work queue beside it, `rt-thread/components/drivers/ipc/workqueue.c`.  These
modules model them in the configuration of `rtconfig.h`: one processor, 32
priorities (0 the most urgent), semaphores, mutexes, events, mailboxes and message
queues, hard timers and soft timers, memory pools and one heap, `RT_USING_DEBUG`
with assertions that stop the system.

- [1 The system](#1-the-system)
- [2 How the code is modelled](#2-how-the-code-is-modelled)
- [3 The modules](#3-the-modules)
- [4 The runs](#4-the-runs)
- [5 Fairness](#5-fairness)
- [6 What is proved](#6-what-is-proved)
- [7 Where the code and its words disagree](#7-where-the-code-and-its-words-disagree)
- [8 What is not modelled](#8-what-is-not-modelled)
- [9 Plan](#9-plan)

To check a run: `tlc -config Sched.cfg MCScheduler.tla`; the table of section 4
names the module of every configuration.  To check the proofs: `tlapm M.tla` for M in
`KernelProofs`, `SchedulerProofs`, `SemaphoreProofs`, `EventProofs`, `MailboxProofs`,
`MessageQueueProofs`, `MutexProofs`, `WorkQueueProofs`.

## 1 The system

| Component | State | Operations | What makes it correct |
|---|---|---|---|
| Scheduler (`scheduler_up.c`) | `rt_thread_priority_table` (a list per priority), `rt_thread_ready_priority_group` (a bit per list), `rt_current_thread`, `rt_scheduler_lock_nest` | `rt_schedule`, insertion and removal of a thread, `rt_enter_critical`, `rt_exit_critical` | the lists, the bitmap, `stat` and `current_priority` agree; the most urgent thread runs; equals share the processor |
| Threads (`thread.c`) | `stat` with the YIELD bit, `current_priority`, `remaining_tick`, `error`, one list node `tlist`, one timer | init, startup, yield, suspend, resume, sleep, change of priority, detach, exit; the timeout of the timer | the node is linked once; a timer runs only for a suspended thread; a closed thread never runs again |
| Idle thread (`idle.c`) | `_rt_thread_defunct` | enqueue (by whoever closes a thread), dequeue, free | every closed thread is reclaimed, once |
| Tick (`clock.c`) | `rt_tick` | `rt_tick_increase`: time slice, then timers | each turn ends |
| Semaphore (`ipc.c`) | `value`, a suspend list | take, trytake, release, reset, detach | no permit is lost or given twice |
| Mutex (`ipc.c`) | `owner`, `hold`, `priority`, `ceiling_priority`, a suspend list; per thread `taken_object_list` and `pending_object` | take, trytake, release, set ceiling, detach, drop of a thread | exclusion, inheritance along chains of owners, and the priority given back |
| Event (`ipc.c`) | `set`, a suspend list; per thread `event_set`, `event_info` | send, receive, reset, detach | no satisfied waiter sleeps, no bit is lost |
| Mailbox (`ipc.c`) | a ring with two offsets and `entry`, two suspend lists | send, urgent, receive, reset, detach | a bounded queue; no wake-up is lost |
| Message queue (`ipc.c`) | queued nodes, free nodes, `entry`, two suspend lists | the same; a message is copied outside the sections | as above, and no node is lost or shared |
| Hard timers (`timer.c`) | a list ordered by timeout, modulo 2^32 | start, stop, detach, control; `rt_timer_check` | in order across the wrap; each fires in its tick |
| Soft timers (`timer.c`) | a second list, the timer thread and its status | the same; `_timer_thread_entry` | the thread sleeps for the right timer; none is missed |
| Memory pool (`mempool.c`) | the list of free blocks, their count, a suspend list | init, create, alloc, free, detach, delete | no block is lost or given twice; no wake-up is lost; a create that fails halfway leaks nothing |
| Heap (`mem.c`, `kservice.c`) | a chain of items with forward and backward links, `lfree` | `rt_malloc`, `rt_realloc`, `rt_free` | blocks lie apart; the items tile the memory and free neighbours are merged; a fitting hole is found |
| Work queue (`workqueue.c`) | the works to run, the delayed ones and their timers, `work_current`, a semaphore, the work thread | submit, submit after a delay, urgent, cancel (of one, of all, with waiting), create, destroy; the timeout of a delayed work | what is submitted runs, and nothing else; cancelled work is out of every list; a waiting cancel waits for the end |
| Object registry, other device IPC, serial framework, drivers, shell | | | section 8 |

**How they interact.**  Every blocking object suspends the current thread
(`rt_thread_suspend`), links its node into its own list, starts the thread's
timer when the wait is timed, enables interrupts and calls `rt_schedule`.  It is
woken by the other side (a release, a send, an interrupt handler), by its timer
(`_thread_timeout`, from the tick interrupt), by a reset or a detach of the
object, or by a plain `rt_thread_resume`; `thread->error` is all it has to tell
which.  A mutex changes priorities of threads that are in other objects' lists
and in the ready lists.  The soft timers are served by a thread that sleeps with
a timer of its own.  The tick drives the time slices and both lists of timers.
`rt_mp_create` takes two blocks of the heap, which the threads use as well.  The
work queue uses the soft timers (their handler moves a delayed work to the works
to run), a semaphore, and the suspension of its own thread.

**What is hard.**  Interrupts come in wherever they are enabled, and many functions
are made of several sections with interrupts enabled in between: a resume (test,
unlink, insert), a detach (unlink, close), a sleep, every wait, every message, the
drain of a suspend list, the submission of a delayed work.  A thread has one list
node for all lists.  The `rt_list_insert_*` functions do not unlink first.  The tick
wraps.  Woken threads look again after others have run.  `PROJECT.json` lists these
hazards with their lines and the properties that cover them.

## 2 How the code is modelled

**Steps.**  A step of a thread is the code between two points where an interrupt
can come in: a section under `rt_hw_interrupt_disable` is one action, and a read
or a write made with interrupts enabled is one too.  `pc[t]` is the place a
thread has reached inside a function of the kernel.  Only the current thread
takes steps.  An interrupt is an action that is enabled at every such point: the
tick (`Tick`), a thread timer (`TimerExpire`), and in the IPC modules a handler
that calls the object (`IsrRelease`, `IsrSend`, ...).  A context switch requested
in a section happens when interrupts are enabled again (PendSV), which is the end
of the same step: `rt_schedule` is the operator `Schedule`.

**Ticks and timeouts.**  Except in the timer modules, time is abstract: a
started thread timer may expire at any later point, before or after the tick, so
each run covers all timeouts.  `WorkQueue` treats the timers of delayed works in
the same way.  `TimerOps`, `HardTimer` and `SoftTimer` model the counter itself,
modulo `TickMod`.  The thread timer is a set of threads for which
it is started, as it is a one-shot hard timer.

**Lists.**  `Lists` takes a doubly linked list as the sequence of its nodes.
`Unlink` is `rt_list_remove`; a thread inserted without being unlinked is in two
sequences, which the invariants refuse.

**Data.**  Messages, mails and bits are a few values.  Stacks, names, hooks,
object flags and debug output are left out.  Timeout 0, where it changes nothing
but the return value, has no action and a comment says so.

**Calling discipline.**  `rt_thread_detach` and `rt_thread_resume` work in several
sections and are only right if no two callers work on one thread at a time, and
if a thread being closed or resumed cannot go on meanwhile.  The kernel neither
states nor enforces this; `Scheduler` states it (`MayResume`, `MayClose`,
`Alone`) and assumes it under the constant `Disciplined`.  With `Disciplined =
FALSE` in `Sched.cfg`, `Consistent` fails after a few steps;
section 7 has the two races.

**Where a behaviour ends.**  Where the code fails an assertion, reads through a
null pointer, or goes on with an object that is gone, the model enters the place
`"fault"` (`Mutex`: the field `fault`) and stops: the properties are those of
behaviours up to there.  Section 7 lists each such place.

**Mutated forms.**  A definition named `X_Y` before the definition `X` is what
`X` would be with a plausible bug `Y`; no specification uses it.  Put in place
of `X` it makes a property fail, which `PROJECT.json` lists under "mutants":
every property of every run is shown able to fail in this way.

## 3 The modules

| Module | What it holds | Code |
|---|---|---|
| `Lists` | `Unlink` | `rtservice.h`, `rt_list_*` |
| `SchedOps` | the threads, their priorities and the slice; the kernel record `k` and one operator per C function run with interrupts disabled: `InsertThread`, `RemoveThread`, `Schedule`, `SuspendSelf`, `Resume`, `ThreadTimeout`, `ChangePriority`, `CloseThread`, `InitThread`, `Yield`, `TickSlice`; the parts of the queue invariant | `scheduler_up.c`, `thread.c`, `idle.c`, `clock.c` |
| `Scheduler` | threads that create, start, suspend, resume, reprioritise, put to sleep and close one another, the tick, the idle thread; the inductive invariant `Consistent` | the same, as a system |
| `IpcOps` | suspend lists: `SuspendOn`, `ResumeFirst`, `ResumeSome`, `ResumeAll`; the started system; what it is for the kernel's lists to be in order (`InOrder`, given which threads are closed) and `Orderly` (none is) | the inline functions at the top of `ipc.c` |
| `Semaphore` | one semaphore; implements `AbstractSemaphore` | `rt_sem_*` |
| `MutexOps`, `Mutex` | the mutex operators on a record, and threads that use several mutexes and a semaphore; one mutex implements `AbstractMutex` | `rt_mutex_*`, `_thread_update_priority` |
| `Event` | one event object | `rt_event_*` |
| `Mailbox` | one mailbox; implements `AbstractMailbox` | `rt_mb_*` |
| `MessageQueue` | one message queue with its node lists; implements `AbstractMailbox` | `rt_mq_*` |
| `SmallMem` | the allocator as operators on a heap record: first fit, split, merge, shrink, move | `mem.c` |
| `MemPool` | one memory pool on the scheduler, made in the heap of `SmallMem` that the threads use too; the heap implements `AbstractHeap` | `rt_mp_*`, `rt_malloc`, `rt_realloc`, `rt_free` |
| `WorkQueue` | the work thread, its callers and the timers of its works | `workqueue.c` |
| `TimerOps` | the timer list and `rt_timer_check`'s inner operators over a wrapping counter | `timer.c` |
| `HardTimer` | threads, interrupt handlers and callbacks on `_timer_list` | `rt_timer_*`, `rt_timer_check` |
| `SoftTimer` | `_timer_thread_entry`, `rt_soft_timer_check` and their callers | the same file |
| `AbstractSemaphore`, `AbstractMutex`, `AbstractMailbox`, `AbstractHeap` | what the objects promise, without threads, lists or priorities | |
| `KernelProofs` | lemmas about lists, and about the operators of `SchedOps` and `IpcOps` | |
| `SchedulerProofs`, `SemaphoreProofs`, `EventProofs`, `MailboxProofs`, `MessageQueueProofs`, `MutexProofs`, `WorkQueueProofs` | the theorems about each component | |
| `MCScheduler`, `MCIpc`, `MC<object>` | model values and priorities for TLC | |

Composition: `Scheduler` and `IpcOps` extend `SchedOps`; the objects extend
`IpcOps`, so each of them runs on the whole scheduler, with preemption, time
slices and timeouts, and checks again that the ready lists and the bitmap stay
in order.  `Mutex` composes mutexes with a semaphore, because a boosted thread
may be waiting in another object's list.  `MemPool` composes a pool, the
scheduler and the heap.  `HardTimer` and `SoftTimer` share
`TimerOps` and stand beside the scheduler: threads are a place in
`_timer_thread_entry` there.  `WorkQueue` stands beside it too: its callers, its
thread and the timer thread may preempt one another at every step, which covers
all priorities of the callers and of the work thread (the timer thread, of
priority 4 in `rtconfig.h`, is taken to be more urgent than they).

**`Scheduler` against the code.**

| Actions | Code |
|---|---|
| `Startup`; `ResumeCall`, `ResumeCheck`, `ResumeUnlinkStep`, `ResumeInsert` | `rt_thread_startup` sets SUSPEND and calls `rt_thread_resume`: state test with interrupts enabled, `rt_list_remove` and timer stop in one section, `rt_schedule_insert_thread` in the next.  Only `rt_thread_startup` goes on to `rt_schedule`; after a plain `rt_thread_resume` the caller runs on |
| `ScheduleCall`, `DoSchedule` | `rt_schedule`, called by the application and at the end of the functions that call it |
| `Suspend`, `YieldCall`, `ChangePrio` | one section each, and the switch if the code asks for it (`ChangePrio` does not) |
| `Sleep`, `SleepMark`, `SleepReturn` | `rt_thread_sleep`: the section, the write of `-RT_EINTR` with interrupts enabled, the switch, the look at `error` |
| `DelayUntil` | `rt_thread_delay_until`: one section, which sleeps without the write, or does not sleep at all when the time has passed |
| `Close`, `CloseRemove`, `CloseFinish`, `Exit` | `rt_thread_detach` and `rt_thread_delete` in two sections, without a switch, or with the one that `RT_THREAD_CTRL_CLOSE` adds; `_thread_exit` in one, with the switch |
| `EnterCritical`, `ExitCritical` | the nesting counter; the outermost unlock schedules |
| `IdlePeek`, `IdleDequeue`, `IdleFree` | `rt_thread_defunct_dequeue` reads the head with interrupts enabled, unlinks it in a section; `rt_defunct_execute` frees it |
| `Tick`, `TimerExpire` | `rt_tick_increase`; `_thread_timeout` |

**The objects against the code.**  A take, a send or a receive that waits is
three actions: the section up to `rt_hw_interrupt_enable` (`...Wait`), the call
of `rt_schedule` (`DoSchedule`), and the code that runs once the thread has the
processor again (`TakeReturn`, `RecvAgain`, ...).  In between, the others and the
interrupts act.  Mailbox and queue loop in the code: `...Again`, `WaitAgain` (the
rest of the time) and `TimeUsedUp`.  The queue copies a message between two
sections: `held[t]` is the node in the hands of `t`.  A detach looks at each
suspend list with interrupts enabled and resumes one waiter per section
(`DrainLook`, `DrainOne`, in the event `DetachLook`, `DetachOne`); nobody begins a
call to an object that is being detached, as the kernel leaves to its callers, but
those that are in one go on.  `Mutex` does the recursion
of `_thread_update_priority` along the owners by `UpdateOne`, one call of the C function
each, as many times as there are pairs of a thread and a priority (`LastCall`); a call that is not
made changes nothing.  The number of threads would not do: owners that wait for each
other in a circle may be visited several times, each time with a more urgent priority, until
a priority no longer changes.  That the bound is never what stops the walk is
proved (`PriorityChainEnds`).
A semaphore's waiter may be woken by a plain `rt_thread_resume` (`IsrResume`), which
makes its take fail.  A mailbox that has been detached is initialised again
(`InitAgain`) while threads it has woken may still have to look at it, but not while
one sleeps in its lists, which `rt_mb_init` empties without a look.  In `Mutex`, a thread
that owns a mutex is not closed: the code would leave it the mutex.

**The memory against the code.**  The heap is locked by a mutex and interrupt
handlers do not use it, so each call of `rt_malloc`, `rt_realloc` and `rt_free` is
one step; `SmallMem` does what the C functions do to the chain, with sizes and
offsets in bytes.  What a header that was merged away leaves in memory is not
kept.  `rt_mp_create` is two allocations with other threads in between
(`CreateObject`, `CreateRoom`) and a free if the second fails (`CreateFailed`);
`rt_mp_delete` drains, frees the room and frees the control block in a step each.
A waiting thread goes to the *front* of the suspend list of a pool
(`rt_list_insert_after` its head), so the last to come is served first.

**The work queue against the code.**  `q.work` and `q.delayed` are the two lists,
`q.submitting` the works with the flag SUBMITTING (the flag PENDING is written and
never read), `q.of` those whose `workqueue` field is set, `q.armed` those whose
timer runs.  `Delay` is the section of a delayed submission and `StartTimer` the
`rt_timer_start` after it.  `TimerExpires` is the expiry and the handler in one
step, as the timer thread is more urgent than the others.  A work function may
call the queue once before it returns, but does not cancel itself with waiting.
`Destroy` happens when no other call is on the way, and wakes those who wait for a
completion.

**History variables** (they have no counterpart in the code): `owed` in
`Semaphore`, `asked` in `Event`, `got` in `Mailbox` and `MessageQueue`, `left` and
`turned` in the timer modules, `lag` in `SoftTimer`, `due` and `watched` in `WorkQueue`.

## 4 The runs

| Run | Configuration (module) | Properties | States |
|---|---|---|---|
| `sched` | `Sched.cfg` (`MCScheduler`) | `Consistent`, `HighestRuns`, `ClosedNeverRuns`, `PreemptedGoesFirst`, `TurnsEnd`, `ClosedReclaimed` | 42 k |
| `round_robin` | `RoundRobin.cfg` (`MCScheduler`) | `EveryoneGetsATurn`, violated | 71 |
| `sem` | `Sem.cfg` (`MCSemaphore`) | `Consistent`, `PermitsAccounted`, `Implements`, `EveryWaiterServed` | 164 k |
| `mutex_nested` | `MutexNested.cfg` (`MCMutex`) | `Consistent`, `Inherits`, `GivesBack` | 0.7 M |
| `mutex_timed` | `MutexTimed.cfg` (`MCMutex`) | `SuccessOwns`, `Implements`, `NoInversion` | 15 k |
| `event` | `Event.cfg` (`MCEvent`) | `Consistent`, `NoSatisfiedWaiter`, `ReceivesWhatItAskedFor`, `NoBitLost` | 329 k |
| `mail` | `Mail.cfg` (`MCMailbox`) | `Consistent`, `NoWakeUpLost`, `Implements` | 616 k |
| `queue` | `Queue.cfg` (`MCMessageQueue`) | `Consistent`, `NoWakeUpLost`, `Implements` | 750 k |
| `timer` | `Timer.cfg` (`MCHardTimer`) | `Consistent`, `OnTime` | 378 k |
| `soft_timer` | `SoftTimer.cfg` (`MCSoftTimer`) | `Consistent`, `SleepsForTheFirst`, `FiresInTime` | 103 k |
| `memory` | `Memory.cfg` (`MCMemPool`) | `Consistent`, `HeapImplements`, `FindsHole`, `BlocksAccounted`, `NoWakeUpLost` | 381 k |
| `work` | `Work.cfg` (`MCWorkQueue`) | `Consistent`, `OnlySubmittedRun`, `SyncWaitsForTheEnd`, `SubmittedRuns` | 82 k |

**`sched`.**  `main`, a more urgent thread `a` and the idle thread, which has the
priority of `main`, as RT-Thread allows: so equals take turns, a preempted thread
has an equal to go before, and every change of priority between the two is met. All
operations are on, with one level of `rt_enter_critical` (`MaxNest`; two differ from
one only in the counter) and slices of one tick.  Two threads beside the idle one
are enough for one to operate on the other while the tick, the timer of the other
and the idle loop come in between its sections; that a third changes nothing for the
invariant is what section 6 proves.  `HighestRuns` says that every `rt_schedule`
(`Reschedule`: a call, the end of a slice, a thread timer) leaves a most urgent thread
running (`HighestHere`), and that this stays so but for the functions that leave it to
their caller to reschedule (`LeftToCaller`): a change of priority, a plain
`rt_thread_resume` and a plain `rt_thread_detach`.  A thread on its way to
`rt_schedule` (`ToSchedule`), after it has readied another, is left out.
`PreemptedGoesFirst` is about a thread with ticks of its slice left; where the one whose
slice is over goes is the question of `round_robin`.

`ClosedReclaimed` has two premises: the idle thread gets the processor again and again,
and at some time no more threads are created.  Without the second it is false as soon
as there are three threads beside the idle one: the list of defunct threads is a
stack (`idle.c:149`), and two that are created and closed again and again are reclaimed
before a third that was closed earlier.  Two cannot show that, so
`tlc -config Reclaim.cfg MCScheduler.tla` (5 k states) checks the property with three
threads that are created, started, closed and exit.

**`sem`.**  A semaphore of at most one permit (`SemMax`), so that the limit, an
empty and a full one are all met; two threads, an interrupt handler that releases and
one that resumes whoever is suspended, resets to both values, detach and new initialisation.  `PermitsAccounted` ties the value to
the threads that have been woken with a permit and have not yet run.

**`mutex_nested`.**  Three threads of distinct priorities (chains of two owners, and
cycles), two mutexes and a semaphore, holds up to two (`HoldMax`), a ceiling on one
of the mutexes (`FirstOnly`), and a waiter that is closed.  Its waits are without
timeout and no mutex is detached: with either, `InPlace` and `GivesBack` fail, see section 7.
With three threads no two `rt_thread_detach` of waiters of one mutex overlap while a
third thread owns it, which is why `GivesBack` holds here with `"close"` among the operations;
with four it does not (section 7), and the theorem leaves `"close"` out.
`Consistent` includes `InPlace`: a thread that waits for the semaphore is in
its list and in no other, however often it was boosted.  **`mutex_timed`**: one
mutex, timeouts and detach; a thread waits for something else only when it owns
nothing (`Nested = FALSE`), without which `NoInversion` could not hold.

**`event`.**  Two bits, so that all-of and any-of differ, two waiters, so that one
send wakes both, and a detach with a new initialisation.  **`mail`**: a ring of two
words, so that indices wrap and the front and the back differ; two threads of
different priorities, a sending interrupt handler, a detach with a new initialisation.  **`queue`**: two nodes, two
threads of equal priority, all waits timed, a detach; a longer queue repeats the
same pointer cases (empty, one, full, first, last).  Its two messages are
interchangeable, hence the symmetry; the run has no liveness property.  `Implements`
compares each with a plain bounded queue.

**`timer`.**  Three timers (an insertion before, between, after), a counter of
eight values that starts two before its wrap, times below half its range, as
`rt_timer_init` and `rt_timer_control` assert (`time < RT_TICK_MAX / 2`).  The timers
are interchangeable, hence the symmetry; the run has no liveness property.
**`soft_timer`**: two timers, a counter of ten values, and `MaxLate`, the number
of ticks for which more urgent threads may keep the timer thread from running.

**`memory`.**  A heap of 112 bytes, blocks of 8 and 40 bytes (`Sizes`) and at most
two of them with the threads (`MaxOwned`), so that there are holes below, between
and above blocks, merges on either side and on both, requests that fit and that do
not, and pools that find no room for their blocks.  The pool has two blocks.
`Together = FALSE` keeps two large parts of the states apart: the threads use
the heap only while the pool is at rest, and blocks of the pool are in use only
while the threads have none of the heap (`rt_mp_alloc` and `rt_mp_free` never
touch the heap, and the heap calls never touch the pool).  A create, a delete and
the heap calls of other threads do overlap.  All waits are timed: a timer that
never expires is among the behaviours.

**`work`.**  Two works and two clients: one that executes while the other is
listed, delayed or cancelled, and two callers that overtake one another between the
halves of a call.  `SubmittedRuns` is about a work from when on nobody submits it
again or submits an urgent one, which goes before it.

Deadlock is checked in every run where the specification does not stop by design.
`Sem.cfg`, `Event.cfg`, `Mail.cfg`, `Queue.cfg`, `Memory.cfg`, `Work.cfg` and the two
mutex configurations switch it off: their `Next` ends where a behaviour ends
(section 2).  In the mutex ones, threads in a deadlock over mutexes still see ticks.

## 5 Fairness

- The tick keeps coming (`WF(Tick)`): a hardware timer.  The violation of
  `EveryoneGetsATurn` needs nothing else: threads may compute for ever.
  `TurnsEnd` needs besides that nobody keeps the scheduler locked for ever
  (`[]<>(k.nest = 0)`), which is part of the property.
- The idle loop goes on when it gets the processor again and again
  (`SF(IdleStep)`, as it may be preempted between two steps).
  `ClosedReclaimed` holds only if the application leaves the processor to it
  infinitely often, which is part of the property.
- `sem`: the device behind the interrupt goes on releasing, and a thread that has
  the processor inside a take goes on; strong fairness of the interrupt because a
  full semaphore refuses a release.
- `mutex_timed`: threads finish the functions they are in, the interrupt releases
  the semaphore they may wait for, and an owner that gets the processor again and
  again releases.  Nothing is assumed of threads of other priorities, which may
  keep the processor from a low owner unless it inherits: that is `NoInversion`.
- `soft_timer`: the timer thread gets the processor, a callback that waits goes on
  and returns in the end.
- `work`: the work thread gets the processor and work functions return
  (`WF(WorkThread)`); a caller that has listed a delayed work goes on to start its
  timer (`WF(StartTimer)`); a timer that runs and is not stopped expires
  (`WF(TimerExpires(w))`: ticks keep coming).  No fairness is assumed of the callers
  otherwise.

## 6 What is proved

**The scheduler.**  `SchedulerProofs` proves, for every set of threads and priorities, every slice and nesting bound and every set of operations:

| Theorem | Statement | Checked by TLC as |
|---|---|---|
| `ConsistentAlways` | `Disciplined => (Spec => []Consistent)` | `Consistent` in `sched` |
| `TypeCorrect` | the type invariant | part of it |
| `ReadyListsExact` | a ready list holds exactly the READY threads of its priority | part of `Consistent` |
| `BitmapIsExact` | a bit for exactly the lists that are not empty | part of `Consistent` |
| `NodesLinkedOnce` | no list holds a thread twice; none is both ready and defunct | part of `Consistent` |
| `CurrentIsUnlinked` | only the current thread is RUNNING, and it is in no ready list | part of `Consistent` |
| `TimersOfSuspended` | the assertion of `_thread_timeout` | part of `Consistent` |
| `ClosedUnlinked` | a closed thread is in no ready list | part of `Consistent` |
| `ClosedStaysOff` | a closed thread that has left the processor never gets it back | `ClosedNeverRuns` in `sched` |
| `HighestAlwaysRuns` | after every `rt_schedule` no ready thread is more urgent than the current one where that one goes on, until a change of priority, a plain resume or a plain detach | `HighestRuns` in `sched` |
| `PreemptedIsFirst` | a thread put back because a more urgent one came in, before its slice is over, is the first of its list | `PreemptedGoesFirst` in `sched` |

They assume what `SchedOps` and `Scheduler` assume of their constants
(`PrioAssumption`, `SliceAssumption`, `ThreadAssumption`, `SchedulerAssumption`) and
the calling discipline.  `HighestAlwaysRuns` assumes besides that no thread starts less
urgent than the idle thread, which has the lowest priority there is
(`idle.c:334`).  Three functions may put an end to what it says (`LeftToCaller`), as
they do not reschedule: `RT_THREAD_CTRL_CHANGE_PRIORITY`, `rt_thread_resume` and
`rt_thread_detach` or `rt_thread_delete`; the next `rt_schedule` restores it.

**Why the invariant has the parts it has.**  That a ready list holds exactly the
READY threads (`QueueInv`) is not inductive: `rt_thread_resume` inserts a thread it
tested two sections earlier, so the invariant must say that the thread is still
suspended (`Resuming`), which in turn needs that its timer does not run and that
nobody else has it in hand (`Timers`, `OneHand`).  `rt_thread_detach` unlinks first
and closes later; until then the thread is READY and in no list (`Removed`) and
must not be the current one (`Closing`).  The idle thread frees what it dequeued
(`IdleReclaims`), and `Args` ties each place to the thread it is about.

**How the proof goes.**  `KernelProofs` starts with what linking and unlinking do to a
sequence without repetitions.  Then, for each operator of `SchedOps`, it says which
fields it changes and that it keeps `QueueLists` and `QueueInv`; the hard ones are
`RemoveReadyLemma` (the bit goes with the last thread), `HighestLemma` (the
highest bit names a list that is not empty) and `SwitchLemma`.  `SchedulerProofs`:
one lemma per action, and four frame lemmas for the ways a place can change:
`QuietConsistent` (no thread is taken in hand), `TakeConsistent` (one is),
`AdvanceConsistent` (the next section), `ReleaseConsistent` (let go).
`NextConsistent` is the case split over `Next`.  The last part takes `Consistent`
as given: `SwitchPoints` says that only `rt_schedule` changes the current thread, and
`ScheduleTop` that it leaves the most urgent one running if somebody can run;
`SomeoneRuns` supplies that from the idle thread, which is never blocked.
`ScheduleHead` is what a switch leaves at the head of a list: the YIELD bit is gone
before the thread is put back.

**Semaphore, event and mailbox.**  `SemaphoreProofs`, `EventProofs` and
`MailboxProofs` prove, for every set of threads and priorities, every choice of
operations and timeouts, every largest value of a semaphore, every set of bits and
every size of a ring:

| Theorem | Statement | Checked by TLC as |
|---|---|---|
| `SemaphoreConsistent` | the kernel's lists stay in order; a thread is in the suspend list exactly while it is suspended in a take | `Consistent` in `sem` |
| `SemaphorePermits` | no permit is lost, handed out twice, or unused beside a waiter | `PermitsAccounted` in `sem` |
| `SemaphoreImplements` | every step is a step of `AbstractSemaphore` or a stutter | `Implements` in `sem` |
| `EventConsistent` | as above, and a waiter's `event_set` is what it asked for | `Consistent` in `event` |
| `EventNoSatisfiedWaiter` | nobody waits for bits that are there | `NoSatisfiedWaiter` in `event` |
| `EventReceives` | a receive that succeeds returns what was asked for | `ReceivesWhatItAskedFor` in `event` |
| `EventNoBitLost` | a bit goes only with a thread that asked to clear it, in a reset or in a new init | `NoBitLost` in `event` |
| `MailboxConsistent` | as for the semaphore, with two suspend lists, and the offsets of the ring agree with `entry` | `Consistent` in `mail` |
| `MailboxNoWakeUpLost` | while a receiver sleeps, somebody comes for each mail; the same for senders and places | `NoWakeUpLost` in `mail` |
| `MailboxImplements` | every step is a step of `AbstractMailbox` or a stutter | `Implements` in `mail` |

They assume what the modules assume of their constants: besides the assumptions of
`SchedOps`, that there are finitely many threads (`IpcAssumption`: the counting
properties need it), and the object of each module (`SemaphoreAssumption`,
`EventAssumption`, `MailboxAssumption`).  No discipline is assumed: the operations
that need one are not among those of these modules.

The second half of `KernelProofs` has the lemmas they share.  `Orderly` is what all
objects need of the kernel, and each operator is shown to keep it and to do one of
four things to the waiting threads: nothing (`Keeps`), wake a set of them with an
error (`Awakened`), suspend the current thread (`Blocked`), or suspend it in a list
(`Sleeps`).  From there on the proofs of the objects speak of the sets of waiters;
the list comes back where its head is given a permit.  `ResumeSome` is a recursive
function over the suspend list.  The induction theorems of the library cannot be used
here (their hypotheses are about an operator), so `ResumeSomeOrderly` is proved from
the first turn after which it would fail (`LeastNatural`), and that the function
exists at all from the least length for which it would not (`TurnsExist`).
`StartedLemma` is that the initial kernel is `Orderly`.

The invariants that TLC checked at first were not inductive; `Consistent` of each
module is the strengthened one, and the runs check it.  While a thread is in the list of the
semaphore its error is `EINTR`, so that `EOK` outside the list marks a permit on its
way (`Granted`).  `Leaves` says that a current thread that is suspended is
about to call `rt_schedule`: otherwise it would go on while it waits.  The idle
thread is in no call that waits, as nobody else would run.  In an event, what
a thread asks for is not touched until it is woken.  In a mailbox, the offset to write
at is `entry` places after the one to read from: `Place` wraps as the code does, by a
comparison and a subtraction, and the ring lemmas (`PutRing`, `GetRing`,
`UrgentRing`, `ClearRing`) say what each operation does to the sequence of mails.

Each proof has one lemma per action, and before them frame lemmas which say what a
step must show of the kernel and of the object: `StaysStep`, `FailStep` and `GrantStep` for
the semaphore; `InvByThread`, `ThreadMoves` and `KernelMoves` for the event; `StayStep`,
`LoseOne` and `GainOne` for the mailbox, where a mail more or less is matched by
one thread more or less that comes for it.  The refinements ride on the same
lemmas: `NextStep` proves the invariant and the abstract step together.

**The message queue.**  `MessageQueueProofs` proves, for every set of threads, priorities
and messages and any number of nodes (finite and not empty, `QueueAssumption`), without
a discipline:

| Theorem | Statement | Checked by TLC as |
|---|---|---|
| `MessageQueueConsistent` | each node is in the queue, in the free list or in the hands of one thread; `entry` and the tail pointer agree with the queue; waiters as for the mailbox | `Consistent` in `queue` |
| `MessageQueueNoWakeUpLost` | while a receiver sleeps, somebody comes for each message; the same for senders and free nodes | `NoWakeUpLost` in `queue` |
| `MessageQueueImplements` | every step is a step of `AbstractMailbox` or a stutter | `Implements` in `queue` |

Two things are harder here than in the mailbox.  The lists are pointers: `Linked` says
that the pointers lead through a sequence and end there, and `ChainIs` that following
them, a recursive function, then gives that sequence back (the first place where it would
not is led to a contradiction with `LeastNatural`).  From there on the proof is about
sequences: `PutBackNodes`, `PutFrontNodes`, `TakeHeadNodes`, `TakeFreeNodes`,
`FreeNodes`, `PassNodes` and `EmptyNodes` say what each operation does to the two
sequences and that every node keeps its one place (`Shared`), with `LinkedFlipped` for
the reset, which puts the messages into the free list in reverse order.  And a node is
filled and emptied outside both lists, with interrupts enabled: `InHand` says what a
thread may rely on when it comes back with its node, and `Kept` that no step of others,
a reset included, touches a node in somebody's hands.  Threads and kernel are treated as
for the mailbox (`Moves`, `LessDue`, `MoreDue`, `StillDue`).

**The mutex.**  `MutexProofs` proves, for every set of threads and mutexes, all
priorities and ceilings, every limit of the holds and every set of operations:

| Theorem | Statement | Checked by TLC as |
|---|---|---|
| `MutexConsistent` | the kernel's lists stay in order through every change of a priority; waiters, owners, holds, the lists of what a thread owns and the places in `_rt_mutex_take` agree | `Consistent` in `mutex_nested` |
| `MutexSuccessOwns` | a take that returns `RT_EOK` has made the caller the owner | `SuccessOwns` in `mutex_timed` |
| `MutexImplements` | for every mutex, every step is a step of `AbstractMutex` or a stutter | `Implements` in `mutex_timed` |
| `MutexInherits` | no owner is less urgent than a thread that waits for what it owns, along chains and circles of owners | `Inherits` in `mutex_nested` |
| `PriorityChainEnds` | the recursion of `_thread_update_priority` ends before the pairs of a thread and a priority are used up | |
| `MutexGivesBack` | a thread is no more urgent than its own priority, the waiters of what it owns and their ceilings call for | `GivesBack` in `mutex_nested` |

All but the last have one hypothesis, `Careful`: if threads wait while they own mutexes
(`Nested`), they wait without a time limit and no mutex is detached.  Without it
they are false, and TLC shows why (section 7): a timeout and `rt_mutex_detach`
leave `pending_object` behind, and the next change of that thread's priority puts it
into the list of a mutex it does not wait for.  `mutex_nested` and
`mutex_timed` are the two halves of `Careful`: nested and patient, or single and
timed.  The rest is in `MutexAssumption`: waiters queue by priority (`rt_mutex_init`
sets `RT_IPC_FLAG_PRIO` whatever it is asked for), and priorities lie in a `rt_uint8_t`.

`Consistent` is inductive as it stands, and its parts are there for that.  `Owned` and
`HasOwner` are what the code relies on when it follows a chain: a mutex is on
`taken_object_list` of its owner alone, and a waiter has an owner other than itself.
`InPlace` says that a suspended thread is in exactly the list that its place calls
for, and `PendingWaits` that `pending_object` of a thread that may be boosted is that
list.  `BeingClosed` keeps a thread between the two sections of
its `rt_thread_detach` out of all lists and timers, so that the second may close it;
`InOrder` is `Orderly` but for the closed threads.

The proof separates what changes a priority from what changes a wait.  `Calm` says
that a step changes priorities, and the place of a thread in the list it is in, and
nothing else; `UpdateOne` is calm whenever `pending_object` is right, and so is
`UpdatePriority`, which goes along the chain: it is a recursive function over the
length of the chain, and the first step at which it would not be calm is taken to a
contradiction with `LeastNatural`, as for `ResumeSome`.  The sections of
`ipc.c` are then of a few kinds: those that move nobody, a hand-over (`HandTo`,
where the new owner takes the mutex from the list of its waiters in the same section),
a wait that begins (`Join`), and a wait that ends with an error; each kind has
a frame lemma, each action one lemma on top of it, and `NextStep` has the invariant
and the abstract step together.

*Inheritance.*  `Inherits` speaks of the owner and the waiters, the code of the field
`priority` of the mutex (`urgency`) and of the head of the suspend list.  The invariant
`Lending`, added to `Consistent`, joins them: every suspend list of a mutex is in the order of the
*current* priorities of its threads (`Placed`), `urgency` is at least as urgent as every
waiter (`Urgent`), and an owner is at least as urgent as the `urgency` of all it owns
(`LentBut`).  While a chain of calls runs, the last holds of all threads but the one that the
next call is about; this is why `LentBut` has a thread to leave aside.  `UpdateOneLink` takes
the three across one call, and the chain has to end for the exception to go away.  It
does, by a measure (`Trail`, `Behind`, `TrailStep`, `CallsEnd`): each call gives its thread a
priority that is more urgent than the one it has if it has been visited before, and not less urgent
than that of any thread visited before, so that no pair of a thread and a priority comes twice.
Each section of `ipc.c` then has a lemma of what it does to `Lends` (`GrabLends`, `JoinLends`,
`WithdrawLends`, `HandToLends`, `ReleaseLends`), and each action one on top of it.

*What is given back.*  For the opposite direction, `Giving` says that `urgency` is exactly the
priority of the first waiter (`Level`) and that every priority is called for by
something its thread has (`EarnedBut`: not more urgent than the lowest it could have, so at the
end of a chain of calls again for all threads: `Owes`, `Owing`, `OwingStep`).  This is
inductive only where a wait ends by a hand-over, hence the hypothesis `Patient`: waits without
a time limit, and neither `"detach"` nor `"close"` among the operations.  Everything else is
covered: recursive holds, chains and circles of owners, ceilings set at any time, releases in
any order, the scheduler, the semaphore and the tick.  Each of the three exclusions is
needed; section 7 has the histories.  The theorem does not say that a new owner gets its
ceiling at a hand-over, as the code does not do that (section 7): it bounds priorities from one side.

**The work queue.**  `WorkQueueProofs` proves, for any sets of works and callers
(`WorkQueueAssumption` says only that the null work and the work thread are not
among them):

| Theorem | Statement | Checked by TLC as |
|---|---|---|
| `ConsistentAlways` | `Spec => []Consistent` | `Consistent` in `work` |
| `RunsWhatWasSubmitted` | the work thread takes only a work submitted after its last run and not cancelled since | `OnlySubmittedRun` in `work` |
| `SyncNeverReturnsEarly` | a `rt_workqueue_cancel_work_sync` that found its work executing does not return before that execution ends | `NeverBeforeTheEnd`, the safety half of `SyncWaitsForTheEnd` in `work` |

That the lists hold exactly the submitted works is not inductive by itself: a
delay that ends makes its work runnable, so the invariant must say that a work
whose timer may still move it (`submitting` and `of`) is submitted, that
every running timer belongs to a `submitting` work (both in `QueueOK`), that a caller
between the section of a delayed submission and its `rt_timer_start` stands for the
timer (`TimersRun`, `Args`), and that nothing executes between two works (`AtRest`).
The proof has one lemma per function of `workqueue.c` on the lists (`SubmitNowLemma` to
`DelayOverLemma`: each keeps `QueueOK` and says what becomes of the submitted
works), three frame lemmas (`TimersKept`, `CallConsistent`, `PlaceConsistent`) and
one lemma per action.  For the two action properties, `StepKeepsPlaces` shows that no
step but `Take`, `Complete` and `Destroy` starts a work or wakes one who waits, and
`Consistent` settles those three.

**Only model-checked.**  Liveness and fairness (`TurnsEnd`, `ClosedReclaimed`,
`EveryWaiterServed`, `NoInversion`, `FiresInTime`, `SubmittedRuns` and the second
half of `SyncWaitsForTheEnd`) are beyond the prover, and `OnTime` is about a
countdown (`left`) that only TLC follows.  The invariants of the timers
(`Consistent` of `HardTimer` and of `SoftTimer`, `SleepsForTheFirst`) and of the memory
(`Consistent`, `FindsHole`, `BlocksAccounted`, `NoWakeUpLost` and `HeapImplements` of `MemPool`) are
model-checked and not proved: work for the future (section 9).  `GivesBack` with closed threads
is model-checked with three threads and false with four.

## 7 Where the code and its words disagree

Shown by a run:

- **Round robin starves** (`round_robin`; `scheduler_up.c:263`, `277`, `377`).
  `rt_schedule` clears the YIELD bit of the running thread before it puts it back,
  and `rt_schedule_insert_thread` tests that bit to choose between the tail and the
  head.  A thread whose slice is over goes to the *head* of its list.  Two equals
  alternate; with three, the third never runs.  `TurnsEnd` still holds.

Seen in the models, without a run of their own:

- *A soft timer is lost* (`timer.c:823`–`840`).  The timer
  thread looks at the list, and suspends itself or computes its delay, with
  interrupts enabled in between.  A timer started in between by an interrupt
  handler or a more urgent thread finds the timer thread not suspended and does
  not wake it.  `tlc -config SoftTimerLost.cfg MCSoftTimer.tla` shows it
  (`Preempting = TRUE`); `soft_timer` shows that all is well for callers that do
  not preempt the timer thread.
- *A timed take that fails reads the owner without testing it* (`ipc.c:1302`).  The
  mutex may have been released since the timeout.  `TakeFailed` has both outcomes
  of reading what stands at the null pointer; `fault` ends the behaviour.  To see
  it, add `INVARIANT NoFault` to a copy of `MutexTimed.cfg`.
- *`pending_object` is not cleared* when a wait times out or the mutex is detached.
  A later boost moves the thread, now waiting elsewhere, into the list of the old
  mutex (`ipc.c:805`): with `Timed = {TRUE}`, or with `"detach"` among the `Ops`, in a
  copy of `MutexNested.cfg`, `INVARIANT InPlace` fails.
- *A boost is kept* in three kinds of history, after which a thread that owns nothing
  has the priority of a waiter that is gone.  A wait that ends without the mutex, and the
  drop of a closed thread, always refresh the field `priority` of the mutex from the list of
  waiters, but restore the owner only if its priority is that of the thread that leaves
  (`ipc.c:1302`, `954`); the release restores it only if its priority is that field
  (`ipc.c:1450`).  TLC finds each as a violation of `GivesBack`, with `Mutex = {m1}`,
  `Nested = FALSE` and `HoldMax = 1` in a copy of `MutexNested.cfg`:
  - timeouts (`Timed = {TRUE}`, neither `"close"` nor `"ceiling"`, an owner of priority 3
    and waiters of 1, 1 and 2): all three time out, the first to leave lets the owner down
    to 2, the second finds 2 and not 1 and only refreshes the field, to no waiter at
    all; the owner releases before the third runs, and stays at 2;
  - closed waiters (the same threads, waits for ever, `"close"` among the `Ops`): one
    closes another and is preempted between the two sections of `rt_thread_detach`, the
    owner, boosted to 1, closes the last waiter, of priority 2, which refreshes the field, and
    releases;
  - a detach by an owner boosted by a ceiling (`"detach"` instead of `"close"`, three threads):
    `rt_mutex_detach` (`ipc.c:915`) takes the mutex from its owner and leaves the priority.
- *The ceiling is not applied on a hand-over* (`ipc.c:1476`; the comment at line 779
  and `rt_mutex_take` apply it).
- *A mutex take woken by a plain `rt_thread_resume` returns `RT_EOK`* without owning
  the mutex (`ipc.c:1189` sets the error to it before the wait); the model has no
  such resume for a mutex waiter.
- *`_ipc_list_resume_all` tests for an empty list with interrupts enabled* when a
  detach calls it (`ipc.c:246`); a timeout in between leads to the assertion of
  `rt_thread_resume`.  The objects have the step (`DetachOne`, `DrainOne`), and the
  drain loop of `rt_mp_delete` has it too (`mempool.c:277`).
- *A mailbox or queue waiter that is woken looks at the object again* although it may
  have been detached meanwhile (`ipc.c:2448`, `2742`).
- *Two races outside the calling discipline*: a thread that becomes ready between the
  two sections of its `rt_thread_detach` (`thread.c:434`) ends in a ready list and
  the defunct list; two resumes of one thread (`thread.c:1057`–`1081`) link it twice.
- *`rt_thread_sleep` writes `-RT_EINTR` with interrupts enabled* (`thread.c:650`); a
  timeout before the write makes a full sleep return `-RT_EINTR`.
- *A change of priority does not reorder the waiters* of an object with
  `RT_IPC_FLAG_PRIO` (`thread.c:870`); `RT_THREAD_CTRL_CHANGE_PRIORITY` of a
  mutex owner is undone by the release of the mutex, and it does not reschedule.
- *A closed thread may never be reclaimed*: the list of defunct threads is a stack
  (`idle.c:149`), and threads that are created and closed again and again go before it.
  Without its second premise `ClosedReclaimed` fails under `Reclaim.cfg`.
- *A periodic timer made one-shot in its own callback stays marked as active*
  without being linked (`timer.c:682`–`709`), and *a periodic timer with time 0*
  keeps `rt_timer_check` from returning.  The first is a step of both timer
  modules (`SetOneshot`, `Control`); their `Consistent` says that these timers, which
  the history variable `turned` collects, are the only ones that are active and in no
  list.  The second is in `HardTimer`, whose run has no property that says that the
  check ends.
- *`rt_mp_delete` frees a pool under a thread that is coming for a block*
  (`mempool.c:302`): one that a free has woken and that has not looked yet, or that
  has looked since the drain and waits in a list that is gone.
- *`rt_realloc` to a size below `MIN_SIZE_ALIGNED` gives a block smaller than any
  `rt_malloc` gives* (`mem.c:468`–`499`), and one to a slightly smaller size moves the
  block and may return null although the old one would do.
- *`rt_workqueue_cancel_work_sync` may wait for a completion that has been*
  (`workqueue.c:397`): it reads `work_current` with interrupts enabled, and if the
  work ends before it takes the semaphore it sleeps until the next work ends, or for
  ever.  It does not wait for a work that starts between that read and the
  cancellation. `SyncWaitsForTheEnd` is about callers asleep before the end.
- *A delayed work is dropped* when its time comes while it executes
  (`workqueue.c:185`): it is taken out of the delayed list and put in no other.
- *Two assertions of delayed works*: the handler of a timer that still runs when the
  work thread has taken the work, after a delayed submission and another one at once
  or urgently (`workqueue.c:177`); and `rt_timer_start` of a timer that a cancel has
  detached since the section (`workqueue.c:141`).
- *`rt_workqueue_submit_work` never returns `-RT_EBUSY`*, which the comments of
  `workqueue.c` promise for a work that executes.
- Read in the code, not modelled: *a completion that comes after the timeout of its
  waiter is cleared by it* (`completion.c:112`), and `rt_completion_done` tests the
  flag with interrupts enabled (`completion.c:131`).

## 8 What is not modelled

- **Parts of the heap** (`mem.c`, `kservice.c`): `rt_smem_detach` (no caller),
  `rt_calloc` and `rt_malloc_align` (arithmetic around `rt_malloc`), memtrace, the
  maximum of the memory used, and the contents of blocks.  The modules other than
  `MemPool` assume that allocation succeeds; creation and deletion differ from init
  and detach by it.
- **Object registry** (`object.c`): lists changed in one section each.
- **Deletion of an object whose node or word a thread has in hand** (`rt_mq_delete`
  frees the nodes): as for the pool, the kernel leaves it to the application.
- **Other device IPC** (`components/drivers/ipc`: completion, data queue, wait queue,
  pipe, ring buffers): nothing that `rtconfig.h` selects uses them, but for the
  transmission by interrupt or DMA of the serial framework, which the UART driver does
  not ask for.  Their hazards are in `PROJECT.json`.
- **Serial framework, UART driver, shell**: the path of a character, last in the plan.
- **Other drivers, board, application**: translations to the nrfx library, which is
  not in the repository, or a blinking LED.
- **The Cortex-M4 port**: assembly.  The models take from it when a switch happens.
- **Signals, `rt_thread_wakeup`, the interruptible flags, CPU binding,
  `scheduler_mp.c`**: not configured, or meaningless without signals.
- **`rt_tick_set`**: no caller in this configuration.
- **`memheap.c`, `slab.c`, file systems, network, processes, USB**: not selected.

## 9 Plan

Done: the scheduler with its proof, all objects of `ipc.c` with theirs, priority
inheritance included, both kinds of timers, the memory pool and the heap, the work queue with
its proof.  What would come next, in this order:

1. Theorems: the memory pool, beside the proof of the semaphore (its free blocks are the
   permits); the order of the timer list under insertion; the heap, whose operators are
   free of recursion (`Split` and `Absorb` change one item and its neighbours).
2. `GivesBack` with one closing thread at a time, for which `Patient` is too strong.
3. `Completion` and `DataQueue`: a completion against a timeout; water marks and
   wake-ups, as a refinement of `AbstractMailbox`.
4. The console path: receive FIFO, `rx_indicate`, the semaphore of the shell.
