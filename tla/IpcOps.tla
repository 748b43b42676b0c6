------------------------------- MODULE IpcOps -------------------------------
(***************************************************************************)
(* What the IPC objects of rt-thread/src/ipc.c share: threads queue in the *)
(* suspend list of an object and are resumed from it.  The operators stand *)
(* for the inline functions at the top of ipc.c, called with interrupts    *)
(* disabled; the threads are all started before the scheduler is.          *)
(***************************************************************************)
EXTENDS SchedOps

CONSTANT Fifo         \* the objects created with RT_IPC_FLAG_FIFO

ASSUME IpcAssumption == IsFiniteSet(Thread) /\ Fifo \subseteq WaitObj

\* the threads by priority, each list in some order
StartOrder(p) == SetToSeq({t \in Thread : InitPrio[t] = p})

\* every thread started, and the first of the most urgent ones running
StartedKernel ==
  LET top   == Min({InitPrio[t] : t \in Thread})
      first == Head(StartOrder(top))
      ready == [p \in Prio |-> Unlink(StartOrder(p), first)]
  IN [cur |-> first,
      stat |-> [t \in Thread |-> IF t = first THEN "RUNNING" ELSE "READY"],
      yield |-> {},
      prio |-> InitPrio,
      ready |-> ready,
      wait |-> [o \in WaitObj |-> <<>>],
      defunct |-> <<>>,
      group |-> {p \in Prio : ready[p] # <<>>},
      nest |-> 0,
      timer |-> {},
      error |-> [t \in Thread |-> "EOK"],
      left |-> [t \in Thread |-> Slice]]

-----------------------------------------------------------------------------
(* the suspend list of an object *)

\* before the first waiter that is less urgent than t
InsertByPrio(k, s, t) ==
  LET less == {i \in DOMAIN s : k.prio[t] < k.prio[s[i]]}
  IN InsertAt(s, IF less = {} THEN Len(s) + 1 ELSE Min(less), t)

Enqueue_AtHead(k, o, t) == [k EXCEPT !.wait[o] = Cons(t, @)]

Enqueue(k, o, t) ==
  [k EXCEPT !.wait[o] = IF o \in Fifo THEN Append(@, t)
                                      ELSE InsertByPrio(k, @, t)]

\* _ipc_list_suspend of the current thread
SuspendOn(k, o) == Enqueue(SuspendSelf(k), o, k.cur)

\* with a timeout: 0 is RT_WAITING_FOREVER here, any other value starts the
\* timer of the thread
SuspendFor(k, o, timed) ==
  IF timed THEN StartTimer(SuspendOn(k, o), k.cur) ELSE SuspendOn(k, o)

ResumeWith_KeepLinked(k, t, e) == InsertThread([k EXCEPT !.error[t] = e], t)

\* a waiter goes on, with e in its thread->error
ResumeWith(k, t, e) == Resume([k EXCEPT !.error[t] = e], t)

ResumeFirst_KeepError(k, o) == Resume(k, Head(k.wait[o]))

\* _ipc_list_resume
ResumeFirst(k, o) == ResumeWith(k, Head(k.wait[o]), "EOK")

ResumeFailed_KeepLinked(k, t) == InsertThread([k EXCEPT !.error[t] = "ERROR"], t)

\* one turn of _ipc_list_resume_all
ResumeFailed(k, t) == ResumeWith(k, t, "ERROR")

\* the waiters in W go on, in the order of the list, under one interrupt lock
ResumeSome(k, o, W, e) ==
  LET s == k.wait[o]
      after[n \in 0..Len(s)] == IF n = 0 THEN k
                                ELSE IF s[n] \in W THEN ResumeWith(after[n - 1], s[n], e)
                                ELSE after[n - 1]
  IN after[Len(s)]

\* _ipc_list_resume_all for a caller that holds the interrupt lock
ResumeAll(k, o) == ResumeSome(k, o, ToSet(k.wait[o]), "ERROR")

HasWaiter(k, o) == k.wait[o] # <<>>
Waits(k, t, o) == t \in ToSet(k.wait[o])
Suspended(k, t) == k.stat[t] = "SUSPEND"

\* A thread is linked once, in one list only.
OneNode(k) ==
  /\ NoRepeats(k)
  /\ \A o, q \in WaitObj : o # q => ToSet(k.wait[o]) \cap ToSet(k.wait[q]) = {}

\* The threads in C are closed, the others go on.
OnlyClosed(k, C) ==
  \A t \in Thread : IF t \in C THEN k.stat[t] = "CLOSE"
                               ELSE k.stat[t] \in {"READY", "RUNNING", "SUSPEND"}

\* The kernel's lists are in order; the idle thread never waits, a timer runs for
\* no thread but one that waits, and no closed thread has the processor.
InOrder(k, C) ==
  /\ QueueInv(k, {}) /\ OneNode(k)
  /\ k.nest = 0
  /\ OnlyClosed(k, C) /\ k.cur \notin C
  /\ Idle \notin C /\ ~Suspended(k, Idle)
  /\ \A t \in k.timer : Suspended(k, t)

\* the same among threads that all go on
Orderly(k) == InOrder(k, {})
=============================================================================
