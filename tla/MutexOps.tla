------------------------------ MODULE MutexOps ------------------------------
(***************************************************************************)
(* The mutexes of ipc.c as operators on a record s:                        *)
(*                                                                         *)
(*   k         the kernel (SchedOps)                                       *)
(*   owner     mutex->owner, None for RT_NULL                              *)
(*   hold      mutex->hold                                                 *)
(*   urgency   mutex->priority, that of the first waiter (Lowest for 0xff) *)
(*   ceiling   mutex->ceiling_priority                                     *)
(*   taken     thread->taken_object_list                                   *)
(*   pending   thread->pending_object                                      *)
(*   fault     the owner of a mutex without one was read (a null pointer),  *)
(*             and what lies there led the processor into a fault          *)
(*                                                                         *)
(* Each operator runs with interrupts disabled.                            *)
(***************************************************************************)
EXTENDS IpcOps

CONSTANTS Mutex,      \* the mutexes
          None,       \* RT_NULL
          HoldMax     \* RT_MUTEX_HOLD_MAX

Lowest == 255

ASSUME MutexAssumption == /\ Mutex \subseteq WaitObj /\ Fifo = {} /\ Mutex # {}
                          /\ None \notin Thread \cup WaitObj
                          /\ Thread \cap WaitObj = {}
                          /\ HoldMax \in Nat \ {0}
                          /\ Prio \subseteq 0..Lowest      \* rt_uint8_t

MutexState == [k : Kernel,
               owner : [Mutex -> Thread \cup {None}],
               hold : [Mutex -> 0..HoldMax],
               urgency : [Mutex -> Prio \cup {Lowest}],
               ceiling : [Mutex -> Prio \cup {Lowest}],
               taken : [Thread -> SUBSET Mutex],
               pending : [Thread -> Mutex \cup {None}],
               fault : BOOLEAN]

\* _mutex_update_priority
FirstUrgency(k, m) == IF HasWaiter(k, m) THEN k.prio[Head(k.wait[m])] ELSE Lowest
Refresh(s, m) == [s EXCEPT !.urgency[m] = FirstUrgency(s.k, m)]

\* _thread_get_mutex_priority
DuePrio(s, t) ==
  Min({InitPrio[t]} \cup {s.urgency[m] : m \in s.taken[t]}
                    \cup {s.ceiling[m] : m \in s.taken[t]})

\* One call of _thread_update_priority, for the thread and the priority in c: it
\* leaves in c those of the call it makes in turn, None when it makes none.  A
\* suspended thread moves to its place in the list of its pending mutex, whose
\* owner is the next one.
UpdateOne(c) ==
  LET s == [c.s EXCEPT !.k = ChangePriority(c.s.k, c.t, c.p)]
      m == s.pending[c.t]
      r == Refresh([s EXCEPT !.k = Enqueue(ListRemove(s.k, c.t), m, c.t)], m)
      o == r.owner[m]
  IN IF c.t = None THEN c
     ELSE IF ~Suspended(s.k, c.t) \/ m = None
     THEN [s |-> s, t |-> None, p |-> Lowest]
     ELSE IF o = None
     THEN [s |-> [r EXCEPT !.fault = TRUE], t |-> None, p |-> Lowest]
     ELSE IF DuePrio(r, o) = r.k.prio[o]
     THEN [s |-> r, t |-> None, p |-> Lowest]
     ELSE [s |-> r, t |-> o, p |-> DuePrio(r, o)]

\* The last of the calls that a call of _thread_update_priority for t and p leads to.
\* Each gives its thread a priority more urgent than any that an earlier one gave it,
\* so that no pair of a thread and a priority comes twice, even along owners that
\* wait for each other.
LastCall(s, t, p) ==
  LET calls == Cardinality(Thread \X Prio)
      chain[n \in 0..calls] ==
        IF n = 0 THEN [s |-> s, t |-> t, p |-> p] ELSE UpdateOne(chain[n - 1])
  IN chain[calls]

\* _thread_update_priority
UpdatePriority(s, t, p) == LastCall(s, t, p).s

\* give the owner of m the priority that is due to it
UpdateOwner(s, m) ==
  LET o == s.owner[m]
  IN IF DuePrio(s, o) # s.k.prio[o] THEN UpdatePriority(s, o, DuePrio(s, o)) ELSE s

-----------------------------------------------------------------------------
\* t gets a free mutex
Grab(s, t, m) ==
  LET g == [s EXCEPT !.owner[m] = t, !.urgency[m] = Lowest, !.hold[m] = 1,
                     !.k.error[t] = "EOK"]
      u == IF s.ceiling[m] < s.k.prio[t] THEN UpdatePriority(g, t, s.ceiling[m]) ELSE g
  IN [u EXCEPT !.taken[t] = @ \cup {m}]

Join_NoBoost(s, t, m, timed) ==
  [s EXCEPT !.k = SuspendFor([s.k EXCEPT !.error[t] = "EOK"], m, timed),
            !.pending[t] = m,
            !.urgency[m] = Min({@, s.k.prio[t]})]

\* t waits for m and lends its priority to the owner
Join(s, t, m, timed) ==
  LET p == s.k.prio[t]
      j == [s EXCEPT !.k = SuspendOn([s.k EXCEPT !.error[t] = "EOK"], m),
                     !.pending[t] = m,
                     !.urgency[m] = Min({@, p})]
      u == IF p < s.urgency[m] /\ p < s.k.prio[s.owner[m]]
           THEN UpdatePriority(j, s.owner[m], p) ELSE j
  IN IF timed THEN [u EXCEPT !.k = StartTimer(u.k, t)] ELSE u

\* a waiter of m with priority p is gone: the owner gives the priority back
Withdraw(s, m, p) ==
  LET r == Refresh(s, m)
  IN IF p = s.k.prio[s.owner[m]] THEN UpdateOwner(r, m) ELSE r

\* the end of a take that failed
Leave(s, t, m) == Withdraw(s, m, s.k.prio[t])

\* rt_mutex_drop_thread
DropThread(s, m, t) ==
  Withdraw([s EXCEPT !.k = ListRemove(s.k, t)], m, s.k.prio[t])

\* the owner takes back the priority it has without m
Restores(s, t, m) == s.ceiling[m] # Lowest \/ s.k.prio[t] = s.urgency[m]
Restore(s, t, m) ==
  IF Restores(s, t, m) THEN [s EXCEPT !.k = ChangePriority(s.k, t, DuePrio(s, t))]
  ELSE s

HandTo_StillPending(s, u, m) ==
  LET h == [s EXCEPT !.owner[m] = u, !.hold[m] = 1,
                     !.taken[u] = @ \cup {m},
                     !.k = Resume(ListRemove(s.k, u), u)]
  IN Refresh(h, m)

HandTo(s, u, m) ==
  LET h == [s EXCEPT !.owner[m] = u, !.hold[m] = 1,
                     !.taken[u] = @ \cup {m}, !.pending[u] = None,
                     !.k = Resume(ListRemove(s.k, u), u)]
  IN Refresh(h, m)

Release_KeepPriority(s, t, m) ==
  LET d == [s EXCEPT !.hold[m] = @ - 1]
      q == [d EXCEPT !.taken[t] = @ \ {m}]
  IN IF d.hold[m] > 0 THEN d
     ELSE IF HasWaiter(q.k, m) THEN HandTo(q, Head(q.k.wait[m]), m)
     ELSE [q EXCEPT !.owner[m] = None, !.urgency[m] = Lowest]

Release_ToNobody(s, t, m) ==
  LET d == [s EXCEPT !.hold[m] = @ - 1]
      q == Restore([d EXCEPT !.taken[t] = @ \ {m}], t, m)
  IN IF d.hold[m] > 0 THEN d
     ELSE IF HasWaiter(q.k, m)
     THEN [q EXCEPT !.owner[m] = None, !.k = ResumeFirst(q.k, m)]
     ELSE [q EXCEPT !.owner[m] = None, !.urgency[m] = Lowest]

\* rt_mutex_release by the owner, in its section
Release(s, t, m) ==
  LET d == [s EXCEPT !.hold[m] = @ - 1]
      q == Restore([d EXCEPT !.taken[t] = @ \ {m}], t, m)
  IN IF d.hold[m] > 0 THEN d
     ELSE IF HasWaiter(q.k, m) THEN HandTo(q, Head(q.k.wait[m]), m)
     ELSE [q EXCEPT !.owner[m] = None, !.urgency[m] = Lowest]

\* whether it asks for rt_schedule
ReleaseSchedules(s, t, m) ==
  s.hold[m] = 1 /\ (HasWaiter(s.k, m) \/ Restores(s, t, m))

\* rt_mutex_setprioceiling
SetCeiling(s, m, c) ==
  LET r == [s EXCEPT !.ceiling[m] = c]
  IN IF s.owner[m] # None THEN UpdateOwner(r, m) ELSE r

\* rt_mutex_detach, rt_mutex_delete: the waiters fail, the owner forgets it
DetachMutex(s, m) ==
  [s EXCEPT !.k = ResumeAll(s.k, m),
            !.taken = [t \in Thread |-> s.taken[t] \ {m}]]

\* rt_mutex_init
InitMutex(s, m) ==
  [s EXCEPT !.owner[m] = None, !.urgency[m] = Lowest, !.hold[m] = 0,
            !.ceiling[m] = Lowest]
=============================================================================
