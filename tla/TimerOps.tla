------------------------------ MODULE TimerOps ------------------------------
(***************************************************************************)
(* The timers of rt-thread/src/timer.c as operators on a record s, for one *)
(* of the two lists (_timer_list or _soft_timer_list; the skip list has    *)
(* one level):                                                             *)
(*                                                                         *)
(*   tick      rt_tick, of TickMod values                                  *)
(*   list      the list, the first to expire at the head                   *)
(*   local     the list in the frame of the check: the timer that fires    *)
(*   timeout   timer->timeout_tick                                         *)
(*   time      timer->init_tick                                            *)
(*   periodic, active   the timers with that flag                          *)
(*                                                                         *)
(* Each operator runs with interrupts disabled.                            *)
(***************************************************************************)
EXTENDS Lists

CONSTANTS Timer,      \* the timers of the list
          TickMod,    \* RT_TICK_MAX + 1
          Times       \* the times they are set to

Half == (TickMod - 1) \div 2     \* RT_TICK_MAX / 2

\* (the assertions on time in rt_timer_init and rt_timer_control)
ASSUME TimerAssumption == /\ TickMod \in Nat \ {0}
                          /\ Times \subseteq 0..(Half - 1)

TimerState == [tick : 0..(TickMod - 1),
               list : Seq(Timer),
               local : Seq(Timer),
               timeout : [Timer -> 0..(TickMod - 1)],
               time : [Timer -> Times],
               periodic : SUBSET Timer,
               active : SUBSET Timer]

\* unsigned subtraction
Minus(i, j) == (i - j) % TickMod

\* _timer_remove, whichever list holds the timer (the timeout_tick of a timer in no
\* list is not kept)
TimerRemove(s, t) ==
  [s EXCEPT !.list = Unlink(@, t), !.local = Unlink(@, t), !.timeout[t] = 0]

LaterThan_NoWrap(s, p, t) == s.timeout[p] > s.timeout[t]

\* p expires after t; of equals the older one stays first
LaterThan(s, p, t) == Minus(s.timeout[p], s.timeout[t]) \in 1..(Half - 1)

TimerInsert(s, t) ==
  LET later == {i \in DOMAIN s.list : LaterThan(s, s.list[i], t)}
  IN [s EXCEPT !.list = InsertAt(@, IF later = {} THEN Len(@) + 1 ELSE Min(later), t)]

\* rt_timer_start
TimerStart(s, t) ==
  TimerInsert([TimerRemove(s, t) EXCEPT
                 !.timeout[t] = (s.tick + s.time[t]) % TickMod,
                 !.active = @ \cup {t}], t)

\* rt_timer_detach, rt_timer_delete, and rt_timer_stop of an active timer
TimerStop(s, t) == [TimerRemove(s, t) EXCEPT !.active = @ \ {t}]

HeadExpired_Strict(s) ==
  s.list # <<>> /\ Minus(s.tick, s.timeout[Head(s.list)]) \in 1..(Half - 1)

\* the first timer is due
HeadExpired(s) ==
  s.list # <<>> /\ Minus(s.tick, s.timeout[Head(s.list)]) < Half

\* it leaves the list for its callback
FireHead(s) ==
  LET t == Head(s.list)
  IN [TimerRemove(s, t) EXCEPT !.local = <<t>>,
                               !.active = IF t \in s.periodic THEN @ ELSE @ \ {t}]

\* After its callback a timer that is still in the local list leaves it, and starts
\* again if it is periodic: it is not there when the callback, or someone else
\* meanwhile, stopped or restarted it.
Restarts(s) == ToSet(s.local) \cap s.periodic \cap s.active
AfterCallback(s) ==
  LET r == [s EXCEPT !.local = <<>>]
  IN IF Restarts(s) = {} THEN r ELSE TimerStart(r, Head(s.local))

InitTimers == [tick |-> TickMod - 2,
               list |-> <<>>, local |-> <<>>,
               timeout |-> [t \in Timer |-> 0],
               time |-> [t \in Timer |-> Min(Times)],
               periodic |-> {}, active |-> {}]
=============================================================================
