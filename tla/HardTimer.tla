----------------------------- MODULE HardTimer ------------------------------
(***************************************************************************)
(* The hard timers: threads and interrupt handlers start, stop and change  *)
(* them, the tick interrupt runs the callbacks of those that are due, and   *)
(* a callback may do all that too, with its own timer as well.             *)
(***************************************************************************)
EXTENDS TimerOps

VARIABLES s,
          pc,         \* who runs: a thread, the tick interrupt before it looks at
                      \* the timers, rt_timer_check, or a callback
          left,       \* ticks until each linked timer is due (history)
          turned      \* timers made one-shot while their own callback, as that of
                      \* a periodic timer, was running (history)
vars == <<s, pc, left, turned>>

PC == {"thread", "tick", "check", "callback"}

Init == /\ s = InitTimers
        /\ pc = "thread"
        /\ left = [t \in Timer |-> 0]
        /\ turned = {}

-----------------------------------------------------------------------------
(* The functions, wherever interrupts are enabled and in callbacks *)

Calls == pc # "check"
Linked(t) == t \in ToSet(s.list)

Start(t) == /\ Calls
            /\ s' = TimerStart(s, t)
            /\ left' = [left EXCEPT ![t] = s.time[t]]
            /\ turned' = turned \ {t}
            /\ UNCHANGED pc

Stop(t) == /\ Calls /\ t \in s.active
           /\ s' = TimerStop(s, t)
           /\ left' = [left EXCEPT ![t] = 0]
           /\ turned' = turned \ {t}
           /\ UNCHANGED pc

\* rt_timer_detach, and rt_timer_init of the detached timer
Renew(t, v, periodic) ==
  /\ Calls
  /\ s' = [TimerStop(s, t) EXCEPT
             !.time[t] = v,
             !.periodic = IF periodic THEN @ \cup {t} ELSE @ \ {t}]
  /\ left' = [left EXCEPT ![t] = 0]
  /\ turned' = turned \ {t}
  /\ UNCHANGED pc

\* rt_timer_control.  RT_TIMER_CTRL_SET_ONESHOT clears a flag and nothing else: a
\* periodic timer whose callback does that is not restarted, and stays marked
\* active, unless RT_TIMER_CTRL_SET_PERIODIC takes it back in time.
SetTime(t, v) == /\ Calls
                 /\ s' = [s EXCEPT !.time[t] = v]
                 /\ UNCHANGED <<pc, left, turned>>

SetOneshot(t) == /\ Calls
                 /\ s' = [s EXCEPT !.periodic = @ \ {t}]
                 /\ turned' = turned \cup ({t} \cap ToSet(s.local) \cap s.active)
                 /\ UNCHANGED <<pc, left>>

SetPeriodic(t) == /\ Calls
                  /\ s' = [s EXCEPT !.periodic = @ \cup {t}]
                  /\ turned' = turned \ ({t} \cap ToSet(s.local))
                  /\ UNCHANGED <<pc, left>>

-----------------------------------------------------------------------------
(* The tick interrupt *)

Tick == /\ pc = "thread"
        /\ s' = [s EXCEPT !.tick = (@ + 1) % TickMod]
        /\ left' = [t \in Timer |-> IF Linked(t) THEN left[t] - 1 ELSE left[t]]
        /\ pc' = "tick"
        /\ UNCHANGED turned

Check == /\ pc = "tick"
         /\ pc' = "check"
         /\ UNCHANGED <<s, left, turned>>

Fire == /\ pc = "check" /\ HeadExpired(s)
        /\ s' = FireHead(s)
        /\ pc' = "callback"
        /\ left' = [left EXCEPT ![Head(s.list)] = 0]
        /\ UNCHANGED turned

\* the callback returns
Return == /\ pc = "callback"
          /\ s' = AfterCallback(s)
          /\ left' = [t \in Timer |-> IF t \in Restarts(s) THEN s.time[t] ELSE left[t]]
          /\ pc' = "check"
          /\ UNCHANGED turned

Leave == /\ pc = "check" /\ ~HeadExpired(s)
         /\ pc' = "thread"
         /\ UNCHANGED <<s, left, turned>>

-----------------------------------------------------------------------------
Call(t) == \/ Start(t) \/ Stop(t) \/ SetOneshot(t) \/ SetPeriodic(t)
           \/ \E v \in Times : \/ SetTime(t, v)
                               \/ \E periodic \in BOOLEAN : Renew(t, v, periodic)

Next == \/ \E t \in Timer : Call(t)
        \/ Tick \/ Check \/ Fire \/ Return \/ Leave

Spec == Init /\ [][Next]_vars

-----------------------------------------------------------------------------
TypeOK == /\ s \in TimerState
          /\ pc \in PC
          /\ left \in [Timer -> -1..(Half - 1)]
          /\ turned \subseteq Timer

\* The list is sorted by the ticks that are left, although timeout_tick wraps.
InOrder ==
  \A i, j \in DOMAIN s.list : i < j => left[s.list[i]] <= left[s.list[j]]

\* A timer is linked once; the linked ones are active, and an active one is linked
\* or is the periodic timer whose callback runs, however callbacks stop, restart,
\* renew or change timers, their own included.  The one exception is a periodic
\* timer made one-shot by its own callback: rt_timer_check neither restarts it nor
\* clears RT_TIMER_FLAG_ACTIVATED, until it is started or stopped again.
Consistent ==
  /\ TypeOK
  /\ IsInjective(s.list) /\ ToSet(s.list) \cap ToSet(s.local) = {}
  /\ s.local # <<>> => pc = "callback" /\ Len(s.local) = 1
  /\ ToSet(s.list) \subseteq s.active
  /\ s.active \subseteq ToSet(s.list) \cup ToSet(s.local) \cup turned
  /\ turned \subseteq s.active \ ToSet(s.list)
  /\ InOrder

\* A timer fires in the tick in which its time is up: no callback runs early, and
\* when the interrupt leaves rt_timer_check none that is due is left in the list.
OnTime ==
  [][/\ pc = "check" /\ pc' = "callback" => left[Head(s.list)] <= 0
     /\ pc = "check" /\ pc' = "thread" => \A t \in ToSet(s.list) : left[t] > 0]_vars
=============================================================================
