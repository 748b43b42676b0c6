----------------------------- MODULE SoftTimer ------------------------------
(***************************************************************************)
(* The soft timers and the thread that runs their callbacks.  It sleeps    *)
(* until the first of them is due, for ever when there is none, and is     *)
(* resumed by whoever starts one.  The callers are less urgent threads,    *)
(* that only run while the timer thread sleeps, or also interrupt handlers *)
(* and more urgent threads (Preempting).                                   *)
(***************************************************************************)
EXTENDS TimerOps

CONSTANTS Preempting,
          MaxLate     \* ticks for which other threads keep the processor from it

ASSUME SoftTimerAssumption == /\ Preempting \in BOOLEAN
                              /\ MaxLate \in Nat /\ MaxLate < Half

VARIABLES s,
          th,         \* where the timer thread is
          next,       \* next_timeout, as a tick and then as a number of ticks
          wait,       \* ticks until its own thread timer ends the delay
          left,       \* ticks until each linked timer is due (history)
          lag,        \* ticks since next_timeout was computed (history)
          turned      \* timers made one-shot while their own callback, as that of
                      \* a periodic timer, was running (history)
vars == <<s, th, next, wait, left, lag, turned>>

TH == {"look", "suspend", "compute", "delay",    \* in _timer_thread_entry
       "suspended", "delayed",                   \* asleep there
       "check", "callback", "callbackWaits"}     \* in rt_soft_timer_check
Asleep == {"suspended", "delayed"}

Init == /\ s = InitTimers
        /\ th = "look"
        /\ next = 0 /\ wait = 0
        /\ left = [t \in Timer |-> 0]
        /\ lag = 0
        /\ turned = {}

Linked(t) == t \in ToSet(s.list)

-----------------------------------------------------------------------------
(* The functions: called by others, or by a callback *)

Others == th \in Asleep \cup {"callbackWaits"} \/ (Preempting /\ th # "callback")
Calls == Others \/ th = "callback"

Wakes_OnlySuspended == th = "suspended"
Wakes_OnlyDelayed == th = "delayed"

\* _soft_timer_status is RT_SOFT_TIMER_IDLE and the timer thread is suspended
Wakes == th \in Asleep

Start(t) == /\ Calls
            /\ s' = TimerStart(s, t)
            /\ th' = IF Wakes THEN "check" ELSE th
            /\ wait' = IF Wakes THEN 0 ELSE wait
            /\ lag' = IF Wakes THEN 0 ELSE lag
            /\ left' = [left EXCEPT ![t] = s.time[t]]
            /\ turned' = turned \ {t}
            /\ UNCHANGED next

Stop(t) == /\ Calls /\ t \in s.active
           /\ s' = TimerStop(s, t)
           /\ left' = [left EXCEPT ![t] = 0]
           /\ turned' = turned \ {t}
           /\ UNCHANGED <<th, next, wait, lag>>

\* rt_timer_control; a periodic timer that is made a one-shot one while its callback
\* runs, by the callback or by another thread, is not restarted and stays marked active
Control(t) ==
  /\ Calls
  /\ \/ \E v \in Times : s' = [s EXCEPT !.time[t] = v] /\ UNCHANGED turned
     \/ /\ s' = [s EXCEPT !.periodic = @ \ {t}]
        /\ turned' = turned \cup ({t} \cap ToSet(s.local) \cap s.active)
     \/ /\ s' = [s EXCEPT !.periodic = @ \cup {t}]
        /\ turned' = turned \ ({t} \cap ToSet(s.local))
  /\ UNCHANGED <<th, next, wait, left, lag>>

-----------------------------------------------------------------------------
(* _timer_thread_entry *)

Look == /\ th = "look"
        /\ \/ s.list = <<>> /\ th' = "suspend" /\ UNCHANGED next
           \/ s.list # <<>> /\ th' = "compute" /\ next' = s.timeout[Head(s.list)]
        /\ UNCHANGED <<s, wait, left, lag, turned>>

\* "no software timer exist, suspend self."
SuspendSelf == /\ th = "suspend"
               /\ th' = "suspended"
               /\ UNCHANGED <<s, next, wait, left, lag, turned>>

Compute == /\ th = "compute"
           /\ \/ /\ Minus(next, s.tick) < Half
                 /\ next' = Minus(next, s.tick) /\ th' = "delay"
              \/ /\ Minus(next, s.tick) >= Half
                 /\ next' = 0 /\ th' = "check"
           /\ lag' = 0
           /\ UNCHANGED <<s, wait, left, turned>>

\* rt_thread_delay, which returns at once for 0 ticks
Delay == /\ th = "delay"
         /\ th' = IF next = 0 THEN "check" ELSE "delayed"
         /\ wait' = next /\ next' = 0
         /\ UNCHANGED <<s, left, lag, turned>>

-----------------------------------------------------------------------------
(* rt_soft_timer_check; the status is RT_SOFT_TIMER_BUSY during a callback *)

Fire == /\ th = "check" /\ HeadExpired(s)
        /\ s' = FireHead(s)
        /\ left' = [left EXCEPT ![Head(s.list)] = 0]
        /\ th' = "callback"
        /\ UNCHANGED <<next, wait, lag, turned>>

\* a callback may wait for something, and goes on when that comes
CallbackWaits == /\ th = "callback" /\ th' = "callbackWaits"
                 /\ UNCHANGED <<s, next, wait, left, lag, turned>>
CallbackGoesOn == /\ th = "callbackWaits" /\ th' = "callback"
                  /\ UNCHANGED <<s, next, wait, left, lag, turned>>

Return_NoRestart == /\ th = "callback"
                    /\ s' = [s EXCEPT !.local = <<>>]
                    /\ th' = "check"
                    /\ UNCHANGED <<next, wait, left, lag, turned>>

Return == /\ th = "callback"
          /\ s' = AfterCallback(s)
          /\ left' = [t \in Timer |-> IF t \in Restarts(s) THEN s.time[t] ELSE left[t]]
          /\ th' = "check"
          /\ UNCHANGED <<next, wait, lag, turned>>

Leave == /\ th = "check" /\ ~HeadExpired(s)
         /\ th' = "look"
         /\ UNCHANGED <<s, next, wait, left, lag, turned>>

-----------------------------------------------------------------------------
\* The timer thread is urgent: while it can run, no timer gets later than MaxLate,
\* and no more ticks come before it goes to sleep.
Tick == /\ th \in Asleep \/ \A t \in ToSet(s.list) : left[t] > -MaxLate
        /\ th = "delay" => lag < MaxLate
        /\ lag' = CASE th = "delay"                 -> lag + 1
                    [] th = "delayed" /\ wait > 1 -> lag
                    [] OTHER                      -> 0
        /\ s' = [s EXCEPT !.tick = (@ + 1) % TickMod]
        /\ left' = [t \in Timer |-> IF Linked(t) /\ left[t] > -Half THEN left[t] - 1 ELSE left[t]]
        /\ wait' = IF th = "delayed" THEN wait - 1 ELSE wait
        /\ th' = IF th = "delayed" /\ wait = 1 THEN "check" ELSE th
        /\ UNCHANGED <<next, turned>>

TimerThread == \/ Look \/ SuspendSelf \/ Compute \/ Delay
               \/ Fire \/ CallbackGoesOn \/ Return \/ Leave

Next == \/ TimerThread \/ CallbackWaits \/ Tick
        \/ \E t \in Timer : Start(t) \/ Stop(t) \/ Control(t)

Spec == Init /\ [][Next]_vars

\* The timer thread gets the processor, callbacks end, and ticks keep coming.
FairSpec == Spec /\ WF_vars(Tick) /\ WF_vars(TimerThread) /\ SF_vars(Return)

-----------------------------------------------------------------------------
TypeOK == /\ s \in TimerState
          /\ th \in TH
          /\ next \in 0..(TickMod - 1) /\ wait \in 0..(Half - 1)
          /\ left \in [Timer -> -Half..(Half - 1)]
          /\ lag \in 0..MaxLate
          /\ turned \subseteq Timer

\* A timer is linked once; the linked ones are active, and an active one is linked or
\* is the periodic one whose callback runs, although others stop and restart it
\* meanwhile: but for a periodic timer made one-shot while its callback ran, which
\* rt_soft_timer_check leaves active and in no list until it is started or stopped.
Consistent ==
  /\ TypeOK
  /\ IsInjective(s.list) /\ ToSet(s.list) \cap ToSet(s.local) = {}
  /\ s.local # <<>> => th \in {"callback", "callbackWaits"} /\ Len(s.local) = 1
  /\ ToSet(s.list) \subseteq s.active
  /\ s.active \subseteq ToSet(s.list) \cup ToSet(s.local) \cup turned
  /\ turned \subseteq s.active \ ToSet(s.list)

\* While the timer thread sleeps it has not missed a timer: for ever only when there
\* is none, and otherwise not past the tick of the first one, but for the ticks that
\* came between its look at the clock and its delay.
SleepsForTheFirst ==
  /\ th = "suspended" => s.list = <<>>
  /\ th = "delayed" => \A t \in ToSet(s.list) : wait <= left[t] + lag

\* A timer whose time is up fires in the end, unless it is stopped or restarted, and
\* no callback runs before that.
FiresInTime ==
  /\ [][th = "check" /\ th' = "callback" => left[Head(s.list)] <= 0]_vars
  /\ \A t \in Timer : Linked(t) /\ left[t] <= 0 ~> ~Linked(t) \/ left[t] > 0
=============================================================================
