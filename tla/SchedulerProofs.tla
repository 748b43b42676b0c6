--------------------------- MODULE SchedulerProofs --------------------------
(***************************************************************************)
(* Consistent is an inductive invariant of the scheduler under a           *)
(* disciplined application, for any threads, priorities, time slice and    *)
(* nesting bound; type correctness and the safety invariants of the model- *)
(* checking runs follow.  One lemma per group of actions, by what the      *)
(* action does to the kernel record.                                       *)
(***************************************************************************)
EXTENDS Scheduler, KernelProofs

USE SchedulerAssumption, ThreadAssumption

-----------------------------------------------------------------------------
(* The parts of Consistent, unprimed and used one at a time *)

LEMMA Parts ==
  ASSUME Consistent
  PROVE  /\ k \in Kernel /\ k.cur \in Thread /\ k.stat \in [Thread -> Stat]
         /\ k.nest \in Nat /\ k.timer \in SUBSET Thread
         /\ pc \in [Thread -> PC] /\ arg \in [Thread -> Thread \cup {None}]
         /\ QueueLists(k, Removed) /\ OneRunning(k)
         /\ Removed \subseteq Thread
         /\ k.cur \notin Removed
<1>1. k \in Kernel /\ pc \in [Thread -> PC] /\ arg \in [Thread -> Thread \cup {None}]
  BY DEF Consistent, TypeOK
<1>2. \A t \in Thread : pc[t] = "close" => arg[t] \in Thread
  BY <1>1 DEF ForCheck, Consistent, Args, Working, ForClose
<1>3. Removed \subseteq Thread
  BY <1>2 DEF Removed
<1>4. k.cur \notin Removed
  BY DEF Consistent, Closing, ForClose, Removed
<1> QED BY <1>1, <1>3, <1>4 DEF Kernel, Consistent, QueueInv

LEMMA InitConsistent == Init => Consistent
<1> SUFFICES ASSUME Init PROVE Consistent
  OBVIOUS
<1>1. /\ k.cur = Main
      /\ k.stat = [t \in Thread |-> CASE t = Main -> "RUNNING"
                                      [] t = Idle -> "READY"
                                      [] OTHER    -> "INIT"]
      /\ k.prio = InitPrio
      /\ k.ready = [p \in Prio |-> IF p = InitPrio[Idle] THEN <<Idle>> ELSE <<>>]
      /\ k.wait = [o \in WaitObj |-> <<>>]
      /\ k.defunct = <<>> /\ k.group = {InitPrio[Idle]} /\ k.timer = {}
      /\ pc = [t \in Thread |-> "run"] /\ arg = [t \in Thread |-> None]
  BY DEF Init
<1>2. k \in Kernel
  <2>1. Slice \in 1..Slice
    BY SliceAssumption
  <2> QED BY <2>1 DEF Init, Kernel, Stat, Error
<1>3. Removed = {}
  BY <1>1 DEF Removed
<1>4. /\ <<Idle>> \in Seq(Thread) /\ <<Idle>> # <<>>
      /\ ToSet(<<Idle>>) = {Idle} /\ IsInjective(<<Idle>>)
      /\ ToSet(<<>>) = {} /\ IsInjective(<<>>)
  BY DEF ToSet, IsInjective
<1>5. WaitSet(k) = {} /\ DefunctSet(k) = {}
  BY <1>1, <1>4 DEF WaitSet, DefunctSet
<1>6. ReadyLists(k, Removed)
  BY <1>1, <1>3, <1>4 DEF ReadyLists
<1>7. Bitmap(k)
  BY <1>1, <1>4 DEF Bitmap
<1>8. NoRepeats(k)
  BY <1>1, <1>4 DEF NoRepeats
<1>9. OneRunning(k) /\ OtherLists(k)
  BY <1>1, <1>5 DEF OneRunning, OtherLists
<1>10. TypeOK
  BY <1>1, <1>2 DEF TypeOK, PC
<1>11. Args /\ IdleReclaims /\ Resuming /\ Closing /\ OneHand /\ Timers
  BY <1>1 DEF ForCheck, Args, IdleReclaims, Resuming, Closing, OneHand, Timers,
              Working, ForIdle, ForClose, ForResume
<1> QED
  BY <1>2, <1>5, <1>6, <1>7, <1>8, <1>9, <1>10, <1>11 DEF Consistent, QueueInv, QueueLists

-----------------------------------------------------------------------------
(* Steps that run the scheduler *)

\* A reschedule leaves all that other steps have in hand as it was.
LEMMA RescheduleConsistent ==
  ASSUME Consistent, arg' = arg,
         pc' \in [Thread -> PC],
         \A t \in Thread : pc'[t] = pc[t] \/ {pc'[t], pc[t]} \cap Working = {},
         pc'[Idle] = pc[Idle],
         QueueInv(k', Removed), k'.cur \notin Removed, Scheduled(k', k)
  PROVE  Consistent'
<1>1. /\ k'.timer = k.timer /\ k'.nest = k.nest
      /\ WaitSet(k') = WaitSet(k) /\ DefunctSet(k') = DefunctSet(k)
      /\ k'.cur = k.cur \/ (k.nest = 0 /\ k.stat[k'.cur] = "READY")
      /\ \A x \in Thread : \/ k'.stat[x] = k.stat[x]
                           \/ {k'.stat[x], k.stat[x]} = {"READY", "RUNNING"}
  BY DEF Scheduled, SameOthers
<1>2. Removed' = Removed
  BY DEF ForCheck, Removed, Working, ForClose
<1>3. TypeOK'
  BY DEF Consistent, TypeOK, QueueInv, QueueLists
<1>4. Args'
  BY <1>1 DEF Consistent, Args, TypeOK
<1>5. IdleReclaims'
  BY <1>1 DEF ForCheck, Consistent, IdleReclaims, Working, ForIdle, Args, TypeOK
<1>6. Resuming'
  BY <1>1 DEF ForCheck, Consistent, Resuming, Working, ForResume, Args, TypeOK
<1>7. Closing'
  <2>1. Closing /\ Args /\ TypeOK /\ OneRunning(k)
    BY DEF Consistent, QueueInv
  <2> SUFFICES ASSUME NEW x \in Thread, pc'[x] \in ForClose, arg'[x] # x
               PROVE  /\ arg'[x] # k'.cur /\ arg'[x] # Idle /\ arg'[arg'[x]] = None
                      /\ \/ k'.stat[arg'[x]] \in {"INIT", "SUSPEND"}
                         \/ x = k'.cur /\ k'.nest > 0 /\ k'.stat[arg'[x]] = "READY"
    BY DEF Closing
  <2> DEFINE a == arg[x]
  <2>2. pc[x] \in ForClose /\ arg' = arg /\ a # None
    BY <2>1 DEF ForCheck, Args, Working, ForClose
  <2>3. /\ a # k.cur /\ a # Idle /\ arg[a] = None /\ a \in Thread
        /\ \/ k.stat[a] \in {"INIT", "SUSPEND"}
           \/ x = k.cur /\ k.nest > 0 /\ k.stat[a] = "READY"
    BY <2>1, <2>2 DEF Closing, TypeOK
  <2> HIDE DEF a
  <2>4. k'.cur = k.cur \/ (k.nest = 0 /\ k.stat[k'.cur] = "READY")
    BY <1>1
  <2>5. k.stat[a] \in {"INIT", "SUSPEND"} => k'.stat[a] = k.stat[a]
    BY <1>1, <2>3
  <2>6. k.stat[a] = "READY" => k'.stat[a] \in {"READY", "RUNNING"}
    BY <1>1, <2>3
  <2>7. k'.stat[a] = "RUNNING" => a = k'.cur
    BY <2>3 DEF QueueInv, OneRunning
  <2> QED BY <1>1, <2>2, <2>3, <2>4, <2>5, <2>6, <2>7 DEF a
<1>8. OneHand'
  BY <1>1 DEF ForCheck, Consistent, OneHand, Working, Args, TypeOK
<1>9. Timers'
  <2>1. \A u \in k.timer : u \in Thread
    BY Parts
  <2> QED BY <1>1, <2>1 DEF Consistent, Timers
<1> QED BY <1>1, <1>2, <1>3, <1>4, <1>5, <1>6, <1>7, <1>8, <1>9 DEF Consistent

LEMMA DoScheduleStep ==
  ASSUME Consistent, NEW t \in Thread, DoSchedule(t)
  PROVE  Consistent'
<1>1. QueueInv(k, Removed) /\ k.cur \notin Removed
  BY Parts DEF Consistent
<1>2. QueueInv(k', Removed) /\ k'.cur \notin Removed /\ Scheduled(k', k)
  BY <1>1, ScheduleLemma DEF DoSchedule
<1>3. /\ arg' = arg
      /\ \/ pc[t] = "sched" /\ pc' = [pc EXCEPT ![t] = "run"]
         \/ pc[t] = "sleepSched" /\ pc' = [pc EXCEPT ![t] = "woken"]
  BY DEF DoSchedule, At, Goto
<1>4. pc[Idle] \notin {"sched", "sleepSched"}
  BY DEF Consistent, IdleReclaims, ForIdle
<1>5. pc \in [Thread -> PC] /\ {"run", "woken"} \subseteq PC
  BY Parts DEF PC
<1>6. pc' \in [Thread -> PC] /\ pc'[Idle] = pc[Idle]
  BY <1>3, <1>4, <1>5
<1>7. \A x \in Thread : pc'[x] = pc[x] \/ {pc'[x], pc[x]} \cap Working = {}
  BY <1>3, <1>5 DEF ForCheck, Working, ForIdle, ForClose, ForResume
<1> QED BY <1>2, <1>3, <1>6, <1>7, RescheduleConsistent

LEMMA TickStep ==
  ASSUME Consistent, Tick
  PROVE  Consistent'
<1>1. QueueInv(k, Removed) /\ k.cur \notin Removed
  BY Parts DEF Consistent
<1>2. QueueInv(k', Removed) /\ k'.cur \notin Removed /\ Scheduled(k', k)
  BY <1>1, TickSliceLemma DEF Tick
<1>3. arg' = arg /\ pc' = pc /\ pc \in [Thread -> PC]
  BY Parts DEF Tick
<1> QED BY <1>2, <1>3, RescheduleConsistent

\* A thread whose timer runs is in no one's hands.
LEMMA TimerExpireStep ==
  ASSUME Consistent, NEW u \in Thread, TimerExpire(u)
  PROVE  Consistent'
<1>1. /\ u \in k.timer /\ k' = ThreadTimeout(k, u) /\ pc' = pc /\ arg' = arg
  BY DEF TimerExpire
<1>2. /\ k.stat[u] = "SUSPEND" /\ \A t \in Thread : arg[t] # u
  BY <1>1 DEF Consistent, Timers
<1>3. u \notin Removed
  BY <1>2 DEF Removed
<1>4. QueueInv(k, Removed) /\ k.cur \notin Removed
  BY Parts DEF Consistent
<1>5. /\ QueueInv(k', Removed) /\ k'.cur \notin Removed
      /\ k'.nest = k.nest /\ k'.timer = k.timer \ {u}
      /\ WaitSet(k') = WaitSet(k) \ {u} /\ DefunctSet(k') = DefunctSet(k)
      /\ k'.cur = k.cur \/ (k.nest = 0 /\ (k.stat[k'.cur] = "READY" \/ k'.cur = u))
      /\ k'.stat[u] \in {"READY", "RUNNING"}
      /\ \A x \in Thread : \/ x = u
                           \/ k'.stat[x] = k.stat[x]
                           \/ {k'.stat[x], k.stat[x]} = {"READY", "RUNNING"}
  BY <1>1, <1>2, <1>3, <1>4, TimeoutLemma
<1>6. Removed' = Removed
  BY <1>1 DEF Removed
<1>7. TypeOK' /\ WaitSet(k') = {}
  BY <1>1, <1>5 DEF Consistent, TypeOK, QueueInv, QueueLists
<1>8. Args'
  BY <1>1, <1>2, <1>5 DEF Consistent, Args, TypeOK
<1>9. IdleReclaims'
  BY <1>1, <1>2, <1>5 DEF ForCheck, Consistent, IdleReclaims, Working, ForIdle, Args, TypeOK
<1>10. Resuming'
  BY <1>1, <1>2, <1>5 DEF ForCheck, Consistent, Resuming, Working, ForResume, Args, TypeOK
<1>11. Closing'
  BY <1>1, <1>2, <1>5 DEF ForCheck, Consistent, Closing, Working, ForClose, Args, TypeOK, QueueInv, OneRunning
<1>12. OneHand'
  BY <1>1, <1>2, <1>5 DEF ForCheck, Consistent, OneHand, Working, Args, TypeOK
<1>13. Timers'
  <2>1. \A x \in k.timer : x \in Thread
    BY Parts
  <2> QED BY <1>1, <1>5, <2>1 DEF Consistent, Timers
<1> QED
  BY <1>5, <1>6, <1>7, <1>8, <1>9, <1>10, <1>11, <1>12, <1>13 DEF Consistent

-----------------------------------------------------------------------------
(* Steps that change neither a list nor a state *)

LEMMA QuietConsistent ==
  ASSUME Consistent, arg' = arg,
         pc' \in [Thread -> PC],
         \A t \in Thread : pc'[t] = pc[t] \/ {pc'[t], pc[t]} \cap Working = {},
         pc'[Idle] = pc[Idle],
         k' \in Kernel, SameLists(k', k),
         k'.stat = k.stat, k'.cur = k.cur, k'.timer = k.timer,
         k'.nest = k.nest \/ pc[k.cur] = "run"
  PROVE  Consistent'
<1>1. QueueInv(k', Removed) /\ WaitSet(k') = WaitSet(k) /\ DefunctSet(k') = DefunctSet(k)
  BY FrameInv DEF Consistent, SameOthers
<1>2. Removed' = Removed
  BY DEF ForCheck, Removed, Working, ForClose
<1>3. TypeOK'
  BY DEF Consistent, TypeOK
<1>4. Args'
  BY DEF Consistent, Args, TypeOK
<1>5. IdleReclaims'
  BY <1>1 DEF ForCheck, Consistent, IdleReclaims, Working, ForIdle, TypeOK
<1>6. Resuming'
  BY DEF ForCheck, Consistent, Resuming, Working, ForResume, TypeOK
<1>7. Closing'
  BY DEF ForCheck, Consistent, Closing, Working, ForClose, TypeOK
<1>8. OneHand'
  BY DEF ForCheck, Consistent, OneHand, Working, Args, TypeOK
<1>9. Timers'
  BY DEF Consistent, Timers
<1> QED BY <1>1, <1>2, <1>3, <1>4, <1>5, <1>6, <1>7, <1>8, <1>9 DEF Consistent

\* t goes from one step outside of Working to another
LEMMA OutsideWorking ==
  ASSUME Consistent, NEW t \in Thread, t # Idle, pc[t] \notin Working,
         NEW l \in PC \ Working, pc' = [pc EXCEPT ![t] = l]
  PROVE  /\ pc' \in [Thread -> PC]
         /\ \A x \in Thread : pc'[x] = pc[x] \/ {pc'[x], pc[x]} \cap Working = {}
         /\ pc'[Idle] = pc[Idle]
BY DEF Consistent, TypeOK

LEMMA YieldStep ==
  ASSUME Consistent, NEW t \in Thread, YieldCall(t)
  PROVE  Consistent'
<1>1. /\ t # Idle /\ t = k.cur /\ pc[t] = "run" /\ k' = Yield(k, t) /\ arg' = arg
      /\ pc' = [pc EXCEPT ![t] = "sched"]
  BY DEF YieldCall, Calls, Goto
<1>2. k \in Kernel /\ Slice \in 1..Slice
  BY Parts, SliceAssumption
<1>3. /\ k' \in Kernel /\ SameLists(k', k)
      /\ k'.stat = k.stat /\ k'.cur = k.cur /\ k'.timer = k.timer /\ k'.nest = k.nest
  BY <1>1, <1>2 DEF Yield, Kernel, SameLists
<1>4. pc[t] \notin Working /\ "sched" \in PC \ Working
  BY <1>1 DEF ForCheck, Working, ForIdle, ForClose, ForResume, PC
<1>5. /\ pc' \in [Thread -> PC]
      /\ \A x \in Thread : pc'[x] = pc[x] \/ {pc'[x], pc[x]} \cap Working = {}
      /\ pc'[Idle] = pc[Idle]
  BY <1>1, <1>4, OutsideWorking
<1> QED BY <1>1, <1>3, <1>5, QuietConsistent

LEMMA ScheduleCallStep ==
  ASSUME Consistent, NEW t \in Thread, ScheduleCall(t)
  PROVE  Consistent'
<1>1. /\ t # Idle /\ t = k.cur /\ pc[t] = "run" /\ k' = k /\ arg' = arg
      /\ pc' = [pc EXCEPT ![t] = "sched"]
  BY DEF ScheduleCall, Calls, Goto
<1>2. k' \in Kernel /\ SameLists(k', k)
  BY <1>1, Parts DEF SameLists
<1>3. pc[t] \notin Working /\ "sched" \in PC \ Working
  BY <1>1 DEF ForCheck, Working, ForIdle, ForClose, ForResume, PC
<1>4. /\ pc' \in [Thread -> PC]
      /\ \A x \in Thread : pc'[x] = pc[x] \/ {pc'[x], pc[x]} \cap Working = {}
      /\ pc'[Idle] = pc[Idle]
  BY <1>1, <1>3, OutsideWorking
<1> QED BY <1>1, <1>2, <1>4, QuietConsistent

LEMMA SleepEndStep ==
  ASSUME Consistent, NEW t \in Thread, SleepMark(t) \/ SleepReturn(t)
  PROVE  Consistent'
<1>1. PICK e \in Error :
        /\ k' = [k EXCEPT !.error[t] = e] /\ arg' = arg
        /\ \/ pc[t] = "slept" /\ pc' = [pc EXCEPT ![t] = "sleepSched"]
           \/ pc[t] = "woken" /\ pc' = [pc EXCEPT ![t] = "run"]
  <2>1. CASE SleepMark(t)
    BY <2>1 DEF SleepMark, At, Goto, Error
  <2>2. CASE SleepReturn(t)
    <3>1. k.error[t] \in Error
      BY Parts DEF Kernel
    <3>2. (IF k.error[t] = "ETIMEOUT" THEN "EOK" ELSE k.error[t]) \in Error
      BY <3>1 DEF Error
    <3>3. k' = [k EXCEPT !.error[t] = IF k.error[t] = "ETIMEOUT" THEN "EOK" ELSE k.error[t]]
      BY <2>2 DEF SleepReturn
    <3> QED BY <2>2, <3>2, <3>3 DEF SleepReturn, At, Goto
  <2> QED BY <2>1, <2>2
<1>2. k \in Kernel
  BY Parts
<1>3. /\ k' \in Kernel /\ SameLists(k', k)
      /\ k'.stat = k.stat /\ k'.cur = k.cur /\ k'.timer = k.timer /\ k'.nest = k.nest
  BY <1>1, <1>2 DEF Kernel, SameLists
<1>4. pc[t] \notin Working /\ {"sleepSched", "run"} \subseteq PC \ Working
  BY <1>1 DEF ForCheck, Working, ForIdle, ForClose, ForResume, PC
<1>5. t # Idle
  BY <1>1 DEF Consistent, IdleReclaims, ForIdle
<1>6. /\ pc' \in [Thread -> PC]
      /\ \A x \in Thread : pc'[x] = pc[x] \/ {pc'[x], pc[x]} \cap Working = {}
      /\ pc'[Idle] = pc[Idle]
  BY <1>1, <1>4, <1>5, OutsideWorking
<1> QED BY <1>1, <1>3, <1>6, QuietConsistent

LEMMA CriticalStep ==
  ASSUME Consistent, NEW t \in Thread, EnterCritical(t) \/ ExitCritical(t)
  PROVE  Consistent'
<1>1. PICK d \in Nat :
        /\ k' = [k EXCEPT !.nest = d] /\ arg' = arg
        /\ t = k.cur /\ t # Idle /\ pc[t] = "run"
        /\ pc' = pc \/ pc' = [pc EXCEPT ![t] = "sched"]
  <2>1. k.nest \in Nat /\ pc \in [Thread -> PC]
    BY Parts
  <2>2. CASE EnterCritical(t)
    <3>1. k.nest + 1 \in Nat
      BY <2>1
    <3> QED BY <2>2, <3>1 DEF EnterCritical, Calls
  <2>3. CASE ExitCritical(t)
    <3>1. k.nest > 0
      BY <2>3 DEF ExitCritical
    <3>2. k.nest - 1 \in Nat
      BY <2>1, <3>1
    <3>3. k' = [k EXCEPT !.nest = k.nest - 1] /\ arg' = arg
          /\ t = k.cur /\ t # Idle /\ pc[t] = "run"
      BY <2>3 DEF ExitCritical, Calls
    <3>4. pc' = pc \/ pc' = [pc EXCEPT ![t] = "sched"]
      BY <2>1, <2>3, <3>3 DEF ExitCritical, Goto
    <3> QED BY <3>2, <3>3, <3>4
  <2> QED BY <2>2, <2>3
<1>2. k \in Kernel /\ pc \in [Thread -> PC]
  BY Parts
<1>3. /\ k' \in Kernel /\ SameLists(k', k)
      /\ k'.stat = k.stat /\ k'.cur = k.cur /\ k'.timer = k.timer
  BY <1>1, <1>2 DEF Kernel, SameLists
<1>4. pc[t] \notin Working /\ "sched" \in PC \ Working
  BY <1>1 DEF ForCheck, Working, ForIdle, ForClose, ForResume, PC
<1>5. /\ pc' \in [Thread -> PC]
      /\ \A x \in Thread : pc'[x] = pc[x] \/ {pc'[x], pc[x]} \cap Working = {}
      /\ pc'[Idle] = pc[Idle]
  <2>1. CASE pc' = pc
    BY <2>1, <1>2
  <2>2. CASE pc' = [pc EXCEPT ![t] = "sched"]
    BY <2>2, <1>1, <1>4, OutsideWorking
  <2> QED BY <1>1, <2>1, <2>2
<1>6. pc[k.cur] = "run"
  BY <1>1
<1> QED BY <1>1, <1>3, <1>5, <1>6, QuietConsistent

-----------------------------------------------------------------------------
(* Steps of the current thread on itself *)

\* A running thread is in no one's hands but its own.
LEMMA RunningAlone ==
  ASSUME Consistent, NEW t \in Thread, k.stat[t] = "RUNNING"
  PROVE  /\ t = k.cur /\ t \notin Removed /\ t \notin k.timer
         /\ \A s \in Thread : s # t => arg[s] # t
<1>1. t = k.cur /\ t \notin Removed
  BY Parts DEF OneRunning
<1>2. t \notin k.timer
  BY DEF Consistent, Timers
<1>3. ASSUME NEW s \in Thread, s # t, arg[s] = t PROVE FALSE
  <2>1. arg[s] # None /\ pc[s] \in Working
    BY <1>3 DEF Consistent, Args
  <2>2. pc[s] \notin ForCheck /\ pc[s] \notin ForResume
    BY <1>3 DEF Consistent, Resuming
  <2>3. pc[s] \notin ForIdle
    BY <1>3 DEF Consistent, IdleReclaims
  <2>4. pc[s] \notin ForClose
    BY <1>1, <1>3 DEF Consistent, Closing
  <2> QED BY <2>1, <2>2, <2>3, <2>4 DEF Working
<1> QED BY <1>1, <1>2, <1>3

\* A running thread t leaves the ready threads.
LEMMA LeaveConsistent ==
  ASSUME Consistent, NEW t \in Thread, t # Idle, k.stat[t] = "RUNNING", pc[t] = "run",
         NEW l \in PC \ Working, pc' = [pc EXCEPT ![t] = l], arg' = arg,
         NEW st \in {"SUSPEND", "CLOSE"},
         QueueInv(k', Removed), WaitSet(k') = {}, k'.cur = k.cur, k'.nest = k.nest,
         OneStat(k', k, t, st),
         k'.timer = k.timer \/ (st = "SUSPEND" /\ k'.timer = k.timer \cup {t}),
         DefunctSet(k') = DefunctSet(k) \/ DefunctSet(k') = DefunctSet(k) \cup {t}
  PROVE  Consistent'
<1>1. /\ pc \in [Thread -> PC] /\ k.stat \in [Thread -> Stat]
      /\ k'.stat = [k.stat EXCEPT ![t] = st]
  BY Parts DEF OneStat
<1>2. pc[t] \notin Working /\ arg[t] = None
  BY DEF ForCheck, Consistent, Args, Working, ForIdle, ForClose, ForResume
<1>3. \A s \in Thread : arg[s] # t
  BY <1>2, RunningAlone
<1>4. Removed' = Removed
  BY <1>1, <1>2 DEF ForCheck, Removed, Working, ForClose
<1>5. TypeOK'
  BY <1>1 DEF Consistent, TypeOK, QueueInv, QueueLists
<1>6. Args'
  BY <1>1, <1>2 DEF Consistent, Args
<1>7. IdleReclaims'
  BY <1>1, <1>2, <1>3 DEF ForCheck, Consistent, IdleReclaims, Working, ForIdle
<1>8. Resuming'
  BY <1>1, <1>2, <1>3 DEF ForCheck, Consistent, Resuming, Working, ForResume, Args, TypeOK
<1>9. Closing'
  BY <1>1, <1>2, <1>3 DEF ForCheck, Consistent, Closing, Working, ForClose, Args, TypeOK
<1>10. OneHand'
  BY <1>1, <1>2, <1>3 DEF ForCheck, Consistent, OneHand, Working, Args, TypeOK
<1>11. Timers'
  <2>1. \A u \in k.timer : u \in Thread /\ u # t
    BY Parts, RunningAlone
  <2> QED BY <1>1, <1>3, <2>1 DEF Consistent, Timers
<1> QED BY <1>4, <1>5, <1>6, <1>7, <1>8, <1>9, <1>10, <1>11 DEF Consistent

LEMMA SuspendStep ==
  ASSUME Consistent, NEW t \in Thread, Suspend(t)
  PROVE  Consistent'
<1>1. /\ t = k.cur /\ t # Idle /\ pc[t] = "run" /\ k.stat[t] = "RUNNING"
      /\ k' = SuspendSelf(k) /\ pc' = [pc EXCEPT ![t] = "sched"] /\ arg' = arg
  BY DEF Suspend, Calls, Goto
<1>2. QueueInv(k, Removed) /\ WaitSet(k) = {}
  BY DEF Consistent
<1>3. /\ QueueInv(k', Removed)
      /\ k'.cur = k.cur /\ k'.nest = k.nest /\ k'.timer = k.timer \ {t}
      /\ SameOthers(k', k) /\ OneStat(k', k, t, "SUSPEND")
  BY <1>1, <1>2, SuspendSelfLemma
<1>4. k'.timer = k.timer
  BY <1>1, <1>3, RunningAlone
<1>5. "sched" \in PC \ Working
  BY DEF ForCheck, PC, Working, ForIdle, ForClose, ForResume
<1>6. WaitSet(k') = {} /\ DefunctSet(k') = DefunctSet(k)
  BY <1>2, <1>3 DEF SameOthers
<1> QED BY <1>1, <1>3, <1>4, <1>5, <1>6, LeaveConsistent

LEMMA SleepStep ==
  ASSUME Consistent, NEW t \in Thread, Sleep(t) \/ DelayUntil(t)
  PROVE  Consistent'
<1> DEFINE e == [k EXCEPT !.error[t] = "EOK"]
           s == SuspendSelf(e)
<1>1. PICK l \in {"slept", "sleepSched"} :
        /\ t = k.cur /\ t # Idle /\ pc[t] = "run" /\ k.stat[t] = "RUNNING"
        /\ k' = StartTimer(s, t) /\ pc' = [pc EXCEPT ![t] = l] /\ arg' = arg
  BY DEF Sleep, DelayUntil, Calls, Goto
<1>2. QueueInv(k, Removed) /\ WaitSet(k) = {} /\ k \in Kernel
  BY Parts DEF Consistent
<1>3. /\ e \in Kernel /\ SameLists(e, k) /\ e.stat = k.stat /\ e.cur = k.cur
      /\ e.nest = k.nest /\ e.timer = k.timer
  BY <1>2 DEF Kernel, Error, SameLists
<1> HIDE DEF e
<1>4. QueueInv(e, Removed) /\ SameOthers(e, k)
  BY <1>2, <1>3, FrameInv
<1>5. /\ QueueInv(s, Removed)
      /\ s.cur = e.cur /\ s.nest = e.nest /\ s.timer = e.timer \ {t}
      /\ SameOthers(s, e) /\ OneStat(s, e, t, "SUSPEND")
  <2>1. QueueInv(e, Removed) /\ t = e.cur /\ e.stat[t] = "RUNNING"
    BY <1>1, <1>3, <1>4
  <2>2. /\ QueueInv(s, Removed)
        /\ s.cur = e.cur /\ s.nest = e.nest /\ s.timer = e.timer \ {t}
        /\ SameOthers(s, e) /\ OneStat(s, e, t, "SUSPEND")
    BY <2>1, SuspendSelfLemma
  <2> QED BY <2>2
<1> HIDE DEF s
<1>6. s \in Kernel
  BY <1>5 DEF QueueInv, QueueLists
<1>7. /\ k' \in Kernel /\ SameLists(k', s) /\ k'.stat = s.stat /\ k'.cur = s.cur
      /\ k'.nest = s.nest /\ k'.timer = s.timer \cup {t}
  BY <1>1, <1>6 DEF StartTimer, Kernel, SameLists
<1>8. QueueInv(k', Removed) /\ SameOthers(k', s)
  BY <1>5, <1>7, FrameInv
<1>9. k'.timer = k.timer \cup {t}
  BY <1>3, <1>5, <1>7
<1>10. l \in PC \ Working
  BY DEF ForCheck, PC, Working, ForIdle, ForClose, ForResume
<1>11. WaitSet(k') = {} /\ DefunctSet(k') = DefunctSet(k)
  BY <1>2, <1>4, <1>5, <1>8 DEF SameOthers
<1>12. OneStat(k', k, t, "SUSPEND")
  BY <1>3, <1>5, <1>7 DEF OneStat
<1>13. k'.cur = k.cur /\ k'.nest = k.nest
  BY <1>3, <1>5, <1>7
<1> QED BY <1>1, <1>8, <1>9, <1>10, <1>11, <1>12, <1>13, LeaveConsistent

LEMMA ExitStep ==
  ASSUME Consistent, NEW t \in Thread, Exit(t)
  PROVE  Consistent'
<1> DEFINE r == RemoveThread(k, t)
<1>1. /\ t = k.cur /\ t # Idle /\ pc[t] = "run" /\ k.stat[t] = "RUNNING"
      /\ k' = CloseThread(r, t) /\ pc' = [pc EXCEPT ![t] = "sched"] /\ arg' = arg
  BY DEF Exit, Calls, Goto
<1>2. QueueInv(k, Removed) /\ WaitSet(k) = {} /\ t \notin Removed /\ t \notin k.timer
  BY <1>1, RunningAlone DEF Consistent
<1>3. /\ QueueInv(r, Removed \cup {t})
      /\ SameRest(r, k) /\ r.stat = k.stat
      /\ WaitSet(r) = WaitSet(k) \ {t}
      /\ DefunctSet(r) = DefunctSet(k) \ {t}
  BY <1>2, RemoveInv
<1> HIDE DEF r
<1>4. NoOther(r, t)
  BY <1>3 DEF NoOther
<1>5. t \notin DefunctSet(k)
  BY <1>1, <1>2, NoOtherLemma DEF NoOther, QueueInv
<1>6. /\ QueueInv(k', Removed)
      /\ k'.cur = r.cur /\ k'.nest = r.nest /\ k'.timer = r.timer \ {t}
      /\ OneStat(k', r, t, "CLOSE")
      /\ WaitSet(k') = WaitSet(r) /\ DefunctSet(k') = DefunctSet(r) \cup {t}
  <2>1. QueueLists(r, Removed \cup {t}) /\ OneRunning(r)
    BY <1>3 DEF QueueInv
  <2>2. k' = CloseThread(r, t)
    BY <1>1
  <2> QED BY <1>2, <1>4, <2>1, <2>2, CloseLemma, Zenon
<1>7. /\ k'.cur = k.cur /\ k'.nest = k.nest /\ k'.timer = k.timer
      /\ WaitSet(k') = {} /\ DefunctSet(k') = DefunctSet(k) \cup {t}
  BY <1>2, <1>3, <1>5, <1>6 DEF SameRest
<1>8. OneStat(k', k, t, "CLOSE")
  BY <1>3, <1>6 DEF OneStat
<1>9. "sched" \in PC \ Working
  BY DEF ForCheck, PC, Working, ForIdle, ForClose, ForResume
<1> QED BY <1>1, <1>6, <1>7, <1>8, <1>9, LeaveConsistent

-----------------------------------------------------------------------------
(* Steps of the current thread for another one *)

\* A thread in its own code has no one in hand.
LEMMA CallerFree ==
  ASSUME Consistent, NEW t \in Thread, pc[t] = "run"
  PROVE  arg[t] = None /\ pc[t] \notin Working
BY DEF ForCheck, Consistent, Args, Working, ForIdle, ForClose, ForResume

LEMMA ChangePrioStep ==
  ASSUME Disciplined, Consistent, NEW t \in Thread, NEW u \in Thread, NEW p \in Prio,
         ChangePrio(t, u, p)
  PROVE  Consistent'
<1>1. /\ k' = ChangePriority(k, u, p) /\ pc' = pc /\ arg' = arg
      /\ \A s \in Thread : arg[s] # u
  BY DEF ChangePrio, Busy
<1>2. u \notin Removed
  BY <1>1 DEF Removed
<1>3. /\ QueueInv(k', Removed)
      /\ k'.cur = k.cur /\ k'.nest = k.nest /\ k'.timer = k.timer
      /\ k'.stat = k.stat /\ SameOthers(k', k)
  <2> DEFINE n == ChangePriority(k, u, p)
  <2>1. QueueInv(k, Removed)
    BY DEF Consistent
  <2>2. /\ QueueInv(n, Removed)
        /\ n.cur = k.cur /\ n.nest = k.nest /\ n.timer = k.timer
        /\ n.stat = k.stat /\ SameOthers(n, k)
    BY <1>2, <2>1, ChangePriorityLemma
  <2>3. k' = n
    BY <1>1
  <2> HIDE DEF n
  <2> QED BY <2>2, <2>3
<1>5. Removed' = Removed /\ WaitSet(k') = WaitSet(k) /\ DefunctSet(k') = DefunctSet(k)
  BY <1>1, <1>3 DEF Removed, SameOthers
<1>6. TypeOK'
  BY <1>1, <1>3 DEF Consistent, TypeOK, QueueInv, QueueLists
<1>7. (Args /\ IdleReclaims /\ Resuming /\ Closing /\ OneHand /\ Timers)'
  BY <1>1, <1>3, <1>5
     DEF ForCheck, Consistent, Args, IdleReclaims, Resuming, Closing, OneHand, Timers
<1> QED BY <1>3, <1>5, <1>6, <1>7 DEF Consistent

LEMMA CreateStep ==
  ASSUME Consistent, NEW t \in Thread, NEW u \in Thread, u # Idle, Create(t, u)
  PROVE  Consistent'
<1>1. /\ k.stat[u] = "FREE" /\ k' = InitThread(k, u, InitPrio[u])
      /\ pc' = [pc EXCEPT ![u] = "run"] /\ arg' = [arg EXCEPT ![u] = None]
  BY DEF Create
<1>2. /\ QueueInv(k', Removed)
      /\ k'.cur = k.cur /\ k'.nest = k.nest /\ k'.timer = k.timer
      /\ OneStat(k', k, u, "INIT") /\ SameOthers(k', k)
  <2>1. InitPrio[u] \in Prio
    BY SchedulerAssumption
  <2> DEFINE n == InitThread(k, u, InitPrio[u])
  <2>2. QueueInv(k, Removed) /\ k.stat[u] = "FREE"
    BY <1>1 DEF Consistent
  <2>3. /\ QueueInv(n, Removed)
        /\ n.cur = k.cur /\ n.nest = k.nest /\ n.timer = k.timer
        /\ OneStat(n, k, u, "INIT") /\ SameOthers(n, k)
    BY <2>1, <2>2, InitThreadLemma
  <2>4. k' = n
    BY <1>1
  <2> HIDE DEF n
  <2> QED BY <2>3, <2>4
<1>3. /\ pc \in [Thread -> PC] /\ arg \in [Thread -> Thread \cup {None}]
      /\ k.stat \in [Thread -> Stat] /\ k'.stat = [k.stat EXCEPT ![u] = "INIT"]
  BY <1>2, Parts DEF OneStat
<1>4. arg[u] = None /\ pc[u] \notin Working
  BY <1>1 DEF Consistent, Args
<1>5. arg' = arg
  BY <1>1, <1>3, <1>4
<1>6. "run" \in PC \ Working
  BY DEF ForCheck, PC, Working, ForIdle, ForClose, ForResume
<1>7. \A x \in Thread : pc'[x] = pc[x] \/ {pc'[x], pc[x]} \cap Working = {}
  BY <1>1, <1>3, <1>4, <1>6
<1>8. Removed' = Removed
  BY <1>5, <1>7 DEF ForCheck, Removed, Working, ForClose
<1>9. TypeOK' /\ WaitSet(k') = {} /\ DefunctSet(k') = DefunctSet(k)
  BY <1>1, <1>2, <1>3, <1>5, <1>6 DEF Consistent, TypeOK, QueueInv, QueueLists, SameOthers
<1>10. Args'
  BY <1>3, <1>4, <1>5, <1>7 DEF Consistent, Args
<1>11. IdleReclaims'
  BY <1>1, <1>3, <1>4, <1>5, <1>7, <1>9 DEF ForCheck, Consistent, IdleReclaims, Working, ForIdle, Args
<1>12. Resuming'
  BY <1>1, <1>3, <1>5, <1>7 DEF ForCheck, Consistent, Resuming, Working, ForResume, Args
<1>13. Closing'
  BY <1>1, <1>2, <1>3, <1>5, <1>7 DEF ForCheck, Consistent, Closing, Working, ForClose, Args
<1>14. OneHand'
  BY <1>1, <1>3, <1>5, <1>7 DEF ForCheck, Consistent, OneHand, Working, Args
<1>15. Timers'
  <2>1. \A x \in k.timer : x \in Thread
    BY Parts
  <2> QED BY <1>1, <1>2, <1>3, <1>5, <2>1 DEF Consistent, Timers
<1> QED
  BY <1>2, <1>8, <1>9, <1>10, <1>11, <1>12, <1>13, <1>14, <1>15 DEF Consistent

\* t takes u in hand, to resume or to close it.
LEMMA TakeConsistent ==
  ASSUME Consistent, NEW t \in Thread, NEW u \in Thread, t # Idle, u # Idle,
         t = k.cur, pc[t] = "run", k.stat[t] = "RUNNING",
         NEW l \in ForCheck \cup ForClose,
         pc' = [pc EXCEPT ![t] = l], arg' = [arg EXCEPT ![t] = u],
         \A s \in Thread : arg[s] # u,
         u \notin k.timer, arg[u] = None,
         \/ k' = k
         \/ /\ k.stat[u] = "INIT" /\ l \in ForCheck
            /\ QueueInv(k', Removed) /\ SameRest(k', k) /\ SameOthers(k', k)
            /\ OneStat(k', k, u, "SUSPEND"),
         l \in ForCheck => k.stat[u] \in {"SUSPEND", "CLOSE", "INIT"},
         l \in ForClose => \/ u = t
                           \/ k.stat[u] \in {"INIT", "SUSPEND"}
                           \/ k.nest > 0 /\ k.stat[u] \in {"READY", "RUNNING"},
         l = "close" => k.stat[u] = "INIT"
  PROVE  Consistent'
<1>1. /\ pc \in [Thread -> PC] /\ arg \in [Thread -> Thread \cup {None}]
      /\ k.stat \in [Thread -> Stat] /\ k.timer \subseteq Thread
      /\ OneRunning(k) /\ None \notin Thread
  BY Parts, SchedulerAssumption
<1>2. /\ k'.cur = k.cur /\ k'.nest = k.nest /\ k'.timer = k.timer
      /\ WaitSet(k') = {} /\ DefunctSet(k') = DefunctSet(k)
      /\ QueueInv(k', Removed)
      /\ k'.stat = k.stat \/ (l \in ForCheck /\ k'.stat = [k.stat EXCEPT ![u] = "SUSPEND"])
  <2>1. CASE k' = k
    BY <2>1 DEF Consistent
  <2>2. CASE k' # k
    BY <2>2 DEF Consistent, SameRest, SameOthers, OneStat
  <2> QED BY <2>1, <2>2
<1>3. arg[t] = None /\ pc[t] \notin Working
  BY CallerFree
<1>4. l \in Working /\ l \in PC
  BY DEF ForCheck, PC, Working, ForIdle, ForClose, ForResume
<1>5. QueueInv(k', Removed')
  <2>1. CASE l # "close"
    <3>1. Removed' = Removed
      BY <1>1, <1>3, <2>1 DEF ForCheck, Removed, Working, ForClose
    <3> QED BY <1>2, <3>1
  <2>2. CASE l = "close"
    <3>1. k.stat[u] = "INIT" /\ u # t /\ k'.stat = k.stat
      BY <1>2, <2>2 DEF ForCheck
    <3>2. Removed' = Removed \cup {u}
      BY <1>1, <1>3, <2>2, <3>1 DEF ForCheck, Removed, Working, ForClose
    <3>3. k'.stat[u] # "READY"
      BY <3>1
    <3> QED BY <1>2, <3>2, <3>3, RemovedNotReady DEF QueueInv
  <2> QED BY <2>1, <2>2
<1>6. TypeOK'
  BY <1>1, <1>4, <1>5 DEF Consistent, TypeOK, QueueInv, QueueLists
<1>7. Args'
  <2> SUFFICES ASSUME NEW x \in Thread
               PROVE  /\ arg'[x] # None <=> pc'[x] \in Working
                      /\ arg'[x] # None => k'.stat[x] \in {"READY", "RUNNING"}
    BY DEF Args
  <2>1. CASE x = t
    <3>1. k'.stat[t] = "RUNNING"
      BY <1>1, <1>2
    <3> QED BY <1>1, <1>4, <2>1, <3>1
  <2>2. CASE x # t
    BY <1>1, <1>2, <2>2 DEF Consistent, Args
  <2> QED BY <2>1, <2>2
<1>8. IdleReclaims'
  <2>1. l \notin ForIdle
    BY DEF ForCheck, ForClose, ForIdle
  <2>2. k'.stat[Idle] = k.stat[Idle] /\ pc'[Idle] = pc[Idle] /\ arg'[Idle] = arg[Idle]
    BY <1>1, <1>2, ThreadAssumption
  <2>3. \A x \in Thread : pc'[x] \in ForIdle =>
           x # t /\ pc'[x] = pc[x] /\ arg'[x] = arg[x] /\ arg[x] # u
    BY <1>1, <2>1
  <2>4. \A x \in Thread : pc[x] \in ForIdle => x = Idle /\ k.stat[arg[x]] = "CLOSE"
    BY DEF Consistent, IdleReclaims
  <2>5. \A s \in Thread : s # u => k'.stat[s] = k.stat[s]
    BY <1>1, <1>2
  <2>6. \A x \in Thread : pc[x] \in ForIdle => arg[x] \in Thread
    <3>1. \A x \in Thread : pc[x] \in ForIdle => arg[x] # None
      BY DEF Consistent, Args, Working
    <3> QED BY <1>1, <3>1
  <2>7. \A x \in Thread : pc'[x] \in ForIdle => x = Idle /\ k'.stat[arg'[x]] = "CLOSE"
    BY <2>3, <2>4, <2>5, <2>6
  <2> QED BY <1>2, <2>2, <2>7 DEF Consistent, IdleReclaims
<1>9. Resuming'
  <2> SUFFICES ASSUME NEW x \in Thread
               PROVE  /\ pc'[x] \in ForCheck =>
                           k'.stat[arg'[x]] \in {"SUSPEND", "CLOSE", "FREE", "INIT"}
                      /\ pc'[x] \in ForResume => k'.stat[arg'[x]] = "SUSPEND"
    BY DEF Resuming
  <2>1. CASE x = t
    <3>1. pc'[x] = l /\ arg'[x] = u
      BY <1>1, <2>1
    <3>2. l \notin ForResume
      BY DEF ForCheck, ForClose, ForResume
    <3>3. k'.stat[u] \in {k.stat[u], "SUSPEND"}
      BY <1>1, <1>2
    <3> QED BY <3>1, <3>2, <3>3
  <2>2. CASE x # t
    <3>1. pc'[x] = pc[x] /\ arg'[x] = arg[x] /\ arg[x] # u
      BY <1>1, <2>2
    <3>2. pc[x] \in ForCheck \cup ForResume => arg[x] \in Thread
      <4>1. pc[x] \in ForCheck \cup ForResume => arg[x] # None
        BY DEF Consistent, Args, Working
      <4> QED BY <1>1, <4>1
    <3>3. pc[x] \in ForCheck \cup ForResume => k'.stat[arg[x]] = k.stat[arg[x]]
      BY <1>1, <1>2, <3>1, <3>2
    <3> QED BY <3>1, <3>3 DEF Consistent, Resuming
  <2> QED BY <2>1, <2>2
<1>10. Closing'
  <2> SUFFICES ASSUME NEW x \in Thread, pc'[x] \in ForClose, arg'[x] # x
               PROVE  /\ arg'[x] # k'.cur /\ arg'[x] # Idle
                      /\ arg'[arg'[x]] = None
                      /\ \/ k'.stat[arg'[x]] \in {"INIT", "SUSPEND"}
                         \/ x = k'.cur /\ k'.nest > 0 /\ k'.stat[arg'[x]] = "READY"
    BY DEF Closing
  <2>1. CASE x = t
    <3>4. arg'[x] = u /\ u # t /\ l \in ForClose
      BY <1>1, <2>1
    <3>5. l \notin ForCheck /\ arg'[u] = None
      BY <1>1, <3>4 DEF ForCheck, ForClose
    <3>1. /\ arg'[x] = u /\ u # t /\ l \in ForClose /\ k'.stat = k.stat
          /\ arg'[u] = None
      BY <1>2, <3>4, <3>5
    <3>2. k.stat[u] # "RUNNING"
      BY <1>1, <3>1 DEF OneRunning
    <3>3. \/ k.stat[u] \in {"INIT", "SUSPEND"}
          \/ k.nest > 0 /\ k.stat[u] = "READY"
      BY <3>1, <3>2
    <3> QED BY <1>2, <2>1, <3>1, <3>3
  <2>2. CASE x # t
    <3>1. arg'[x] = arg[x] /\ pc'[x] = pc[x] /\ arg[x] # u
      BY <1>1, <2>2
    <3>2. arg[x] \in Thread
      BY <1>1, <3>1, <2>2 DEF Consistent, Args, Working
    <3>3. /\ arg[x] # k.cur /\ arg[x] # Idle
          /\ arg[arg[x]] = None
          /\ k.stat[arg[x]] \in {"INIT", "SUSPEND"}
      BY <3>1, <2>2 DEF Consistent, Closing
    <3> QED BY <1>1, <1>2, <3>1, <3>2, <3>3
  <2> QED BY <2>1, <2>2
<1>11. OneHand'
  BY <1>1, <1>2, <1>3 DEF ForCheck, Consistent, OneHand
<1>12. Timers'
  BY <1>1, <1>2 DEF Consistent, Timers
<1> QED BY <1>2, <1>5, <1>6, <1>7, <1>8, <1>9, <1>10, <1>11, <1>12 DEF Consistent

LEMMA StartupStep ==
  ASSUME Disciplined, Consistent, NEW t \in Thread, NEW u \in Thread, u # Idle, Startup(t, u)
  PROVE  Consistent'
<1>1. /\ t = k.cur /\ t # Idle /\ pc[t] = "run" /\ k.stat[t] = "RUNNING"
      /\ k.stat[u] = "INIT" /\ u \notin k.timer /\ arg[u] = None
      /\ \A s \in Thread : arg[s] # u
      /\ k' = [k EXCEPT !.stat[u] = "SUSPEND", !.yield = @ \ {u}]
      /\ pc' = [pc EXCEPT ![t] = "startCheck"] /\ arg' = [arg EXCEPT ![t] = u]
  BY DEF Startup, Calls, Alone, Busy, GotoFor, Goto
<1>2. QueueInv(k, Removed) /\ QueueLists(k, Removed) /\ OneRunning(k) /\ k \in Kernel
  BY Parts DEF Consistent
<1>3. QueueLists(k, Removed \cup {u}) /\ NoOther(k, u)
  BY <1>1, <1>2, RemovedNotReady, NoOtherLemma
<1>4. /\ k' \in Kernel /\ SameLists(k', k) /\ SameRest(k', k) /\ OneStat(k', k, u, "SUSPEND")
  BY <1>1, <1>2 DEF Kernel, Stat, SameLists, SameRest, OneStat
<1>5. "SUSPEND" \in Stat \ {"READY", "RUNNING"} /\ "startCheck" \in ForCheck \ ForClose
  BY DEF Stat, ForCheck, ForClose
<1>6. QueueInv(k', Removed) /\ SameOthers(k', k)
  BY <1>2, <1>3, <1>4, <1>5, SetStatInv DEF SameRest
<1> QED BY <1>1, <1>4, <1>5, <1>6, TakeConsistent DEF ForClose

LEMMA ResumeCallStep ==
  ASSUME Disciplined, Consistent, NEW t \in Thread, NEW u \in Thread, u # Idle,
         ResumeCall(t, u), "resume" # "critical"
  PROVE  Consistent'
<1>1. /\ t = k.cur /\ t # Idle /\ pc[t] = "run" /\ k.stat[t] = "RUNNING"
      /\ k.stat[u] \in {"SUSPEND", "CLOSE"} /\ u \notin k.timer /\ arg[u] = None
      /\ \A s \in Thread : arg[s] # u
      /\ k' = k
      /\ pc' = [pc EXCEPT ![t] = "check"] /\ arg' = [arg EXCEPT ![t] = u]
  BY DEF ResumeCall, Calls, MayResume, Alone, Busy, GotoFor, Goto
<1>2. "check" \in ForCheck \ ForClose
  BY DEF ForCheck, ForClose
<1> QED BY <1>1, <1>2, TakeConsistent DEF ForClose

LEMMA CloseStep ==
  ASSUME Disciplined, Consistent, NEW t \in Thread, NEW u \in Thread, Close(t, u)
  PROVE  Consistent'
<1>1. /\ t = k.cur /\ t # Idle /\ u # Idle /\ pc[t] = "run" /\ k.stat[t] = "RUNNING"
      /\ k.stat[u] \notin {"FREE", "CLOSE"} /\ u \notin k.timer /\ arg[u] = None
      /\ \A s \in Thread : arg[s] # u
      /\ u = t \/ k.stat[u] \in {"INIT", "SUSPEND"} \/ k.nest > 0
      /\ k' = k
      /\ pc' = [pc EXCEPT ![t] = IF k.stat[u] = "INIT" THEN "close" ELSE "remove"]
      /\ arg' = [arg EXCEPT ![t] = u]
  BY DEF Close, Calls, MayClose, Alone, Busy, GotoFor, Goto
<1>2. k.stat[u] \in {"INIT", "SUSPEND", "READY", "RUNNING"}
  <2>1. k.stat[u] \in Stat
    BY Parts
  <2> QED BY <1>1, <2>1 DEF Stat
<1>3. PICK l \in {"remove", "close"} :
        l = IF k.stat[u] = "INIT" THEN "close" ELSE "remove"
  OBVIOUS
<1>4. pc' = [pc EXCEPT ![t] = l]
  BY <1>1, <1>3
<1>5. l \in ForCheck \cup ForClose /\ l \in PC /\ l \notin ForCheck
  BY <1>3 DEF ForCheck, ForClose, PC
<1>6. \/ u = t
      \/ k.stat[u] \in {"INIT", "SUSPEND"}
      \/ k.nest > 0 /\ k.stat[u] \in {"READY", "RUNNING"}
  BY <1>1, <1>2
<1>7. l = "close" => k.stat[u] = "INIT"
  BY <1>3
<1>8. /\ t = k.cur /\ t # Idle /\ u # Idle /\ pc[t] = "run" /\ k.stat[t] = "RUNNING"
      /\ u \notin k.timer /\ arg[u] = None /\ \A s \in Thread : arg[s] # u
      /\ k' = k /\ arg' = [arg EXCEPT ![t] = u]
  BY <1>1
<1>9. l \in ForClose => \/ u = t
                        \/ k.stat[u] \in {"INIT", "SUSPEND"}
                        \/ k.nest > 0 /\ k.stat[u] \in {"READY", "RUNNING"}
  BY <1>6
<1>10. l \in ForCheck => k.stat[u] \in {"SUSPEND", "CLOSE", "INIT"}
  BY <1>5
<1> QED BY <1>4, <1>5, <1>7, <1>8, <1>9, <1>10, TakeConsistent

\* t goes one step further with the thread u it has in hand.
LEMMA AdvanceConsistent ==
  ASSUME Consistent, NEW t \in Thread, NEW u \in Thread, u = arg[t], pc[t] \in Working,
         NEW l \in ForResume \cup {"close", "free"},
         pc' = [pc EXCEPT ![t] = l], arg' = arg,
         QueueInv(k', Removed'), WaitSet(k') = {}, DefunctSet(k') \subseteq DefunctSet(k),
         k'.cur = k.cur, k'.nest = k.nest, k'.stat = k.stat, k'.timer \subseteq k.timer,
         l \in ForResume => t # Idle /\ k.stat[u] = "SUSPEND",
         l = "close" => pc[t] = "remove",
         l = "free" => t = Idle /\ pc[t] = "dequeue" /\ u \notin DefunctSet(k')
  PROVE  Consistent'
<1>1. /\ pc \in [Thread -> PC] /\ arg \in [Thread -> Thread \cup {None}]
      /\ l \in PC /\ l \in Working /\ None \notin Thread
  BY Parts, SchedulerAssumption DEF ForCheck, PC, Working, ForIdle, ForClose, ForResume
<1>2. TypeOK'
  BY <1>1 DEF Consistent, TypeOK, QueueInv, QueueLists
<1>3. Args'
  BY <1>1 DEF Consistent, Args
<1>4. IdleReclaims'
  BY <1>1 DEF ForCheck, Consistent, IdleReclaims, Working, ForIdle, ForClose, ForResume
<1>5. Resuming'
  BY <1>1 DEF ForCheck, Consistent, Resuming, Working, ForResume
<1>6. Closing'
  BY <1>1 DEF ForCheck, Consistent, Closing, Working, ForClose, ForResume
<1>7. OneHand'
  BY <1>1 DEF ForCheck, Consistent, OneHand, ForResume
<1>8. Timers'
  BY DEF Consistent, Timers
<1> QED BY <1>2, <1>3, <1>4, <1>5, <1>6, <1>7, <1>8 DEF Consistent

\* What may have happened to the thread u that t lets go of: nothing, or u has
\* been resumed or closed, or the idle thread has freed u.
Untouched(u, st) ==
  st = k.stat[u] /\ DefunctSet(k') = DefunctSet(k) /\ k'.timer = k.timer
Finished(t, u, st) ==
  /\ st \in {"READY", "RUNNING", "CLOSE"} /\ k'.timer = k.timer \ {u}
  /\ st = "CLOSE" => u # Idle /\ (u = t \/ arg[u] = None)
  /\ \A s \in Thread : s # t => arg[s] # u
  /\ DefunctSet(k') \subseteq DefunctSet(k) \cup {u}
Freed(t, u, st) ==
  /\ st = "FREE" /\ k.stat[u] = "CLOSE" /\ t = Idle
  /\ DefunctSet(k') = DefunctSet(k) /\ k'.timer = k.timer
Handled(t, u, st) == Untouched(u, st) \/ Finished(t, u, st) \/ Freed(t, u, st)

\* t lets go of the thread u it has in hand.
LEMMA ReleaseConsistent ==
  ASSUME Consistent, NEW t \in Thread, NEW u \in Thread, u = arg[t], pc[t] \in Working,
         NEW l \in {"sched", "run"}, t = Idle => l = "run",
         pc' = [pc EXCEPT ![t] = l], arg' = [arg EXCEPT ![t] = None],
         QueueInv(k', Removed'), WaitSet(k') = {},
         k'.cur = k.cur, k'.nest = k.nest,
         NEW st \in Stat, OneStat(k', k, u, st), Handled(t, u, st)
  PROVE  Consistent'
<1>1. /\ pc \in [Thread -> PC] /\ arg \in [Thread -> Thread \cup {None}]
      /\ l \in PC /\ l \notin Working /\ None \notin Thread
      /\ k.stat \in [Thread -> Stat] /\ k'.stat = [k.stat EXCEPT ![u] = st]
      /\ k.timer \subseteq Thread
  BY Parts, SchedulerAssumption DEF ForCheck, PC, Working, ForIdle, ForClose, ForResume, OneStat
<1> USE DEF Handled, Untouched, Finished, Freed
<1>2. TypeOK'
  BY <1>1 DEF Consistent, TypeOK, QueueInv, QueueLists
<1>3. Args'
  BY <1>1 DEF Consistent, Args
<1>4. IdleReclaims'
  BY <1>1 DEF ForCheck, Consistent, IdleReclaims, Working, ForIdle, ForClose, ForResume, Args
<1>5. Resuming'
  BY <1>1 DEF ForCheck, Consistent, Resuming, Working, ForResume, OneHand
<1>6. Closing'
  <2> SUFFICES ASSUME NEW x \in Thread, pc'[x] \in ForClose, arg'[x] # x
               PROVE  /\ arg'[x] # k'.cur /\ arg'[x] # Idle
                      /\ arg'[arg'[x]] = None
                      /\ \/ k'.stat[arg'[x]] \in {"INIT", "SUSPEND"}
                         \/ x = k'.cur /\ k'.nest > 0 /\ k'.stat[arg'[x]] = "READY"
    BY DEF Closing
  <2>1. x # t /\ pc'[x] = pc[x] /\ arg'[x] = arg[x]
    BY <1>1 DEF ForCheck, Working
  <2>2. arg[x] \in Thread
    BY <1>1, <2>1 DEF ForCheck, Consistent, Args, Working
  <2>3. /\ arg[x] # k.cur /\ arg[x] # Idle
        /\ arg[arg[x]] = None
        /\ \/ k.stat[arg[x]] \in {"INIT", "SUSPEND"}
           \/ x = k.cur /\ k.nest > 0 /\ k.stat[arg[x]] = "READY"
    BY <2>1 DEF Consistent, Closing
  <2>4. arg[x] = u => st = k.stat[u]
    BY <2>1, <2>3
  <2> QED BY <1>1, <2>1, <2>2, <2>3, <2>4
<1>7. OneHand'
  BY <1>1 DEF ForCheck, Consistent, OneHand
<1>8. Timers'
  BY <1>1 DEF Consistent, Timers
<1> QED BY <1>2, <1>3, <1>4, <1>5, <1>6, <1>7, <1>8 DEF Consistent

\* The thread in hand, and how moves between steps show in Removed.
LEMMA InHand ==
  ASSUME Consistent, NEW t \in Thread, pc[t] \in Working
  PROVE  /\ arg[t] \in Thread
         /\ k.stat[t] \in {"READY", "RUNNING"}
         /\ t = k.cur => k.stat[t] = "RUNNING"
         /\ t # Idle /\ k.stat[arg[t]] # "CLOSE"
              => \A s \in Thread : s # t => arg[s] # arg[t]
<1>1. arg[t] # None /\ arg[t] \in Thread /\ k.stat[t] \in {"READY", "RUNNING"}
  BY Parts DEF Consistent, Args
<1>2. t = k.cur => k.stat[t] = "RUNNING"
  BY <1>1, Parts DEF OneRunning
<1>3. ASSUME t # Idle, k.stat[arg[t]] # "CLOSE", NEW s \in Thread, s # t
      PROVE  arg[s] # arg[t]
  BY <1>1, <1>3 DEF ForCheck, Consistent, OneHand
<1> QED BY <1>1, <1>2, <1>3

\* The places of rt_thread_resume, for both of its callers.
LEMMA ResumptionPlaces ==
  ASSUME NEW r \in Resumptions
  PROVE  /\ r.check \in ForCheck /\ r.unlink \in ForResume /\ r.insert \in ForResume
         /\ r.done \in {"sched", "run"}
BY DEF Resumptions, Resumption, StartingUp, ForCheck, ForResume

LEMMA ResumeCheckStep ==
  ASSUME Consistent, NEW t \in Thread, ResumeCheck(t)
  PROVE  Consistent'
<1>1. PICK r \in Resumptions :
        /\ At(t, r.check)
        /\ IF k.stat[arg[t]] = "SUSPEND" THEN Goto(t, r.unlink) /\ UNCHANGED arg
                                         ELSE GotoFor(t, r.done, None)
  BY DEF ResumeCheck
<1>2. /\ r.check \in ForCheck /\ r.unlink \in ForResume /\ r.done \in {"sched", "run"}
  BY ResumptionPlaces
<1>3. /\ t = k.cur /\ pc[t] = r.check /\ k' = k /\ pc[t] \in Working /\ t # Idle
      /\ pc[t] # "close" /\ pc \in [Thread -> PC]
  BY <1>1, <1>2, Parts DEF ResumeCheck, At, Working, Consistent, IdleReclaims, ForIdle, ForCheck
<1>4. /\ QueueInv(k', Removed) /\ WaitSet(k') = {}
      /\ k.stat \in [Thread -> Stat] /\ arg[t] \in Thread
  BY <1>3, Parts, InHand DEF Consistent
<1>5. ASSUME NEW l, l # "close", pc' = [pc EXCEPT ![t] = l],
             arg' = arg \/ arg' = [arg EXCEPT ![t] = None]
      PROVE  Removed' = Removed
  BY <1>3, <1>5, Parts DEF Removed
<1>6. CASE k.stat[arg[t]] = "SUSPEND"
  <2>1. pc' = [pc EXCEPT ![t] = r.unlink] /\ arg' = arg
    BY <1>1, <1>6 DEF Goto
  <2>2. Removed' = Removed
    BY <1>2, <1>5, <2>1 DEF ForResume
  <2>3. r.unlink \notin {"close", "free"}
    BY <1>2 DEF ForResume
  <2> QED BY <1>2, <1>3, <1>4, <1>6, <2>1, <2>2, <2>3, AdvanceConsistent
<1>7. CASE k.stat[arg[t]] # "SUSPEND"
  <2>1. pc' = [pc EXCEPT ![t] = r.done] /\ arg' = [arg EXCEPT ![t] = None]
    BY <1>1, <1>7 DEF Goto, GotoFor
  <2>2. Removed' = Removed
    BY <1>2, <1>5, <2>1
  <2>3. k.stat[arg[t]] \in Stat /\ OneStat(k', k, arg[t], k.stat[arg[t]])
    BY <1>3, <1>4 DEF OneStat
  <2>4. Handled(t, arg[t], k.stat[arg[t]])
    BY <1>3 DEF Handled, Untouched
  <2> QED BY <1>2, <1>3, <1>4, <2>1, <2>2, <2>3, <2>4, ReleaseConsistent
<1> QED BY <1>6, <1>7

LEMMA ResumeUnlinkStepStep ==
  ASSUME Consistent, NEW t \in Thread, ResumeUnlinkStep(t)
  PROVE  Consistent'
<1> DEFINE u == arg[t]
           n == ResumeUnlink(k, u)
<1>0. PICK r \in Resumptions : At(t, r.unlink) /\ Goto(t, r.insert)
  BY DEF ResumeUnlinkStep
<1> DEFINE l == r.insert
<1>l. r.unlink \in ForResume /\ l \in ForResume \ {"close", "free"}
  BY ResumptionPlaces DEF ForResume
<1>1. /\ t = k.cur /\ pc[t] \in ForResume /\ k' = n /\ pc[t] \in Working
      /\ pc[t] # "close"
      /\ pc' = [pc EXCEPT ![t] = l] /\ arg' = arg
      /\ pc \in [Thread -> PC]
  BY <1>0, <1>l, Parts DEF ResumeUnlinkStep, At, Goto, Working, ForResume
<1> HIDE DEF l
<1>2. /\ QueueInv(k, Removed) /\ WaitSet(k) = {} /\ u \in Thread
      /\ k.stat[u] = "SUSPEND" /\ t # Idle
  BY <1>1, InHand DEF ForCheck, Consistent, Resuming, ForResume, IdleReclaims, ForIdle
<1> HIDE DEF u
<1>3. /\ QueueInv(n, Removed)
      /\ n.cur = k.cur /\ n.nest = k.nest /\ n.timer = k.timer \ {u}
      /\ n.stat = k.stat
      /\ WaitSet(n) = WaitSet(k) \ {u} /\ DefunctSet(n) = DefunctSet(k)
  BY <1>2, ResumeUnlinkLemma
<1> HIDE DEF n
<1>4. Removed' = Removed
  BY <1>1, <1>l DEF Removed
<1>5. /\ QueueInv(k', Removed') /\ WaitSet(k') = {} /\ DefunctSet(k') \subseteq DefunctSet(k)
      /\ k'.cur = k.cur /\ k'.nest = k.nest /\ k'.stat = k.stat /\ k'.timer \subseteq k.timer
  BY <1>1, <1>2, <1>3, <1>4
<1>6. u = arg[t]
  BY DEF u
<1> QED BY <1>l, <1>1, <1>2, <1>5, <1>6, AdvanceConsistent

LEMMA ResumeInsertStep ==
  ASSUME Consistent, NEW t \in Thread, ResumeInsert(t)
  PROVE  Consistent'
<1> DEFINE u == arg[t]
           n == InsertThread(k, u)
           st == IF u = k.cur THEN "RUNNING" ELSE "READY"
<1>0. PICK r \in Resumptions : At(t, r.insert) /\ GotoFor(t, r.done, None)
  BY DEF ResumeInsert
<1> DEFINE l == r.done
<1>l. r.insert \in ForResume /\ l \in {"sched", "run"}
  BY ResumptionPlaces
<1>1. /\ t = k.cur /\ pc[t] \in ForResume /\ k' = n /\ pc[t] \in Working
      /\ pc[t] # "close"
      /\ pc' = [pc EXCEPT ![t] = l] /\ arg' = [arg EXCEPT ![t] = None]
      /\ pc \in [Thread -> PC] /\ arg \in [Thread -> Thread \cup {None}]
  BY <1>0, <1>l, Parts DEF ResumeInsert, At, Goto, GotoFor, Working, ForResume
<1> HIDE DEF l
<1>2. /\ QueueInv(k, Removed) /\ WaitSet(k) = {} /\ u \in Thread
      /\ k.stat[u] = "SUSPEND" /\ t # Idle
  BY <1>1, InHand DEF ForCheck, Consistent, Resuming, ForResume, IdleReclaims, ForIdle
<1>3. \A s \in Thread : s # t => arg[s] # u
  BY <1>1, <1>2, InHand
<1>4. u \notin Removed
  BY <1>1, <1>3 DEF Removed
<1>5. u \notin k.timer
  BY <1>2 DEF Consistent, Timers
<1>6. u = arg[t] /\ st \in {"READY", "RUNNING"} /\ st \in Stat
  BY DEF u, Stat
<1> HIDE DEF u
<1>7. QueueLists(k, Removed \cup {u}) /\ OneRunning(k) /\ NoOther(k, u)
  <2>1. k.stat[u] # "READY"
    BY <1>2
  <2>2. QueueLists(k, Removed \cup {u})
    BY <1>2, <2>1, RemovedNotReady DEF QueueInv
  <2>3. u \notin DefunctSet(k)
    BY <1>2 DEF QueueInv, QueueLists, OtherLists
  <2> QED BY <1>2, <2>2, <2>3 DEF QueueInv, NoOther
<1>8. /\ QueueInv(n, Removed)
      /\ SameRest(n, k) /\ SameOthers(n, k)
      /\ OneStat(n, k, u, st)
  BY <1>2, <1>4, <1>7, InsertInv
<1> HIDE DEF n, st
<1>9. Removed' = Removed
  BY <1>1, <1>l DEF Removed
<1>10. /\ QueueInv(k', Removed') /\ WaitSet(k') = {} /\ DefunctSet(k') = DefunctSet(k)
       /\ k'.cur = k.cur /\ k'.nest = k.nest /\ k'.timer = k.timer \ {u}
       /\ OneStat(k', k, u, st)
  BY <1>1, <1>2, <1>5, <1>8, <1>9 DEF SameRest, SameOthers
<1>11. Handled(t, u, st)
  BY <1>3, <1>6, <1>10 DEF Handled, Finished
<1> QED BY <1>l, <1>1, <1>2, <1>6, <1>10, <1>11, ReleaseConsistent

LEMMA CloseRemoveStep ==
  ASSUME Consistent, NEW t \in Thread, CloseRemove(t)
  PROVE  Consistent'
<1> DEFINE u == arg[t]
           n == RemoveThread(k, u)
<1>1. /\ t = k.cur /\ pc[t] = "remove" /\ k' = n /\ pc[t] \in Working
      /\ pc' = [pc EXCEPT ![t] = "close"] /\ arg' = arg
      /\ pc \in [Thread -> PC]
  BY Parts DEF ForCheck, CloseRemove, At, Goto, Working, ForClose
<1>2. /\ QueueInv(k, Removed) /\ WaitSet(k) = {} /\ u \in Thread
      /\ k.stat[t] = "RUNNING"
  BY <1>1, InHand DEF Consistent
<1>3. u = arg[t]
  OBVIOUS
<1> HIDE DEF u
<1>4. /\ QueueInv(n, Removed \cup {u})
      /\ SameRest(n, k) /\ n.stat = k.stat
      /\ WaitSet(n) = WaitSet(k) \ {u}
      /\ DefunctSet(n) = DefunctSet(k) \ {u}
  BY <1>2, RemoveInv
<1> HIDE DEF n
<1>5. QueueInv(n, Removed')
  <2>1. CASE u # t
    <3>1. Removed' = Removed \cup {u}
      BY <1>1, <1>3, <2>1 DEF Removed
    <3> QED BY <1>4, <3>1
  <2>2. CASE u = t
    <3>1. Removed' = Removed
      BY <1>1, <1>3, <2>2 DEF Removed
    <3>2. n.stat[u] # "READY"
      BY <1>2, <1>4, <2>2
    <3>3. QueueLists(n, Removed \cup {u}) /\ OneRunning(n)
      BY <1>4 DEF QueueInv
    <3>4. QueueLists(n, Removed)
      BY <1>2, <3>2, <3>3, RemovedNotReady
    <3> QED BY <3>1, <3>3, <3>4 DEF QueueInv
  <2> QED BY <2>1, <2>2
<1>6. /\ QueueInv(k', Removed') /\ WaitSet(k') = {} /\ DefunctSet(k') \subseteq DefunctSet(k)
      /\ k'.cur = k.cur /\ k'.nest = k.nest /\ k'.stat = k.stat /\ k'.timer \subseteq k.timer
  BY <1>1, <1>2, <1>4, <1>5 DEF SameRest
<1> QED BY <1>1, <1>2, <1>3, <1>6, AdvanceConsistent DEF ForCheck, ForResume

LEMMA CloseFinishStep ==
  ASSUME Consistent, NEW t \in Thread, CloseFinish(t)
  PROVE  Consistent'
<1> DEFINE u == arg[t]
           n == CloseThread(k, u)
           R == Removed \ {u}
<1>0. PICK l \in {"sched", "run"} : GotoFor(t, l, None)
  BY DEF CloseFinish
<1>1. /\ t = k.cur /\ pc[t] = "close" /\ k' = n /\ pc[t] \in Working /\ t # Idle
      /\ pc' = [pc EXCEPT ![t] = l] /\ arg' = [arg EXCEPT ![t] = None]
      /\ pc \in [Thread -> PC] /\ arg \in [Thread -> Thread \cup {None}]
  BY <1>0, Parts DEF ForCheck, CloseFinish, At, Goto, GotoFor, Working, ForClose, Consistent, IdleReclaims, ForIdle
<1>2. /\ QueueInv(k, Removed) /\ WaitSet(k) = {} /\ u \in Thread
      /\ k.stat[t] = "RUNNING"
  BY <1>1, InHand DEF Consistent
<1>3. /\ k.stat[u] \notin {"CLOSE", "FREE"}
      /\ u # Idle /\ (u = t \/ arg[u] = None)
      /\ u \in Removed \/ k.stat[u] # "READY"
  <2>1. CASE u = t
    BY <1>1, <1>2, <2>1
  <2>2. CASE u # t
    <3>1. u \in Removed
      BY <1>1, <2>2 DEF Removed
    <3>2. k.stat[u] \in {"INIT", "SUSPEND", "READY"} /\ arg[u] = None /\ u # Idle
      BY <1>1, <2>2 DEF Consistent, Closing, ForClose
    <3> QED BY <3>1, <3>2
  <2> QED BY <2>1, <2>2
<1>4. \A s \in Thread : s # t => arg[s] # u
  BY <1>1, <1>3, InHand
<1>5. u = arg[t]
  OBVIOUS
<1>6. Removed' = R
  BY <1>1, <1>4 DEF Removed
<1> HIDE DEF u, R
<1>7. QueueLists(k, R \cup {u}) /\ OneRunning(k) /\ u \notin R
  <2>1. CASE u \in Removed
    <3>1. R \cup {u} = Removed
      BY <2>1 DEF R
    <3> QED BY <1>2, <3>1 DEF QueueInv, R
  <2>2. CASE u \notin Removed
    <3>1. R = Removed /\ k.stat[u] # "READY"
      BY <1>3, <2>2 DEF R
    <3> QED BY <1>2, <2>2, <3>1, RemovedNotReady DEF QueueInv
  <2> QED BY <2>1, <2>2
<1>8. NoOther(k, u)
  <2>1. u \notin DefunctSet(k)
    BY <1>2, <1>3 DEF QueueInv, QueueLists, OtherLists
  <2> QED BY <1>2, <2>1 DEF NoOther
<1>9. /\ QueueInv(n, R)
      /\ n.cur = k.cur /\ n.nest = k.nest /\ n.timer = k.timer \ {u}
      /\ OneStat(n, k, u, "CLOSE")
      /\ WaitSet(n) = WaitSet(k) /\ DefunctSet(n) = DefunctSet(k) \cup {u}
  BY <1>2, <1>7, <1>8, CloseLemma
<1> HIDE DEF n
<1>10. Handled(t, u, "CLOSE")
  BY <1>1, <1>3, <1>4, <1>9 DEF Handled, Finished
<1>11. /\ QueueInv(k', Removed') /\ WaitSet(k') = {}
       /\ k'.cur = k.cur /\ k'.nest = k.nest /\ OneStat(k', k, u, "CLOSE")
       /\ "CLOSE" \in Stat
  BY <1>1, <1>2, <1>6, <1>9 DEF Stat
<1> QED BY <1>1, <1>2, <1>5, <1>10, <1>11, ReleaseConsistent

-----------------------------------------------------------------------------
(* The idle thread *)

LEMMA IdlePeekStep ==
  ASSUME Consistent, IdlePeek
  PROVE  Consistent'
<1> DEFINE u == Head(k.defunct)
<1>1. /\ Idle = k.cur /\ pc[Idle] = "run" /\ k' = k /\ k.defunct # <<>>
      /\ pc' = [pc EXCEPT ![Idle] = "dequeue"] /\ arg' = [arg EXCEPT ![Idle] = u]
      /\ pc \in [Thread -> PC] /\ arg \in [Thread -> Thread \cup {None}]
      /\ None \notin Thread /\ Idle \in Thread
  BY Parts, SchedulerAssumption DEF IdlePeek, At, Goto, GotoFor
<1>2. u \in Thread /\ k.stat[u] = "CLOSE"
  <2>1. k.defunct \in Seq(Thread)
    BY Parts DEF Kernel
  <2>2. u \in ToSet(k.defunct) /\ ToSet(k.defunct) \subseteq Thread
    BY <1>1, <2>1, HeadLemma
  <2> QED BY <2>2 DEF Consistent, QueueInv, QueueLists, OtherLists, DefunctSet
<1> HIDE DEF u
<1>3. arg[Idle] = None /\ pc[Idle] \notin Working /\ "dequeue" \in PC
  BY <1>1, CallerFree DEF PC
<1>4. Removed' = Removed
  BY <1>1, <1>3 DEF Removed
<1>5. TypeOK' /\ QueueInv(k', Removed') /\ WaitSet(k') = {}
  BY <1>1, <1>2, <1>3, <1>4 DEF Consistent, TypeOK
<1>6. Args'
  BY <1>1, <1>2 DEF ForCheck, Consistent, Args, Working, ForIdle, IdleReclaims
<1>7. IdleReclaims'
  BY <1>1, <1>2 DEF Consistent, IdleReclaims, ForIdle
<1>8. Resuming'
  BY <1>1 DEF ForCheck, Consistent, Resuming, ForResume
<1>9. Closing'
  <2> SUFFICES ASSUME NEW x \in Thread, pc'[x] \in ForClose, arg'[x] # x
               PROVE  /\ arg'[x] # k'.cur /\ arg'[x] # Idle
                      /\ arg'[arg'[x]] = None
                      /\ \/ k'.stat[arg'[x]] \in {"INIT", "SUSPEND"}
                         \/ x = k'.cur /\ k'.nest > 0 /\ k'.stat[arg'[x]] = "READY"
    BY DEF Closing
  <2>1. x # Idle /\ pc'[x] = pc[x] /\ arg'[x] = arg[x]
    BY <1>1 DEF ForClose
  <2>2. arg[x] \in Thread /\ arg[x] # Idle
    BY <1>1, <2>1 DEF ForCheck, Consistent, Args, Working, Closing
  <2> QED BY <1>1, <2>1, <2>2 DEF Consistent, Closing
<1>10. OneHand'
  <2> SUFFICES ASSUME NEW t \in Thread \ {Idle}, NEW s \in Thread,
                      t # s, arg'[t] # None, arg'[s] = arg'[t]
               PROVE  s = Idle /\ pc'[t] \in ForCheck /\ k'.stat[arg'[t]] = "CLOSE"
    BY DEF ForCheck, OneHand
  <2>1. arg'[t] = arg[t] /\ pc'[t] = pc[t]
    BY <1>1
  <2>2. CASE s # Idle
    <3>1. arg[s] = arg[t] /\ arg[t] # None
      BY <1>1, <2>1, <2>2
    <3> QED BY <1>1, <1>3, <2>1, <2>2, <3>1 DEF ForCheck, Consistent, OneHand
  <2>3. CASE s = Idle
    <3>1. arg[t] = u
      BY <1>1, <2>1, <2>3
    <3>2. arg[t] # None /\ pc[t] \in Working
      BY <2>1, <3>1, <1>1, <1>2 DEF Consistent, Args
    <3>3. pc[t] \notin ForResume /\ pc[t] \notin ForIdle
      BY <1>2, <3>1 DEF ForCheck, Consistent, Resuming, IdleReclaims
    <3>4. pc[t] \notin ForClose
      <4>1. k.stat[t] \in {"READY", "RUNNING"}
        BY <3>2 DEF Consistent, Args
      <4>2. u # t
        BY <1>2, <4>1
      <4> QED BY <1>2, <3>1, <4>2 DEF Consistent, Closing
    <3> QED BY <1>1, <1>2, <2>1, <2>3, <3>1, <3>2, <3>3, <3>4 DEF ForCheck, Working
  <2> QED BY <2>2, <2>3
<1>11. Timers'
  BY <1>1, <1>2 DEF Consistent, Timers
<1> QED BY <1>5, <1>6, <1>7, <1>8, <1>9, <1>10, <1>11 DEF Consistent

LEMMA IdleDequeueStep ==
  ASSUME Consistent, IdleDequeue
  PROVE  Consistent'
<1> DEFINE u == arg[Idle]
           n == ListRemove(k, u)
<1>1. /\ Idle = k.cur /\ pc[Idle] = "dequeue" /\ k' = n /\ pc[Idle] \in Working
      /\ pc' = [pc EXCEPT ![Idle] = "free"] /\ arg' = arg
      /\ pc \in [Thread -> PC] /\ Idle \in Thread
  BY Parts, SchedulerAssumption DEF ForCheck, IdleDequeue, At, Goto, Working, ForIdle
<1>2. /\ QueueInv(k, Removed) /\ WaitSet(k) = {} /\ u \in Thread
      /\ k.stat[u] = "CLOSE"
  BY <1>1, InHand DEF Consistent, IdleReclaims, ForIdle
<1>3. u = arg[Idle]
  OBVIOUS
<1> HIDE DEF u
<1>4. /\ QueueInv(n, Removed)
      /\ SameRest(n, k) /\ n.stat = k.stat
      /\ WaitSet(n) = WaitSet(k) \ {u}
      /\ DefunctSet(n) = DefunctSet(k) \ {u}
  BY <1>2, ListRemoveInv
<1> HIDE DEF n
<1>5. Removed' = Removed
  BY <1>1 DEF Removed
<1>6. /\ QueueInv(k', Removed') /\ WaitSet(k') = {} /\ DefunctSet(k') \subseteq DefunctSet(k)
      /\ k'.cur = k.cur /\ k'.nest = k.nest /\ k'.stat = k.stat /\ k'.timer \subseteq k.timer
      /\ u \notin DefunctSet(k')
  BY <1>1, <1>2, <1>4, <1>5 DEF SameRest
<1> QED BY <1>1, <1>2, <1>3, <1>6, AdvanceConsistent DEF ForCheck, ForResume

LEMMA IdleFreeStep ==
  ASSUME Consistent, IdleFree
  PROVE  Consistent'
<1> DEFINE u == arg[Idle]
<1>1. /\ Idle = k.cur /\ pc[Idle] = "free" /\ pc[Idle] \in Working
      /\ k' = [k EXCEPT !.stat[u] = "FREE"]
      /\ pc' = [pc EXCEPT ![Idle] = "run"] /\ arg' = [arg EXCEPT ![Idle] = None]
      /\ pc \in [Thread -> PC] /\ Idle \in Thread /\ k \in Kernel
  BY Parts, SchedulerAssumption DEF ForCheck, IdleFree, At, Goto, GotoFor, Working, ForIdle
<1>2. /\ QueueInv(k, Removed) /\ WaitSet(k) = {} /\ u \in Thread
      /\ k.stat[u] = "CLOSE" /\ u \notin DefunctSet(k)
  BY <1>1, InHand DEF Consistent, IdleReclaims, ForIdle
<1>3. u = arg[Idle]
  OBVIOUS
<1> HIDE DEF u
<1>4. /\ k' \in Kernel /\ SameLists(k', k) /\ SameRest(k', k) /\ OneStat(k', k, u, "FREE")
  BY <1>1, <1>2 DEF Kernel, Stat, SameLists, SameRest, OneStat
<1>5. "FREE" \in Stat \ {"READY", "RUNNING"} /\ "FREE" \in Stat
  BY DEF Stat
<1>6. QueueLists(k, Removed \cup {u}) /\ OneRunning(k) /\ NoOther(k, u)
  <2>1. k.stat[u] # "READY"
    BY <1>2
  <2>2. QueueLists(k, Removed \cup {u})
    BY <1>2, <2>1, RemovedNotReady DEF QueueInv
  <2> QED BY <1>2, <2>2 DEF QueueInv, NoOther
<1>7. QueueInv(k', Removed) /\ SameOthers(k', k)
  BY <1>2, <1>4, <1>5, <1>6, SetStatInv DEF SameRest
<1>8. Removed' = Removed
  BY <1>1 DEF Removed
<1>9. Handled(Idle, u, "FREE")
  BY <1>2, <1>4, <1>7 DEF Handled, Freed, SameOthers, SameRest
<1>10. /\ QueueInv(k', Removed') /\ WaitSet(k') = {}
       /\ k'.cur = k.cur /\ k'.nest = k.nest
  BY <1>2, <1>4, <1>7, <1>8 DEF SameOthers, SameRest
<1> QED BY <1>1, <1>2, <1>3, <1>4, <1>5, <1>9, <1>10, ReleaseConsistent

-----------------------------------------------------------------------------
(* The theorems *)

LEMMA NextConsistent ==
  ASSUME Disciplined, Consistent, [Next]_vars
  PROVE  Consistent'
<1>1. CASE UNCHANGED vars
  BY <1>1 DEF ForCheck, vars, Consistent, TypeOK, Removed, Args, IdleReclaims, Resuming, Closing,
              OneHand, Timers
<1>2. ASSUME NEW t \in Thread, InApi(t) PROVE Consistent'
  BY <1>2, ResumeCheckStep, ResumeUnlinkStepStep, ResumeInsertStep, SleepEndStep,
     DoScheduleStep, CloseRemoveStep, CloseFinishStep DEF InApi
<1>3. ASSUME NEW t \in Thread, CallApi(t) PROVE Consistent'
  <2>1. CASE ScheduleCall(t) \/ YieldCall(t) \/ Suspend(t) \/ Sleep(t) \/ DelayUntil(t)
             \/ Exit(t) \/ EnterCritical(t) \/ ExitCritical(t)
    BY <2>1, ScheduleCallStep, YieldStep, SuspendStep, SleepStep, ExitStep, CriticalStep
  <2>2. ASSUME NEW u \in App,
               Create(t, u) \/ Startup(t, u) \/ ResumeCall(t, u) \/ Close(t, u)
        PROVE  Consistent'
    BY <2>2, CreateStep, StartupStep, ResumeCallStep, CloseStep DEF App
  <2>3. ASSUME NEW u \in App, NEW p \in Prio, ChangePrio(t, u, p) PROVE Consistent'
    BY <2>3, ChangePrioStep DEF App
  <2> QED BY <1>3, <2>1, <2>2, <2>3 DEF CallApi
<1>4. CASE IdleStep
  BY <1>4, IdlePeekStep, IdleDequeueStep, IdleFreeStep DEF IdleStep
<1>5. ASSUME NEW u \in Thread, TimerExpire(u) PROVE Consistent'
  BY <1>5, TimerExpireStep
<1> QED BY <1>1, <1>2, <1>3, <1>4, <1>5, TickStep DEF Next

\* The ready lists, the bitmap, the thread states and the places the threads
\* have reached agree in every reachable state of a disciplined application.
THEOREM ConsistentAlways ==
  ASSUME Disciplined
  PROVE  Spec => []Consistent
<1>1. Init => Consistent
  BY InitConsistent
<1>2. Consistent /\ [Next]_vars => Consistent'
  BY NextConsistent
<1> QED BY <1>1, <1>2, PTL DEF Spec

\* The variables keep their types: no operation makes a priority, a list or a
\* time slice leave its range.
THEOREM TypeCorrect ==
  ASSUME Disciplined
  PROVE  Spec => []TypeOK
<1>1. Consistent => TypeOK
  BY DEF Consistent
<1> QED BY <1>1, ConsistentAlways, PTL

\* The scheduler neither loses a READY thread nor queues one that is blocked,
\* closed or of another priority (rt_schedule_insert_thread and
\* rt_schedule_remove_thread against every caller).
THEOREM ReadyListsExact ==
  ASSUME Disciplined
  PROVE  Spec => []ReadyExact
<1>1. Consistent => ReadyExact
  BY DEF Consistent, QueueInv, QueueLists, ReadyLists, ReadyExact
<1> QED BY <1>1, ConsistentAlways, PTL

\* rt_thread_ready_priority_group is exact: rt_schedule never takes the head of
\* an empty list.
THEOREM BitmapIsExact ==
  ASSUME Disciplined
  PROVE  Spec => []BitmapExact
<1>1. Consistent => BitmapExact
  BY DEF Consistent, QueueInv, QueueLists, Bitmap, BitmapExact
<1> QED BY <1>1, ConsistentAlways, PTL

\* The list node of a thread is linked once.
THEOREM NodesLinkedOnce ==
  ASSUME Disciplined
  PROVE  Spec => []LinkedOnce
<1>1. Consistent => LinkedOnce
  <2> SUFFICES ASSUME Consistent PROVE LinkedOnce
    OBVIOUS
  <2>1. NoRepeats(k) /\ ReadyLists(k, Removed) /\ OtherLists(k) /\ k \in Kernel
    BY DEF Consistent, QueueInv, QueueLists
  <2>2. ASSUME NEW x \in ReadySet(k), x \in DefunctSet(k) PROVE FALSE
    <3>1. PICK p \in Prio : x \in ToSet(k.ready[p])
      BY DEF ReadySet
    <3>2. k.ready[p] \in Seq(Thread)
      BY <2>1 DEF Kernel
    <3>3. x \in Thread
      BY <3>1, <3>2, HeadLemma
    <3> QED BY <2>1, <2>2, <3>1, <3>3 DEF ReadyLists, OtherLists
  <2> QED BY <2>1, <2>2 DEF LinkedOnce, NoRepeats
<1> QED BY <1>1, ConsistentAlways, PTL

\* At every point where an interrupt can come in, at most the current thread is
\* RUNNING and it is in no ready list.
THEOREM CurrentIsUnlinked ==
  ASSUME Disciplined
  PROVE  Spec => []CurrentUnlinked
<1>1. Consistent => CurrentUnlinked
  <2> SUFFICES ASSUME Consistent PROVE CurrentUnlinked
    OBVIOUS
  <2>1. OneRunning(k) /\ ReadyLists(k, Removed) /\ k.cur \in Thread
    BY Parts DEF Consistent, QueueInv, QueueLists
  <2> QED BY <2>1 DEF CurrentUnlinked, OneRunning, ReadyLists, ReadySet
<1> QED BY <1>1, ConsistentAlways, PTL

\* The assertion of _thread_timeout holds whenever the timer of a thread fires.
THEOREM TimersOfSuspended ==
  ASSUME Disciplined
  PROVE  Spec => []TimerOnlyWhenSuspended
<1>1. Consistent => TimerOnlyWhenSuspended
  BY DEF Consistent, Timers, TimerOnlyWhenSuspended
<1> QED BY <1>1, ConsistentAlways, PTL

\* A closed thread is in no ready list, so that the idle thread frees no memory
\* the scheduler still links.
THEOREM ClosedUnlinked ==
  ASSUME Disciplined
  PROVE  Spec => []ClosedNotReady
<1>1. Consistent => ClosedNotReady
  <2> SUFFICES ASSUME Consistent, NEW x \in ReadySet(k) PROVE k.stat[x] # "CLOSE"
    BY DEF ClosedNotReady
  <2>1. PICK p \in Prio : x \in ToSet(k.ready[p])
    BY DEF ReadySet
  <2>2. k.ready[p] \in Seq(Thread)
    BY Parts DEF Kernel
  <2>3. x \in Thread
    BY <2>1, <2>2, HeadLemma
  <2> QED BY <2>1, <2>3 DEF Consistent, QueueInv, QueueLists, ReadyLists
<1> QED BY <1>1, ConsistentAlways, PTL

-----------------------------------------------------------------------------
(* Whom the switches of a disciplined application let run: never a closed
   thread, and always one of the highest priority that is ready. *)

\* Only rt_schedule changes the current thread: in a function of the kernel, at the
\* end of a time slice and in the timeout of a thread.
LEMMA SwitchPoints ==
  ASSUME Consistent, [Next]_vars, k'.cur # k.cur
  PROVE  \/ \E t \in Thread : DoSchedule(t)
         \/ Tick
         \/ \E u \in Thread : TimerExpire(u)
<1>1. k \in Kernel /\ k.cur \in Thread
  BY Parts
<1>2. CASE UNCHANGED vars
  BY <1>2 DEF vars
<1>3. ASSUME NEW t \in Thread, InApi(t) PROVE DoSchedule(t)
  <2>1. CASE ResumeCheck(t) \/ SleepMark(t) \/ SleepReturn(t)
    BY <1>1, <2>1 DEF ResumeCheck, SleepMark, SleepReturn, Kernel
  <2>2. CASE ResumeUnlinkStep(t) \/ ResumeInsert(t)
    BY <1>1, <2>2 DEF ResumeUnlinkStep, ResumeInsert, ResumeUnlink, InsertThread,
                      ListRemove, Kernel
  <2>3. CASE CloseRemove(t) \/ CloseFinish(t)
    BY <1>1, <2>3 DEF CloseRemove, CloseFinish, RemoveThread, CloseThread, ListRemove,
                      Kernel
  <2> QED BY <1>3, <2>1, <2>2, <2>3 DEF InApi
<1>4. ASSUME NEW t \in Thread, CallApi(t) PROVE FALSE
  <2>1. CASE ScheduleCall(t) \/ YieldCall(t) \/ EnterCritical(t) \/ ExitCritical(t)
    BY <1>1, <2>1 DEF ScheduleCall, YieldCall, Yield, EnterCritical, ExitCritical, Kernel
  <2>2. CASE Suspend(t) \/ Sleep(t) \/ DelayUntil(t) \/ Exit(t)
    BY <1>1, <2>2 DEF Suspend, Sleep, DelayUntil, Exit, SuspendSelf, StartTimer, RemoveThread,
                      CloseThread, ListRemove, Kernel
  <2>3. ASSUME NEW u \in App,
               Create(t, u) \/ Startup(t, u) \/ ResumeCall(t, u) \/ Close(t, u)
        PROVE  FALSE
    BY <1>1, <2>3 DEF Create, Startup, ResumeCall, Close, InitThread, Kernel
  <2>4. ASSUME NEW u \in App, NEW p \in Prio, ChangePrio(t, u, p) PROVE FALSE
    BY <1>1, <2>4 DEF ChangePrio, ChangePriority, InsertThread, RemoveThread,
                      ListRemove, Kernel
  <2> QED BY <1>4, <2>1, <2>2, <2>3, <2>4 DEF CallApi
<1>5. CASE IdleStep
  BY <1>1, <1>5 DEF IdleStep, IdlePeek, IdleDequeue, IdleFree, ListRemove, Kernel
<1> QED BY <1>2, <1>3, <1>4, <1>5 DEF Next

\* A closed thread that has left the processor never gets it back: rt_schedule
\* finds it in no ready list, and its timer does not run any more.
THEOREM ClosedStaysOff ==
  ASSUME Disciplined
  PROVE  Spec => ClosedNeverRuns
<1> DEFINE Off == \A t \in Thread : k.stat[t] = "CLOSE" /\ k.cur # t => k'.cur # t
<1>1. ASSUME Consistent, [Next]_vars PROVE [Off]_vars
  <2> SUFFICES ASSUME NEW t \in Thread, k.stat[t] = "CLOSE", k.cur # t, k'.cur = t
               PROVE  FALSE
    OBVIOUS
  <2>1. QueueInv(k, Removed) /\ k.cur \notin Removed
    BY <1>1, Parts DEF Consistent
  <2>2. ASSUME NEW u \in Thread, DoSchedule(u) PROVE FALSE
    BY <2>1, <2>2, ScheduleLemma DEF DoSchedule, Scheduled
  <2>3. CASE Tick
    BY <2>1, <2>3, TickSliceLemma DEF Tick, Scheduled
  <2>4. ASSUME NEW u \in Thread, TimerExpire(u) PROVE FALSE
    <3>1. /\ k.stat[u] = "SUSPEND" /\ u \notin Removed
          /\ k' = ThreadTimeout(k, u)
      BY <1>1, <2>4 DEF Consistent, Timers, TimerExpire, Removed
    <3> QED BY <2>1, <3>1, TimeoutLemma
  <2> QED BY <1>1, <2>2, <2>3, <2>4, SwitchPoints
<1>2. Consistent /\ [Next]_vars => [Off]_vars
  BY <1>1
<1> QED BY <1>2, ConsistentAlways, PTL DEF Spec, ClosedNeverRuns

-----------------------------------------------------------------------------
(* The most urgent thread runs *)

\* HighestHere in terms of the thread states
Highest == k.nest = 0 /\ pc[k.cur] \notin ToSchedule => Top(k, Removed)

LEMMA HighestMeans ==
  ASSUME Consistent
  PROVE  Highest <=> HighestHere
<1>1. /\ ReadyLists(k, Removed) /\ k.cur \in Thread /\ k.prio \in [Thread -> Prio]
      /\ k.ready \in [Prio -> Seq(Thread)]
  BY Parts DEF QueueLists, Kernel
<1>2. ASSUME NEW x \in ReadySet(k)
      PROVE  x \in Thread /\ k.stat[x] = "READY" /\ x \notin Removed
  <2>1. PICK p \in Prio : x \in ToSet(k.ready[p])
    BY DEF ReadySet
  <2>2. x \in Thread
    BY <1>1, <2>1, HeadLemma
  <2> QED BY <1>1, <2>1, <2>2 DEF ReadyLists
<1>3. ASSUME NEW x \in Thread, k.stat[x] = "READY", x \notin Removed
      PROVE  x \in ReadySet(k)
  BY <1>1, <1>3 DEF ReadyLists, ReadySet
<1>4. Top(k, Removed) <=> /\ k.stat[k.cur] = "RUNNING"
                          /\ \A t \in ReadySet(k) : k.prio[k.cur] <= k.prio[t]
  BY <1>2, <1>3 DEF Top
<1> QED BY <1>4 DEF Highest, HighestHere

\* When no thread is ready the processor is not idle without the idle thread.
LEMMA SomeoneRuns ==
  ASSUME Consistent, k.group = {}
  PROVE  k.stat[k.cur] = "RUNNING"
<1>1. /\ QueueLists(k, Removed) /\ OneRunning(k) /\ Idle \in Thread
      /\ k \in Kernel
  BY Parts
<1>5. k.prio[Idle] \in Prio /\ k.ready \in [Prio -> Seq(Thread)]
  BY <1>1 DEF Kernel
<1>2. Idle \notin Removed
  BY DEF Consistent, Closing, Removed, ForClose
<1>3. k.stat[Idle] # "READY"
  <2> SUFFICES ASSUME k.stat[Idle] = "READY" PROVE FALSE
    OBVIOUS
  <2>1. Idle \in ToSet(k.ready[k.prio[Idle]])
    BY <1>1, <1>2, <1>5 DEF QueueLists, ReadyLists
  <2>2. k.ready[k.prio[Idle]] # <<>>
    BY <1>5, <2>1, HeadLemma
  <2> QED BY <1>1, <1>5, <2>2 DEF QueueLists, Bitmap
<1>4. k.stat[Idle] = "RUNNING"
  BY <1>3 DEF Consistent, IdleReclaims
<1> QED BY <1>1, <1>4 DEF OneRunning

LEMMA HighestAfterSchedule ==
  ASSUME Consistent, NEW t \in Thread, DoSchedule(t)
  PROVE  Highest'
<1>1. QueueInv(k, Removed) /\ k.cur \notin Removed
  BY Parts DEF Consistent
<1>2. k' = Schedule(k) /\ Scheduled(k', k)
  BY <1>1, ScheduleLemma DEF DoSchedule
<1>3. Removed' = Removed
  <2>1. \A x \in Thread : pc'[x] = "close" <=> pc[x] = "close"
    BY Parts DEF DoSchedule, At, Goto
  <2> QED BY <2>1 DEF Removed, DoSchedule
<1>4. CASE k'.nest = 0
  <2>1. k.nest = 0
    BY <1>2, <1>4 DEF Scheduled
  <2>2. Top(k', Removed)
    BY <1>1, <1>2, <2>1, SomeoneRuns, ScheduleTop
  <2> QED BY <1>3, <2>2 DEF Highest
<1> QED BY <1>4 DEF Highest

LEMMA HighestAfterTick ==
  ASSUME Consistent, Highest \/ k.left[k.cur] = 1, Tick
  PROVE  Highest'
<1>1. QueueInv(k, Removed) /\ k.cur \notin Removed /\ k \in Kernel
  BY Parts DEF Consistent
<1>2. /\ k' = TickSlice(k) /\ pc' = pc /\ Removed' = Removed
  BY DEF Tick, Removed
<1>3. CASE k.left[k.cur] > 1
  <2>1. /\ k'.cur = k.cur /\ k'.stat = k.stat /\ k'.prio = k.prio /\ k'.nest = k.nest
    BY <1>1, <1>2, <1>3 DEF TickSlice, Kernel
  <2>2. Highest
    BY <1>3
  <2> QED BY <1>2, <2>1, <2>2 DEF Highest, Top
<1>4. CASE ~(k.left[k.cur] > 1)
  <2> DEFINE over == Yield(k, k.cur)
  <2>1. k' = Schedule(over)
    BY <1>2, <1>4 DEF TickSlice
  <2>2. /\ over \in Kernel /\ SameLists(over, k) /\ over.stat = k.stat
        /\ over.cur = k.cur /\ over.nest = k.nest
    <3>1. Slice \in 1..Slice
      BY SliceAssumption
    <3> QED BY <1>1, <3>1 DEF Yield, Kernel, SameLists
  <2> HIDE DEF over
  <2>3. QueueInv(over, Removed) /\ over.cur \notin Removed
    BY <1>1, <2>2, FrameInv
  <2>4. over.group = {} => over.stat[over.cur] = "RUNNING"
    BY <2>2, SomeoneRuns DEF SameLists
  <2>5. k'.nest = over.nest
    BY <2>1, <2>3, ScheduleLemma DEF Scheduled
  <2>6. k'.nest = 0 => Top(k', Removed)
    BY <2>1, <2>3, <2>4, <2>5, ScheduleTop
  <2> QED BY <1>2, <2>6 DEF Highest
<1> QED BY <1>3, <1>4

LEMMA HighestAfterTimeout ==
  ASSUME Consistent, NEW u \in Thread, TimerExpire(u)
  PROVE  Highest'
<1> DEFINE r == Expired(k, u)
<1>1. /\ u \in k.timer /\ k' = Schedule(r) /\ pc' = pc /\ Removed' = Removed
  BY DEF TimerExpire, ThreadTimeout, Expired, Removed
<1>2. k.stat[u] = "SUSPEND" /\ u \notin Removed
  BY <1>1 DEF Consistent, Timers, Removed
<1>3. QueueInv(k, Removed) /\ k.cur \notin Removed
  BY Parts DEF Consistent
<1>4. /\ QueueInv(r, Removed) /\ r.cur = k.cur
      /\ r.stat[u] = IF u = k.cur THEN "RUNNING" ELSE "READY"
  BY <1>2, <1>3, ExpiredLemma
<1> HIDE DEF r
<1>5. r.group = {} => r.stat[r.cur] = "RUNNING"
  <2> SUFFICES ASSUME r.group = {}, u # k.cur PROVE FALSE
    BY <1>4
  <2>1. /\ QueueLists(r, Removed) /\ r.prio[u] \in Prio
        /\ r.ready \in [Prio -> Seq(Thread)]
    BY <1>4 DEF QueueInv, QueueLists, Kernel
  <2>2. u \in ToSet(r.ready[r.prio[u]])
    BY <1>2, <1>4, <2>1 DEF QueueLists, ReadyLists
  <2>3. r.ready[r.prio[u]] # <<>>
    BY <2>1, <2>2, HeadLemma
  <2> QED BY <2>1, <2>3 DEF QueueLists, Bitmap
<1>6. k'.nest = r.nest
  BY <1>1, <1>3, <1>4, ScheduleLemma DEF Scheduled
<1>7. k'.nest = 0 => Top(k', Removed)
  BY <1>1, <1>3, <1>4, <1>5, <1>6, ScheduleTop
<1> QED BY <1>1, <1>7 DEF Highest

\* A step after which the current thread still has rt_schedule to call.
LEMMA HighestOnTheWay ==
  ASSUME Consistent, k'.cur = k.cur, NEW t \in Thread, t = k.cur, NEW l \in ToSchedule,
         pc' = [pc EXCEPT ![t] = l]
  PROVE  Highest'
<1>1. pc \in [Thread -> PC]
  BY Parts
<1> QED BY <1>1 DEF Highest

\* A step that only changes the states of threads that are not ready, and leaves them
\* so, from a place from which a thread goes on without rt_schedule.
LEMMA HighestKept ==
  ASSUME Consistent, Highest, k'.cur = k.cur, k'.nest = k.nest,
         pc[k.cur] \notin ToSchedule, k'.stat[k.cur] = k.stat[k.cur],
         k'.prio[k.cur] = k.prio[k.cur],
         \A x \in Thread : k'.stat[x] = "READY" =>
           /\ k.stat[x] = "READY" /\ k'.prio[x] = k.prio[x]
           /\ x \in Removed => x \in Removed'
  PROVE  Highest'
BY DEF Highest, Top

\* A step of t alone, that leaves the states and priorities as they are.
LEMMA HighestMoved ==
  ASSUME Consistent, Highest, NEW t \in Thread, t = k.cur,
         pc[t] \notin ToSchedule, pc[t] # "close",
         NEW l, pc' = [pc EXCEPT ![t] = l],
         arg' = arg \/ \E u : arg' = [arg EXCEPT ![t] = u],
         k'.cur = k.cur, k'.nest = k.nest, k'.stat = k.stat, k'.prio = k.prio
  PROVE  Highest'
<1>1. pc \in [Thread -> PC] /\ arg \in [Thread -> Thread \cup {None}]
  BY Parts
<1>2. \A s \in Thread : pc[s] = "close" => pc'[s] = "close" /\ arg'[s] = arg[s]
  BY <1>1
<1>3. Removed \subseteq Removed'
  BY <1>2 DEF Removed
<1> QED BY <1>3, HighestKept

LEMMA HighestCalls ==
  ASSUME Disciplined, ~LeftToCaller, Consistent, Highest, k'.cur = k.cur,
         NEW t \in Thread, CallApi(t)
  PROVE  Highest'
<1>1. /\ k \in Kernel /\ k.cur \in Thread /\ k.nest \in Nat /\ pc \in [Thread -> PC]
      /\ k.stat \in [Thread -> Stat] /\ k.prio \in [Thread -> Prio]
  BY Parts DEF Kernel
<1>2. {"sched", "slept", "sleepSched", "startCheck"} \subseteq ToSchedule /\ "run" \notin ToSchedule
  BY DEF ToSchedule
<1>3. CASE ScheduleCall(t) \/ YieldCall(t) \/ Suspend(t) \/ Sleep(t) \/ DelayUntil(t) \/ Exit(t)
  BY <1>2, <1>3, HighestOnTheWay
  DEF ScheduleCall, YieldCall, Suspend, Sleep, DelayUntil, Exit, Calls, Goto
<1>4. CASE EnterCritical(t)
  BY <1>1, <1>4 DEF EnterCritical, Highest, Kernel
<1>5. CASE ExitCritical(t)
  <2>1. CASE k.nest = 1
    BY <1>2, <1>5, <2>1, HighestOnTheWay DEF ExitCritical, Calls, Goto
  <2>2. CASE k.nest # 1
    <3>1. k'.nest = k.nest - 1 /\ k.nest > 0
      BY <1>1, <1>5 DEF ExitCritical, Kernel
    <3> QED BY <1>1, <2>2, <3>1 DEF Highest
  <2> QED BY <2>1, <2>2
<1>6. ASSUME NEW u \in App, Startup(t, u) PROVE Highest'
  BY <1>2, <1>6, HighestOnTheWay DEF Startup, Calls, GotoFor, Goto
<1>9. ASSUME NEW u \in App, ResumeCall(t, u) \/ Close(t, u) PROVE Highest'
  <2>1. /\ t = k.cur /\ pc[t] = "run" /\ k' = k /\ arg' = [arg EXCEPT ![t] = u]
        /\ \E l \in {"check", "remove", "close"} : pc' = [pc EXCEPT ![t] = l]
    BY <1>9 DEF ResumeCall, Close, Calls, GotoFor, Goto
  <2>2. PICK l \in {"check", "remove", "close"} : pc' = [pc EXCEPT ![t] = l]
    BY <2>1
  <2>3. pc[t] \notin ToSchedule /\ pc[t] # "close"
    BY <1>2, <2>1
  <2> QED BY <2>1, <2>2, <2>3, HighestMoved
<1>7. ASSUME NEW u \in App, Create(t, u) PROVE Highest'
  <2>1. /\ t = k.cur /\ pc[t] = "run" /\ k.stat[t] = "RUNNING" /\ k.stat[u] = "FREE"
        /\ k' = InitThread(k, u, InitPrio[u]) /\ u \in Thread
        /\ pc' = [pc EXCEPT ![u] = "run"] /\ arg' = [arg EXCEPT ![u] = None]
    BY <1>7 DEF Create, Calls, App
  <2>2. /\ k'.nest = k.nest /\ k'.stat = [k.stat EXCEPT ![u] = "INIT"]
        /\ k'.prio = [k.prio EXCEPT ![u] = InitPrio[u]]
    BY <1>1, <2>1 DEF InitThread, Kernel
  <2>3. arg[u] = None /\ pc[u] # "close"
    BY <2>1 DEF ForCheck, Consistent, Args, Working, ForClose
  <2>4. arg \in [Thread -> Thread \cup {None}]
    BY Parts
  <2>5. Removed \subseteq Removed'
    BY <1>1, <2>1, <2>3, <2>4 DEF Removed
  <2>6. /\ k'.stat[t] = k.stat[t] /\ k'.prio[t] = k.prio[t]
        /\ \A x \in Thread : k'.stat[x] = "READY" =>
             k.stat[x] = "READY" /\ k'.prio[x] = k.prio[x]
    BY <1>1, <2>1, <2>2
  <2>7. pc[k.cur] \notin ToSchedule
    BY <1>2, <2>1
  <2> QED BY <2>1, <2>2, <2>5, <2>6, <2>7, HighestKept
<1>8. ASSUME NEW u \in App, NEW p \in Prio, ChangePrio(t, u, p) PROVE FALSE
  BY <1>8 DEF LeftToCaller, Reprioritise, App
<1> QED BY <1>3, <1>4, <1>5, <1>6, <1>7, <1>8, <1>9 DEF CallApi

LEMMA TwoResumptions ==
  \A r \in Resumptions :
    \/ /\ r.check = "check" /\ r.unlink = "unlink"
       /\ r.insert = "insert" /\ r.done = "run"
    \/ /\ r.check = "startCheck" /\ r.unlink = "startUnlink"
       /\ r.insert = "startInsert" /\ r.done = "sched"
BY DEF Resumptions, Resumption, StartingUp

LEMMA HighestInApi ==
  ASSUME ~LeftToCaller, Consistent, Highest, k'.cur = k.cur, NEW t \in Thread, InApi(t)
  PROVE  Highest'
<1>1. /\ k \in Kernel /\ k.cur \in Thread /\ pc \in [Thread -> PC]
      /\ k.stat \in [Thread -> Stat]
  BY Parts
<1>2. /\ {"sched", "startUnlink", "startInsert", "sleepSched"} \subseteq ToSchedule
      /\ {"check", "unlink", "remove", "woken"} \cap ToSchedule = {}
  BY DEF ToSchedule
<1>3. CASE ResumeCheck(t)
  <2>1. t = k.cur /\ k' = k
    BY <1>3 DEF ResumeCheck, At
  <2>2. CASE pc[t] = "startCheck"
    <3>1. PICK l \in {"startUnlink", "sched"} : pc' = [pc EXCEPT ![t] = l]
      BY <1>3, <2>2, TwoResumptions DEF ResumeCheck, At, GotoFor, Goto
    <3> QED BY <1>2, <2>1, <3>1, HighestOnTheWay
  <2>3. CASE pc[t] = "check"
    <3>1. /\ \E l \in {"unlink", "run"} : pc' = [pc EXCEPT ![t] = l]
          /\ arg' = arg \/ \E u : arg' = [arg EXCEPT ![t] = u]
      BY <1>3, <2>3, TwoResumptions DEF ResumeCheck, At, GotoFor, Goto
    <3>2. PICK l \in {"unlink", "run"} : pc' = [pc EXCEPT ![t] = l]
      BY <3>1
    <3>3. pc[t] \notin ToSchedule /\ pc[t] # "close"
      BY <1>2, <2>3
    <3> QED BY <2>1, <3>1, <3>2, <3>3, HighestMoved
  <2> QED BY <1>3, <2>2, <2>3, TwoResumptions DEF ResumeCheck, At
<1>4. CASE ResumeUnlinkStep(t)
  <2>1. t = k.cur /\ k' = ResumeUnlink(k, arg[t]) /\ arg' = arg
    BY <1>4 DEF ResumeUnlinkStep, At
  <2>2. CASE pc[t] = "startUnlink"
    <3>1. pc' = [pc EXCEPT ![t] = "startInsert"]
      BY <1>4, <2>2, TwoResumptions DEF ResumeUnlinkStep, At, Goto
    <3> QED BY <1>2, <2>1, <3>1, HighestOnTheWay
  <2>3. CASE pc[t] = "unlink"
    <3>1. pc' = [pc EXCEPT ![t] = "insert"]
      BY <1>4, <2>3, TwoResumptions DEF ResumeUnlinkStep, At, Goto
    <3>2. k'.nest = k.nest /\ k'.stat = k.stat /\ k'.prio = k.prio
      BY <1>1, <2>1 DEF ResumeUnlink, ListRemove, Kernel
    <3>3. pc[t] \notin ToSchedule /\ pc[t] # "close"
      BY <1>2, <2>3
    <3> QED BY <2>1, <3>1, <3>2, <3>3, HighestMoved
  <2> QED BY <1>4, <2>2, <2>3, TwoResumptions DEF ResumeUnlinkStep, At
<1>5. CASE ResumeInsert(t)
  <2>1. pc'[t] # "run"
    BY <1>5 DEF LeftToCaller, ResumeOnly
  <2>2. t = k.cur /\ pc' = [pc EXCEPT ![t] = "sched"]
    BY <1>1, <1>5, <2>1, TwoResumptions DEF ResumeInsert, At, GotoFor, Goto
  <2> QED BY <1>2, <2>2, HighestOnTheWay
<1>6. CASE SleepMark(t)
  BY <1>2, <1>6, HighestOnTheWay DEF SleepMark, At, Goto
<1>7. CASE SleepReturn(t)
  <2>1. /\ k'.nest = k.nest /\ k'.stat = k.stat /\ k'.prio = k.prio
        /\ t = k.cur /\ pc[t] = "woken" /\ pc' = [pc EXCEPT ![t] = "run"] /\ arg' = arg
    BY <1>1, <1>7 DEF SleepReturn, At, Goto, Kernel
  <2>2. pc[t] \notin ToSchedule
    BY <1>2, <2>1
  <2> QED BY <2>1, <2>2, HighestMoved
<1>8. CASE CloseRemove(t)
  <2>1. /\ t = k.cur /\ pc[t] = "remove" /\ arg' = arg
        /\ k' = RemoveThread(k, arg[t]) /\ pc' = [pc EXCEPT ![t] = "close"]
    BY <1>8 DEF CloseRemove, At, Goto
  <2>2. k'.nest = k.nest /\ k'.stat = k.stat /\ k'.prio = k.prio
    BY <1>1, <2>1 DEF RemoveThread, ListRemove, Kernel
  <2>3. pc[t] \notin ToSchedule
    BY <1>2, <2>1
  <2> QED BY <2>1, <2>2, <2>3, HighestMoved
<1>9. CASE CloseFinish(t)
  <2>1. pc'[t] # "run"
    BY <1>9 DEF LeftToCaller, DetachOnly
  <2>2. t = k.cur /\ pc' = [pc EXCEPT ![t] = "sched"]
    BY <1>1, <1>9, <2>1 DEF CloseFinish, At, GotoFor, Goto
  <2> QED BY <1>2, <2>2, HighestOnTheWay
<1>10. CASE DoSchedule(t)
  BY <1>10, HighestAfterSchedule
<1> QED BY <1>3, <1>4, <1>5, <1>6, <1>7, <1>8, <1>9, <1>10 DEF InApi

LEMMA HighestIdle ==
  ASSUME Consistent, Highest, k'.cur = k.cur, IdleStep
  PROVE  Highest'
<1>1. k \in Kernel /\ pc \in [Thread -> PC] /\ arg \in [Thread -> Thread \cup {None}]
  BY Parts
<1>2. /\ k.cur = Idle /\ pc[Idle] \in {"run", "dequeue", "free"}
      /\ \E l \in {"run", "dequeue", "free"} : pc' = [pc EXCEPT ![Idle] = l]
  BY DEF IdleStep, IdlePeek, IdleDequeue, IdleFree, At, Goto, GotoFor
<1>3. \A x \in Thread : /\ pc'[x] = "close" <=> pc[x] = "close"
                        /\ x # Idle => arg'[x] = arg[x]
  BY <1>1, <1>2 DEF IdleStep, IdlePeek, IdleDequeue, IdleFree, GotoFor
<1>4. Removed' = Removed
  <2>1. \A x \in Thread : pc[x] = "close" => arg'[x] = arg[x]
    BY <1>2, <1>3
  <2> QED BY <1>3, <2>1 DEF Removed
<1>5. pc[k.cur] \notin ToSchedule
  BY <1>2 DEF ToSchedule
<1>6. CASE IdlePeek \/ IdleDequeue
  <2>1. k'.nest = k.nest /\ k'.stat = k.stat /\ k'.prio = k.prio
    BY <1>1, <1>6 DEF IdlePeek, IdleDequeue, ListRemove, Kernel
  <2> QED BY <1>4, <1>5, <2>1, HighestKept
<1>7. CASE IdleFree
  <2>1. /\ k.stat[arg[Idle]] = "CLOSE" /\ arg[Idle] \in Thread /\ k.stat[Idle] # "CLOSE"
    BY <1>1, <1>7 DEF ForCheck, IdleFree, At, Consistent, IdleReclaims, ForIdle, Args, Working
  <2>2. /\ k'.nest = k.nest /\ k'.stat = [k.stat EXCEPT ![arg[Idle]] = "FREE"]
        /\ k'.prio = k.prio
    BY <1>1, <1>7 DEF IdleFree, Kernel
  <2>3. k.stat \in [Thread -> Stat]
    BY Parts
  <2>4. /\ k'.stat[Idle] = k.stat[Idle]
        /\ \A x \in Thread : k'.stat[x] = "READY" => k.stat[x] = "READY"
    BY <2>1, <2>2, <2>3
  <2> QED BY <1>2, <1>4, <1>5, <2>2, <2>4, HighestKept
<1> QED BY <1>6, <1>7 DEF IdleStep

LEMMA HighestStep ==
  ASSUME Disciplined, ~LeftToCaller, Consistent, Highest \/ Reschedule, [Next]_vars,
         ~UNCHANGED vars
  PROVE  Highest'
<1>1. CASE \E t \in Thread : DoSchedule(t)
  BY <1>1, HighestAfterSchedule
<1>2. CASE Tick /\ (Highest \/ k.left[k.cur] = 1)
  BY <1>2, HighestAfterTick
<1>3. CASE \E u \in Thread : TimerExpire(u)
  BY <1>3, HighestAfterTimeout
<1>4. CASE Highest /\ k'.cur = k.cur
  BY <1>2, <1>3, <1>4, HighestInApi, HighestCalls, HighestIdle DEF Next
<1>5. CASE Highest /\ k'.cur # k.cur
  BY <1>1, <1>2, <1>3, <1>5, SwitchPoints
<1> QED BY <1>1, <1>2, <1>3, <1>4, <1>5 DEF Reschedule

LEMMA InitHighest ==
  ASSUME \A t \in Thread : InitPrio[t] <= InitPrio[Idle], Init
  PROVE  Highest
<1>1. /\ k.cur = Main /\ k.prio = InitPrio
      /\ k.stat = [t \in Thread |-> CASE t = Main -> "RUNNING"
                                      [] t = Idle -> "READY"
                                      [] OTHER    -> "INIT"]
  BY DEF Init
<1>2. k.stat[Main] = "RUNNING"
  BY <1>1
<1>3. \A t \in Thread : k.stat[t] = "READY" => t = Idle
  BY <1>1
<1> QED BY <1>1, <1>2, <1>3 DEF Highest, Top

\* No ready thread is more urgent than the current one wherever that one goes on
\* without calling rt_schedule, if no thread is less urgent than the idle thread, as
\* rt_thread_idle_init sees to.  Only RT_THREAD_CTRL_CHANGE_PRIORITY, a plain
\* rt_thread_resume and a plain rt_thread_detach or rt_thread_delete, which do not
\* reschedule, put an end to it; and after every rt_schedule, of a function, of the
\* tick at the end of a slice or of a timer, it holds, whatever they left undone.
THEOREM HighestAlwaysRuns ==
  ASSUME Disciplined, \A t \in Thread : InitPrio[t] <= InitPrio[Idle]
  PROVE  Spec => HighestRuns
<1>1. Consistent => (Highest <=> HighestHere)
  BY HighestMeans
<1>2. Init => Highest
  BY InitHighest
<1>3. Consistent /\ [Next]_vars /\ ~UNCHANGED vars
        => (Highest \/ Reschedule => Highest' \/ LeftToCaller)
  BY HighestStep
<1>4. Consistent /\ (Consistent' => (Highest' <=> HighestHere')) /\ Consistent'
        /\ [Next]_vars => [HighestHere \/ Reschedule => HighestHere' \/ LeftToCaller]_vars
  BY <1>1, <1>3
<1> QED BY <1>1, <1>2, <1>4, ConsistentAlways, PTL DEF Spec, HighestRuns

-----------------------------------------------------------------------------
(* Who goes first among equals *)

\* A thread that the switch to another one leaves READY is the first of its list:
\* its YIELD bit is cleared before it is put back.
LEMMA SwitchHead ==
  ASSUME NEW q \in Kernel, NEW t \in Thread, t = q.cur, q.stat[t] = "RUNNING",
         NEW to \in Thread, to # t
  PROVE  Head(SwitchTo(q, to).ready[q.prio[t]]) = t
<1> DEFINE p == q.prio[t]
           from == [q EXCEPT !.yield = @ \ {t}, !.cur = to]
           queued == InsertThread(from, t)
           u == RemoveThread(queued, to)
<1>1. q.prio \in [Thread -> Prio] /\ q.ready \in [Prio -> Seq(Thread)] /\ p \in Prio
  BY DEF Kernel
<1>2. from \in Kernel /\ t \notin from.yield
      /\ from.cur = to /\ from.ready = q.ready /\ from.prio = q.prio
  BY DEF Kernel
<1>3. SwitchTo(q, to).ready = u.ready
  <2>1. SwitchTo(q, to) = [u EXCEPT !.stat[to] = "RUNNING"]
    BY DEF SwitchTo
  <2>2. u.ready = [u EXCEPT !.stat[to] = "RUNNING"].ready
    <3> HIDE DEF u
    <3> QED OBVIOUS
  <2> QED BY <2>1, <2>2
<1> HIDE DEF from
<1>4. queued = [from EXCEPT !.stat[t] = "READY", !.ready[p] = Cons(t, @),
                            !.group = @ \cup {p}]
  BY <1>2 DEF InsertThread
<1>5. queued.ready[p] = Cons(t, q.ready[p])
  BY <1>1, <1>2, <1>4 DEF Kernel
<1> HIDE DEF queued
<1>6. u.ready[p] = Unlink(queued.ready[p], to)
  BY <1>1 DEF RemoveThread, ListRemove
<1> HIDE DEF u
<1> DEFINE old == q.ready[p]
<1>7. old \in Seq(Thread)
  BY <1>1
<1> HIDE DEF old
<1>8. Cons(t, old) \in Seq(Thread) /\ Cons(t, old) # <<>>
  BY <1>7, ConsLemma
<1>9. Head(Cons(t, old)) = t
  BY <1>7 DEF Cons
<1>10. Head(Unlink(Cons(t, old), to)) = t
  BY <1>8, <1>9, UnlinkHead
<1> QED BY <1>3, <1>5, <1>6, <1>10 DEF old

LEMMA ScheduleHead ==
  ASSUME NEW q, NEW R, QueueInv(q, R), q.cur \notin R, NEW n, n = Schedule(q),
         n.cur # q.cur, n.stat[q.cur] = "READY"
  PROVE  Head(n.ready[q.prio[q.cur]]) = q.cur
<1> DEFINE t == q.cur
           to == PickThread(q)
<1>1. QueueLists(q, R) /\ OneRunning(q) /\ q \in Kernel /\ t \in Thread
  BY DEF QueueInv, QueueLists, Kernel
<1>2. RemoveThread(q, t).cur = t
  BY <1>1 DEF RemoveThread, ListRemove, Kernel
<1>3. q.nest = 0 /\ q.group # {} /\ to # t
  <2> DEFINE r == RemoveThread(q, t)
  <2>1. [r EXCEPT !.yield = @ \ {t}, !.stat[t] = "RUNNING"].cur = t
    <3>1. r.cur = t
      BY <1>2
    <3> HIDE DEF r
    <3> QED BY <3>1
  <2> HIDE DEF r, to
  <2> QED BY <2>1 DEF Schedule, r, to
<1>4. n = SwitchTo(q, to)
  BY <1>3 DEF Schedule
<1>5. to \in Thread
  <2>1. to = HighestThread(q)
    BY <1>3 DEF PickThread
  <2> QED BY <1>1, <1>3, <2>1, HighestLemma
<1>6. q.stat[t] = "RUNNING"
  <2>1. Scheduled(n, q)
    BY ScheduleLemma
  <2>2. n.stat[t] = q.stat[t] \/ {n.stat[t], q.stat[t]} = {"READY", "RUNNING"}
    BY <1>1, <2>1 DEF Scheduled
  <2>3. q.stat[t] # "READY"
    BY <1>1 DEF OneRunning
  <2> QED BY <2>2, <2>3
<1> HIDE DEF to
<1> QED BY <1>1, <1>3, <1>4, <1>5, <1>6, SwitchHead

\* What the step of a preemption leaves.
PutBackFirst == k'.cur # k.cur /\ k'.stat[k.cur] = "READY"
                  => Head(k'.ready[k.prio[k.cur]]) = k.cur

LEMMA PutBackStep ==
  ASSUME Consistent, [Next]_vars
  PROVE  PutBackFirst
<1> SUFFICES ASSUME k'.cur # k.cur, k'.stat[k.cur] = "READY"
             PROVE  Head(k'.ready[k.prio[k.cur]]) = k.cur
  BY DEF PutBackFirst
<1>1. QueueInv(k, Removed) /\ k.cur \notin Removed /\ k \in Kernel
  BY Parts DEF Consistent
<1>2. CASE \E t \in Thread : DoSchedule(t)
  <2>1. k' = Schedule(k)
    BY <1>2 DEF DoSchedule
  <2> QED BY <1>1, <2>1, ScheduleHead
<1>3. CASE Tick
  <2>1. k' = TickSlice(k)
    BY <1>3 DEF Tick
  <2> DEFINE over == Yield(k, k.cur)
  <2>2. ~(k.left[k.cur] > 1)
    BY <1>1, <2>1 DEF TickSlice, Kernel
  <2>3. k' = Schedule(over)
    BY <2>1, <2>2 DEF TickSlice
  <2>4. /\ over \in Kernel /\ SameLists(over, k) /\ over.stat = k.stat
        /\ over.cur = k.cur /\ over.prio = k.prio
    <3>1. Slice \in 1..Slice
      BY SliceAssumption
    <3> QED BY <1>1, <3>1 DEF Yield, Kernel, SameLists
  <2> HIDE DEF over
  <2>5. QueueInv(over, Removed) /\ over.cur \notin Removed
    BY <1>1, <2>4, FrameInv
  <2> QED BY <2>3, <2>4, <2>5, ScheduleHead
<1>4. ASSUME NEW u \in Thread, TimerExpire(u)
      PROVE  Head(k'.ready[k.prio[k.cur]]) = k.cur
  <2> DEFINE r == Expired(k, u)
  <2>1. /\ u \in k.timer /\ k' = Schedule(r)
    BY <1>4 DEF TimerExpire, ThreadTimeout, Expired
  <2>2. k.stat[u] = "SUSPEND" /\ u \notin Removed
    BY <2>1 DEF Consistent, Timers, Removed
  <2>3. QueueInv(r, Removed) /\ r.cur = k.cur
    BY <1>1, <2>2, ExpiredLemma
  <2>4. r.prio = k.prio
    BY <1>1 DEF Expired, InsertThread, ListRemove, Kernel
  <2> HIDE DEF r
  <2> QED BY <1>1, <2>1, <2>3, <2>4, ScheduleHead
<1> QED BY <1>2, <1>3, <1>4, SwitchPoints

\* A thread put back because a more urgent one came in, its slice not over, is the
\* first of its list, whether rt_schedule was called by a function or by a timer.
THEOREM PreemptedIsFirst == ASSUME Disciplined PROVE Spec => PreemptedGoesFirst
<1>1. Consistent /\ [Next]_vars =>
        [(/\ k'.cur # k.cur /\ k'.stat[k.cur] = "READY"
          /\ k'.prio[k'.cur] < k.prio[k.cur]
          /\ ~SliceOver) =>
            Head(k'.ready[k.prio[k.cur]]) = k.cur]_vars
  BY PutBackStep DEF PutBackFirst
<1> QED BY <1>1, ConsistentAlways, PTL DEF Spec, PreemptedGoesFirst
=============================================================================
