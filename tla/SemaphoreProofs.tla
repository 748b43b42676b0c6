-------------------------- MODULE SemaphoreProofs ---------------------------
(***************************************************************************)
(* The semaphore for any number of threads: its lists stay in order and    *)
(* its permits are accounted for, and it implements the abstract semaphore.*)
(***************************************************************************)
EXTENDS Semaphore, KernelProofs

USE IpcAssumption, ThreadAssumption DEF Orderly

\* Neither half is inductive alone: the bound of owed in TypeOK comes from the
\* account, and a permit is granted once because of who queues when.
Inv == Consistent /\ PermitsAccounted

Holders == {t \in Thread : Granted(t)}
AbsVars == <<value, [t \in Thread |-> AbsState(t)]>>

\* The threads W, all suspended, stop waiting with the error e, and nobody enters
\* or leaves a take.
Wakes(W, e) ==
  /\ Orderly(k') /\ Awakened(k', k, W, e)
  /\ \A t \in W : t \in Thread /\ Suspended(k, t)
  /\ pc' \in [Thread -> PC]
  /\ \A t \in Thread : InTake(t)' <=> InTake(t)

-----------------------------------------------------------------------------
(* What holds in every state *)

\* The semaphore is the only object, and who waits for it waits inside a take.
LEMMA InvFacts ==
  ASSUME Inv
  PROVE  /\ Orderly(k) /\ k.cur \in Thread /\ Sem \in WaitObj
         /\ k.error \in [Thread -> Error]
         /\ pc \in [Thread -> PC] /\ value \in 0..SemMax /\ alive \in BOOLEAN
         /\ value \in Nat /\ SemMax \in Nat
         /\ \A t \in Thread : Waits(k, t, Sem) <=> InTake(t) /\ Suspended(k, t)
         /\ \A t \in Thread : Waits(k, t, Sem) => k.error[t] = "EINTR"
         /\ IsFiniteSet(Holders) /\ Cardinality(Holders) \in Nat
         /\ owed = value + Cardinality(Holders)
         /\ HasWaiter(k, Sem) => value = 0
<1>1. Sem \in WaitObj /\ SemMax \in Nat
  BY SemaphoreAssumption
<1>2. IsFiniteSet(Holders) /\ Cardinality(Holders) \in Nat
  <2>1. Holders \subseteq Thread
    BY DEF Holders
  <2>2. IsFiniteSet(Holders)
    BY <2>1, FS_Subset
  <2> QED BY <2>2, FS_CardinalityType
<1>3. Orderly(k) /\ k.cur \in Thread /\ k.error \in [Thread -> Error]
  BY OrderlyFacts DEF Inv, Consistent
<1>4. /\ pc \in [Thread -> PC] /\ value \in 0..SemMax /\ alive \in BOOLEAN
      /\ \A t \in Thread : Waits(k, t, Sem) <=> InTake(t) /\ Suspended(k, t)
      /\ \A t \in Thread : Waits(k, t, Sem) => k.error[t] = "EINTR"
  <2>1. pc \in [Thread -> PC] /\ value \in 0..SemMax /\ alive \in BOOLEAN
    BY DEF Inv, Consistent, TypeOK
  <2>2. ASSUME NEW t \in Thread
        PROVE  /\ Waits(k, t, Sem) <=> InTake(t) /\ Suspended(k, t)
               /\ Waits(k, t, Sem) => k.error[t] = "EINTR"
    BY DEF Inv, Consistent
  <2> QED BY <2>1, <2>2
<1>5. owed = value + Cardinality(Holders) /\ (HasWaiter(k, Sem) => value = 0)
  BY DEF Inv, PermitsAccounted, Holders
<1>6. value \in Nat
  BY <1>1, <1>4
<1> QED BY <1>1, <1>2, <1>3, <1>4, <1>5, <1>6

\* Where the abstract semaphore sees a caller, before a step and after it.
LEMMA AbsStateCases ==
  ASSUME NEW t \in Thread
  PROVE  /\ AbsState(t) = IF ~InTake(t) THEN "out"
                         ELSE IF Waits(k, t, Sem) THEN "waiting"
                         ELSE IF Granted(t) THEN "granted" ELSE "failed"
         /\ AbsState(t)' = IF ~InTake(t)' THEN "out"
                          ELSE IF Waits(k', t, Sem) THEN "waiting"
                          ELSE IF Granted(t)' THEN "granted" ELSE "failed"
<1>1. AbsState(t) = IF ~InTake(t) THEN "out"
                    ELSE IF Waits(k, t, Sem) THEN "waiting"
                    ELSE IF Granted(t) THEN "granted" ELSE "failed"
  BY DEF AbsState, Granted
<1>2. AbsState(t)' = IF ~InTake(t)' THEN "out"
                     ELSE IF Waits(k', t, Sem) THEN "waiting"
                     ELSE IF Granted(t)' THEN "granted" ELSE "failed"
  BY DEF AbsState, Granted
<1> QED BY <1>1, <1>2

\* What a step must do so that the invariant holds again.
LEMMA InvStep ==
  ASSUME Inv, NEW W, NEW e, Wakes(W, e), Leaves', alive' \in BOOLEAN,
         value' \in 0..SemMax, owed' = value' + Cardinality(Holders'),
         HasWaiter(k', Sem) => value' = 0
  PROVE  Inv'
<1>1. \A t \in Thread : /\ Waits(k', t, Sem) <=> Waits(k, t, Sem) /\ t \notin W
                        /\ Suspended(k', t) <=> Suspended(k, t) /\ t \notin W
                        /\ t \notin W => k'.error[t] = k.error[t]
  BY InvFacts DEF Wakes, Awakened, Waits
<1>2. \A t \in Thread : /\ Waits(k', t, Sem) <=> InTake(t)' /\ Suspended(k', t)
                        /\ Waits(k', t, Sem) => k'.error[t] = "EINTR"
  BY <1>1, InvFacts DEF Wakes
<1>3. TypeOK'
  <2>1. k' \in Kernel
    BY OrderlyFacts DEF Wakes
  <2>2. Holders' \subseteq Thread
    BY DEF Holders
  <2>3. /\ Cardinality(Holders') \in Nat /\ Cardinality(Thread) \in Nat
        /\ Cardinality(Holders') <= Cardinality(Thread)
    <3>1. IsFiniteSet(Holders') /\ Cardinality(Holders') <= Cardinality(Thread)
      BY <2>2, FS_Subset
    <3> QED BY <3>1, FS_CardinalityType
  <2>4. owed' \in 0..(SemMax + Cardinality(Thread))
    BY <2>3, InvFacts
  <2> QED BY <2>1, <2>4 DEF TypeOK, Wakes
<1>4. Consistent'
  BY <1>2, <1>3 DEF Consistent, Wakes
<1>5. PermitsAccounted'
  BY DEF PermitsAccounted, Holders
<1> QED BY <1>4, <1>5 DEF Inv

\* A permit is granted to a thread in a take that is woken without an error; a
\* wait fails when it ends otherwise.
LEMMA WakesLemma ==
  ASSUME Inv, NEW W, NEW e, Wakes(W, e)
  PROVE  /\ Holders' = IF e = "EOK" THEN Holders \cup {t \in W : InTake(t)} ELSE Holders
         /\ \A t \in Thread :
              AbsState(t)' = IF t \in W /\ InTake(t)
                             THEN IF e = "EOK" THEN "granted" ELSE "failed"
                             ELSE AbsState(t)
         /\ HasWaiter(k', Sem) => HasWaiter(k, Sem)
<1>1. \A t \in Thread : /\ Waits(k', t, Sem) <=> Waits(k, t, Sem) /\ t \notin W
                        /\ k'.error[t] = IF t \in W THEN e ELSE k.error[t]
                        /\ InTake(t)' <=> InTake(t)
  BY InvFacts DEF Wakes, Awakened, Waits
<1>2. \A t \in W : t \in Thread /\ (InTake(t) => Waits(k, t, Sem))
  BY InvFacts DEF Wakes
<1>3. \A t \in Thread : Granted(t)' <=> IF t \in W THEN InTake(t) /\ e = "EOK" ELSE Granted(t)
  BY <1>1 DEF Granted
<1>4. Holders' = IF e = "EOK" THEN Holders \cup {t \in W : InTake(t)} ELSE Holders
  <2>1. \A t \in W : t \notin Holders
    BY <1>2 DEF Holders, Granted
  <2>2. \A t : t \in Holders' <=> t \in Thread /\ Granted(t)'
    BY DEF Holders
  <2>3. \A t : t \in Holders <=> t \in Thread /\ Granted(t)
    BY DEF Holders
  <2> QED BY <1>2, <1>3, <2>1, <2>2, <2>3
<1>5. ASSUME NEW t \in Thread
      PROVE  AbsState(t)' = IF t \in W /\ InTake(t)
                            THEN IF e = "EOK" THEN "granted" ELSE "failed"
                            ELSE AbsState(t)
  <2>1. /\ Waits(k', t, Sem) <=> Waits(k, t, Sem) /\ t \notin W
        /\ InTake(t)' <=> InTake(t)
        /\ Granted(t)' <=> IF t \in W THEN InTake(t) /\ e = "EOK" ELSE Granted(t)
    BY <1>1, <1>3
  <2> QED BY <2>1, AbsStateCases
<1>6. HasWaiter(k', Sem) => HasWaiter(k, Sem)
  <2>1. ToSet(k'.wait[Sem]) = ToSet(k.wait[Sem]) \ W
    BY InvFacts DEF Wakes, Awakened
  <2>2. /\ HasWaiter(k', Sem) <=> ToSet(k'.wait[Sem]) # {}
        /\ HasWaiter(k, Sem) <=> ToSet(k.wait[Sem]) # {}
    BY InvFacts, OrderlyFacts DEF Wakes
  <2> QED BY <2>1, <2>2
<1> QED BY <1>4, <1>5, <1>6

-----------------------------------------------------------------------------
(* The kinds of steps *)

\* Nobody who waits for a permit is woken, and no permit moves.
LEMMA StaysStep ==
  ASSUME Inv, NEW W, NEW e, Wakes(W, e), \A t \in W : ~InTake(t), Leaves',
         alive' \in BOOLEAN, value' = value, owed' = owed
  PROVE  Inv' /\ UNCHANGED Abs!vars
<1>1. Holders' = Holders
  BY WakesLemma
<1>2. \A t \in Thread : AbsState(t)' = AbsState(t)
  BY WakesLemma
<1>3. Inv'
  BY <1>1, InvStep, InvFacts, WakesLemma
<1>4. [t \in Thread |-> AbsState(t)]' = [t \in Thread |-> AbsState(t)]
  BY <1>2
<1> QED BY <1>3, <1>4 DEF Abs!vars

\* A waiter leaves without a permit.
LEMMA FailStep ==
  ASSUME Inv, NEW u \in Thread, NEW e, Wakes({u}, e), e # "EOK", Waits(k, u, Sem), Leaves',
         alive' \in BOOLEAN, value' = value, owed' = owed
  PROVE  Inv' /\ Abs!Fail(u)
<1>1. Holders' = Holders
  BY WakesLemma
<1>2. InTake(u)
  BY InvFacts
<1>3. \A t \in Thread : AbsState(t)' = IF t = u THEN "failed" ELSE AbsState(t)
  BY <1>2, WakesLemma
<1>4. Inv'
  BY <1>1, InvStep, InvFacts, WakesLemma
<1>5. AbsState(u) = "waiting"
  BY <1>2, AbsStateCases
<1>6. [t \in Thread |-> AbsState(t)]' =
        [[t \in Thread |-> AbsState(t)] EXCEPT ![u] = "failed"]
  BY <1>3
<1> QED BY <1>4, <1>5, <1>6 DEF Abs!Fail

\* A waiter gets the permit that is put back.
LEMMA GrantStep ==
  ASSUME Inv, NEW u \in Thread, Wakes({u}, "EOK"), Waits(k, u, Sem), Leaves',
         alive' \in BOOLEAN, value' = value, owed' = owed + 1
  PROVE  Inv' /\ Abs!Grant(u)
<1>1. InTake(u) /\ u \notin Holders
  BY InvFacts DEF Holders, Granted
<1>2. Holders' = Holders \cup {u}
  BY <1>1, WakesLemma
<1>3. \A t \in Thread : AbsState(t)' = IF t = u THEN "granted" ELSE AbsState(t)
  BY <1>1, WakesLemma
<1>4. Cardinality(Holders') = Cardinality(Holders) + 1
  BY <1>1, <1>2, InvFacts, FS_AddElement
<1>5. owed' = value' + Cardinality(Holders')
  BY <1>4, InvFacts
<1>6. Inv'
  BY <1>5, InvStep, InvFacts, WakesLemma
<1>7. AbsState(u) = "waiting"
  BY <1>1, AbsStateCases
<1>8. [t \in Thread |-> AbsState(t)]' =
        [[t \in Thread |-> AbsState(t)] EXCEPT ![u] = "granted"]
  BY <1>3
<1> QED BY <1>6, <1>7, <1>8 DEF Abs!Grant

\* The thread t stays inside a take or outside.
LEMMA GotoStep ==
  ASSUME Inv, NEW t \in Thread, NEW l \in PC, Goto(t, l),
         InTake(t) <=> l \in {"takeSched", "taken"}
  PROVE  /\ pc' = [pc EXCEPT ![t] = l] /\ pc' \in [Thread -> PC]
         /\ \A u \in Thread : InTake(u)' <=> InTake(u)
<1>1. pc' = [pc EXCEPT ![t] = l] /\ pc \in [Thread -> PC]
  BY InvFacts DEF Goto
<1>2. ASSUME NEW u \in Thread
      PROVE  InTake(u)' <=> InTake(u)
  BY <1>1 DEF InTake
<1> QED BY <1>1, <1>2

\* The current thread, which is at l.
LEMMA AtFacts ==
  ASSUME Inv, NEW t, NEW l, At(t, l)
  PROVE  /\ t = k.cur /\ t \in Thread /\ pc[t] = l
         /\ InTake(t) <=> l \in {"takeSched", "taken"}
         /\ l \notin {"sched", "takeSched"} => ~Suspended(k, t)
  BY InvFacts DEF At, InTake, Inv, Consistent, Leaves

\* A step that leaves the kernel alone.
LEMMA SameKernel ==
  ASSUME Inv, k' = k, pc' \in [Thread -> PC], \A t \in Thread : InTake(t)' <=> InTake(t)
  PROVE  Wakes({}, "EOK")
BY InvFacts DEF Wakes, Awakened, Waits

-----------------------------------------------------------------------------
(* The actions *)

\* rt_sem_take of a permit that is there
LEMMA TakeNowStep ==
  ASSUME Inv, NEW t \in Thread, TakeNow(t)
  PROVE  Inv' /\ Abs!TakeNow(t)
<1>1. /\ At(t, "run") /\ value > 0 /\ value' = value - 1 /\ owed' = owed - 1
      /\ k' = k /\ pc' = pc /\ alive' = alive
  BY DEF TakeNow, Uses, Calls
<1>2. t = k.cur /\ ~InTake(t)
  BY <1>1, AtFacts
<1>3. \A u \in Thread : InTake(u)' <=> InTake(u)
  BY <1>1 DEF InTake
<1>4. Wakes({}, "EOK")
  BY <1>1, <1>3, SameKernel, InvFacts
<1>5. Holders' = Holders /\ \A u \in Thread : AbsState(u)' = AbsState(u)
  BY <1>4, WakesLemma
<1>6. Leaves'
  BY <1>1 DEF Inv, Consistent, Leaves
<1>7. /\ value' \in 0..SemMax /\ owed' = value' + Cardinality(Holders')
      /\ ~HasWaiter(k', Sem)
  BY <1>1, <1>5, InvFacts
<1>8. Inv'
  BY <1>1, <1>4, <1>6, <1>7, InvStep, InvFacts
<1>9. AbsState(t) = "out"
  BY <1>2, AbsStateCases
<1>10. [u \in Thread |-> AbsState(u)]' = [u \in Thread |-> AbsState(u)]
  BY <1>5
<1> QED BY <1>1, <1>8, <1>9, <1>10 DEF Abs!TakeNow

\* rt_sem_take without a permit, up to its rt_schedule
LEMMA TakeWaitStep ==
  ASSUME Inv, NEW t \in Thread, NEW timed, TakeWait(t, timed)
  PROVE  Inv' /\ Abs!Wait(t)
<1>1. /\ At(t, "run") /\ t # Idle /\ value = 0
      /\ k' = SuspendFor([k EXCEPT !.error[t] = "EINTR"], Sem, timed)
      /\ Goto(t, "takeSched") /\ value' = value /\ owed' = owed /\ alive' = alive
  BY DEF TakeWait, Uses, Calls
<1>2. t = k.cur /\ ~InTake(t) /\ ~Suspended(k, t) /\ Orderly(k) /\ "EINTR" \in Error
  BY <1>1, AtFacts, InvFacts DEF Error
<1>3. Orderly(k') /\ k'.cur = t /\ Sleeps(k', k, t, Sem, "EINTR")
  <2>1. /\ Orderly(k) /\ t = k.cur /\ ~Suspended(k, t) /\ t # Idle
        /\ Sem \in WaitObj /\ "EINTR" \in Error
    BY <1>1, <1>2, InvFacts
  <2>2. k' = SleepFor(k, t, Sem, "EINTR", timed)
    BY <1>1 DEF SleepFor
  <2> QED BY <2>1, <2>2, BlockOrderly
<1>4. \A u \in Thread : /\ Waits(k', u, Sem) <=> Waits(k, u, Sem) \/ u = t
                        /\ Suspended(k', u) <=> Suspended(k, u) \/ u = t
                        /\ k'.error[u] = IF u = t THEN "EINTR" ELSE k.error[u]
  <2> TAKE u \in Thread
  <2>1. ToSet(k'.wait[Sem]) = ToSet(k.wait[Sem]) \cup {t}
    BY <1>3, InvFacts DEF Sleeps
  <2>2. Suspended(k', u) <=> Suspended(k, u) \/ u = t
    BY <1>3 DEF Sleeps
  <2>3. k'.error[u] = IF u = t THEN "EINTR" ELSE k.error[u]
    BY <1>3 DEF Sleeps
  <2> QED BY <2>1, <2>2, <2>3 DEF Waits
<1>5. pc' = [pc EXCEPT ![t] = "takeSched"] /\ pc' \in [Thread -> PC]
  BY <1>1, InvFacts DEF Goto, PC
<1>6. \A u \in Thread : InTake(u)' <=> InTake(u) \/ u = t
  BY <1>5, InvFacts DEF InTake
<1>7. \A u \in Thread : Granted(u)' <=> Granted(u)
  BY <1>2, <1>4, <1>6 DEF Granted
<1>8. Holders' = Holders
  BY <1>7 DEF Holders
<1>9. Consistent'
  <2>1. TypeOK'
    BY <1>1, <1>3, <1>5, OrderlyFacts DEF TypeOK, Inv, Consistent
  <2>2. Leaves'
    BY <1>3, <1>5, InvFacts DEF Leaves
  <2>3. \A u \in Thread : /\ Waits(k', u, Sem) <=> InTake(u)' /\ Suspended(k', u)
                          /\ Waits(k', u, Sem) => k'.error[u] = "EINTR"
    BY <1>4, <1>6, InvFacts
  <2> QED BY <1>3, <2>1, <2>2, <2>3 DEF Consistent
<1>10. PermitsAccounted'
  BY <1>1, <1>8, InvFacts DEF PermitsAccounted, Holders
<1>11. AbsState(t) = "out"
  BY <1>2, AbsStateCases
<1>12. \A u \in Thread : AbsState(u)' = IF u = t THEN "waiting" ELSE AbsState(u)
  <2> TAKE u \in Thread
  <2>1. /\ Waits(k', u, Sem) <=> Waits(k, u, Sem) \/ u = t
        /\ InTake(u)' <=> InTake(u) \/ u = t
        /\ Granted(u)' <=> Granted(u)
    BY <1>4, <1>6, <1>7
  <2> QED BY <2>1, AbsStateCases
<1>13. [u \in Thread |-> AbsState(u)]' =
         [[u \in Thread |-> AbsState(u)] EXCEPT ![t] = "waiting"]
  BY <1>12
<1> QED BY <1>1, <1>9, <1>10, <1>11, <1>13 DEF Inv, Abs!Wait

\* the end of rt_sem_take
LEMMA TakeReturnStep ==
  ASSUME Inv, NEW t \in Thread, TakeReturn(t)
  PROVE  Inv' /\ Abs!Return(t)
<1>1. /\ At(t, "taken") /\ Goto(t, "run")
      /\ owed' = IF k.error[t] = "EOK" THEN owed - 1 ELSE owed
      /\ k' = k /\ value' = value /\ alive' = alive
  BY DEF TakeReturn
<1>2. t = k.cur /\ InTake(t) /\ ~Suspended(k, t) /\ ~Waits(k, t, Sem)
  BY <1>1, AtFacts, InvFacts
<1>3. pc' = [pc EXCEPT ![t] = "run"] /\ pc' \in [Thread -> PC]
  BY <1>1, InvFacts DEF Goto, PC
<1>4. \A u \in Thread : InTake(u)' <=> InTake(u) /\ u # t
  BY <1>3, InvFacts DEF InTake
<1>5. \A u \in Thread : Granted(u)' <=> Granted(u) /\ u # t
  BY <1>1, <1>4 DEF Granted
<1>6. Holders' = Holders \ {t}
  BY <1>5 DEF Holders
<1>7. t \in Holders <=> k.error[t] = "EOK"
  BY <1>2 DEF Holders, Granted
<1>8. owed' = value' + Cardinality(Holders') /\ owed' \in Nat /\ owed' <= owed
  <2>1. IsFiniteSet(Holders') /\ Cardinality(Holders') \in Nat
        /\ Cardinality(Holders') = IF t \in Holders THEN Cardinality(Holders) - 1
                                                    ELSE Cardinality(Holders)
    <3>1. IsFiniteSet(Holders')
          /\ Cardinality(Holders') = IF t \in Holders THEN Cardinality(Holders) - 1
                                                      ELSE Cardinality(Holders)
      BY <1>6, InvFacts, FS_RemoveElement
    <3> QED BY <3>1, FS_CardinalityType
  <2> QED BY <2>1, <1>1, <1>7, InvFacts
<1>9. Consistent'
  <2>1. TypeOK'
    <3>1. owed \in 0..(SemMax + Cardinality(Thread)) /\ Cardinality(Thread) \in Nat
      BY FS_CardinalityType DEF Inv, Consistent, TypeOK
    <3>2. owed' \in 0..(SemMax + Cardinality(Thread))
      BY <3>1, <1>8, InvFacts
    <3> QED BY <3>2, <1>1, <1>3 DEF TypeOK, Inv, Consistent
  <2>2. Leaves'
    BY <1>1, <1>2 DEF Leaves
  <2>3. \A u \in Thread : /\ Waits(k', u, Sem) <=> InTake(u)' /\ Suspended(k', u)
                          /\ Waits(k', u, Sem) => k'.error[u] = "EINTR"
    BY <1>1, <1>2, <1>4, InvFacts
  <2> QED BY <1>1, <2>1, <2>2, <2>3, InvFacts DEF Consistent
<1>10. PermitsAccounted'
  BY <1>1, <1>8, InvFacts DEF PermitsAccounted, Holders
<1>11. AbsState(t) \in {"granted", "failed"}
  BY <1>2, AbsStateCases
<1>12. \A u \in Thread : AbsState(u)' = IF u = t THEN "out" ELSE AbsState(u)
  <2> TAKE u \in Thread
  <2>1. /\ Waits(k', u, Sem) <=> Waits(k, u, Sem)
        /\ InTake(u)' <=> InTake(u) /\ u # t
        /\ Granted(u)' <=> Granted(u) /\ u # t
    BY <1>1, <1>4, <1>5
  <2> QED BY <2>1, AbsStateCases
<1>13. [u \in Thread |-> AbsState(u)]' =
         [[u \in Thread |-> AbsState(u)] EXCEPT ![t] = "out"]
  BY <1>12
<1> QED BY <1>1, <1>9, <1>10, <1>11, <1>13 DEF Inv, Abs!Return

\* A waiter is resumed with RT_EOK, by a thread or by an interrupt handler.
LEMMA ResumeFirstWakes ==
  ASSUME Inv, HasWaiter(k, Sem)
  PROVE  LET n == ResumeFirst(k, Sem)
             u == Head(k.wait[Sem])
         IN /\ u \in Thread /\ Waits(k, u, Sem) /\ Suspended(k, u)
            /\ Orderly(n) /\ Awakened(n, k, {u}, "EOK") /\ n.cur = k.cur
<1> DEFINE n == ResumeFirst(k, Sem)
           u == Head(k.wait[Sem])
<1>1. /\ Orderly(n) /\ Awakened(n, k, {u}, "EOK") /\ n.cur = k.cur
      /\ u \in Thread /\ u \in ToSet(k.wait[Sem]) /\ Suspended(k, u)
  BY ResumeFirstOrderly, InvFacts
<1> HIDE DEF n, u
<1> QED BY <1>1 DEF Waits, n, u

\* rt_sem_release without a waiter
LEMMA PutStep ==
  ASSUME Inv, ~HasWaiter(k, Sem), value < SemMax, value' = value + 1, owed' = owed + 1,
         k' = k, pc' \in [Thread -> PC], \A t \in Thread : InTake(t)' <=> InTake(t),
         Leaves', alive' \in BOOLEAN
  PROVE  Inv' /\ Abs!Put
<1>1. Wakes({}, "EOK")
  BY SameKernel
<1>2. Holders' = Holders /\ \A u \in Thread : AbsState(u)' = AbsState(u)
  BY <1>1, WakesLemma
<1>3. /\ value' \in 0..SemMax /\ owed' = value' + Cardinality(Holders')
      /\ ~HasWaiter(k', Sem)
  BY <1>2, InvFacts
<1>4. Inv'
  BY <1>1, <1>3, InvStep
<1>5. Abs!NoneWaits
  <2>1. ASSUME NEW u \in Thread
        PROVE  AbsState(u) # "waiting"
    <3>1. ToSet(k.wait[Sem]) = {}
      BY InvFacts, OrderlyFacts
    <3>2. ~Waits(k, u, Sem)
      BY <3>1 DEF Waits
    <3> QED BY <3>2, AbsStateCases
  <2> QED BY <2>1 DEF Abs!NoneWaits
<1>6. [u \in Thread |-> AbsState(u)]' = [u \in Thread |-> AbsState(u)]
  BY <1>2
<1>7. value' <= SemMax
  BY <1>3, InvFacts
<1> QED BY <1>4, <1>5, <1>6, <1>7 DEF Abs!Put

\* rt_sem_release of a thread
LEMMA ReleaseStep ==
  ASSUME Inv, NEW t \in Thread, Release(t)
  PROVE  Inv' /\ Abs!Next
<1>1. At(t, "run") /\ ReleaseSection /\ alive' = alive
      /\ Goto(t, IF HasWaiter(k, Sem) THEN "sched" ELSE "run")
  BY DEF Release, Uses, Calls
<1>2. t = k.cur /\ ~InTake(t) /\ ~Suspended(k, t)
  BY <1>1, AtFacts
<1>3. /\ pc' \in [Thread -> PC] /\ \A u \in Thread : InTake(u)' <=> InTake(u)
  <2>1. \A l \in {"sched", "run"} : l \in PC /\ l \notin {"takeSched", "taken"}
    BY DEF PC
  <2> QED BY <1>1, <1>2, <2>1, GotoStep
<1>4. CASE HasWaiter(k, Sem)
  <2> DEFINE u == Head(k.wait[Sem])
  <2>1. k' = ResumeFirst(k, Sem) /\ owed' = owed + 1 /\ value' = value
    BY <1>1, <1>4 DEF ReleaseSection
  <2>2. /\ u \in Thread /\ Waits(k, u, Sem) /\ Suspended(k, u)
        /\ Orderly(k') /\ Awakened(k', k, {u}, "EOK") /\ k'.cur = k.cur
    BY <1>4, <2>1, ResumeFirstWakes
  <2> HIDE DEF u
  <2>3. Wakes({u}, "EOK")
    BY <1>3, <2>2 DEF Wakes
  <2>4. Leaves'
    BY <1>2, <2>2 DEF Leaves, Awakened
  <2>5. Inv' /\ Abs!Grant(u)
    BY <1>1, <2>1, <2>2, <2>3, <2>4, GrantStep, InvFacts
  <2> QED BY <2>2, <2>5 DEF Abs!Next
<1>5. CASE ~HasWaiter(k, Sem)
  <2>1. value < SemMax /\ value' = value + 1 /\ owed' = owed + 1 /\ k' = k
    BY <1>1, <1>5 DEF ReleaseSection
  <2>2. Leaves'
    BY <1>2, <2>1 DEF Leaves
  <2>3. Inv' /\ Abs!Put
    BY <1>1, <1>3, <1>5, <2>1, <2>2, PutStep, InvFacts
  <2> QED BY <2>3 DEF Abs!Next
<1> QED BY <1>4, <1>5

\* rt_sem_release of an interrupt handler
LEMMA IsrReleaseStep ==
  ASSUME Inv, IsrRelease
  PROVE  Inv' /\ Abs!Next
<1>1. pc' = pc /\ alive' = alive
  BY DEF IsrRelease
<1>2. pc' \in [Thread -> PC] /\ \A u \in Thread : InTake(u)' <=> InTake(u)
  BY <1>1, InvFacts DEF InTake
<1>3. CASE HasWaiter(k, Sem)
  <2> DEFINE u == Head(k.wait[Sem])
             n == ResumeFirst(k, Sem)
  <2>1. k' = Schedule(n) /\ owed' = owed + 1 /\ value' = value
    BY <1>3 DEF IsrRelease
  <2>2. /\ u \in Thread /\ Waits(k, u, Sem) /\ Suspended(k, u)
        /\ Orderly(n) /\ Awakened(n, k, {u}, "EOK")
    BY <1>3, ResumeFirstWakes
  <2> HIDE DEF u, n
  <2>3. Orderly(k') /\ Awakened(k', k, {u}, "EOK") /\ ~Suspended(k', k'.cur)
    BY <2>1, <2>2, WokenThenScheduled
  <2>4. Wakes({u}, "EOK")
    BY <1>2, <2>2, <2>3 DEF Wakes
  <2>5. Leaves'
    BY <2>3 DEF Leaves
  <2>6. Inv' /\ Abs!Grant(u)
    BY <1>1, <2>1, <2>2, <2>4, <2>5, GrantStep, InvFacts
  <2> QED BY <2>2, <2>6 DEF Abs!Next
<1>4. CASE ~HasWaiter(k, Sem)
  <2>1. value < SemMax /\ value' = value + 1 /\ owed' = owed + 1 /\ k' = k
    BY <1>4 DEF IsrRelease, ReleaseSection
  <2>2. Leaves'
    BY <1>1, <2>1 DEF Leaves, Inv, Consistent
  <2>3. Inv' /\ Abs!Put
    BY <1>1, <1>2, <1>4, <2>1, <2>2, PutStep, InvFacts
  <2> QED BY <2>3 DEF Abs!Next
<1> QED BY <1>3, <1>4

\* rt_sem_control(RT_IPC_CMD_RESET)
LEMMA ResetStep ==
  ASSUME Inv, NEW t \in Thread, NEW v \in 0..SemMax, Reset(t, v)
  PROVE  Inv' /\ Abs!Reset
<1> DEFINE W == ToSet(k.wait[Sem])
           H == {u \in Thread : pc[u] \in {"takeSched", "taken"} /\ k.error[u] = "EOK"}
<1>1. /\ At(t, "run") /\ k' = ResumeAll(k, Sem) /\ value' = v /\ alive' = alive
      /\ owed' = v + Cardinality(H) /\ Goto(t, "sched")
  BY DEF Reset, Uses, Calls
<1>2. t = k.cur /\ ~InTake(t) /\ ~Suspended(k, t)
  BY <1>1, AtFacts
<1>3. pc' \in [Thread -> PC] /\ \A u \in Thread : InTake(u)' <=> InTake(u)
  <2>1. "sched" \in PC /\ "sched" \notin {"takeSched", "taken"}
    BY DEF PC
  <2> QED BY <1>1, <1>2, <2>1, GotoStep
<1>4. Orderly(k') /\ Awakened(k', k, W, "ERROR") /\ k'.cur = k.cur
  BY <1>1, ResumeAllOrderly, InvFacts
<1>5. \A u \in W : u \in Thread /\ Waits(k, u, Sem) /\ InTake(u) /\ Suspended(k, u)
  BY InvFacts, OrderlyFacts DEF Waits
<1>6. Wakes(W, "ERROR")
  BY <1>3, <1>4, <1>5 DEF Wakes
<1>7. H = Holders
  <2>1. \A u \in Thread : Granted(u) <=> pc[u] \in {"takeSched", "taken"} /\ k.error[u] = "EOK"
    BY InvFacts DEF Granted, InTake
  <2> QED BY <2>1 DEF Holders
<1>8. ~HasWaiter(k', Sem)
  <2>1. ToSet(k'.wait[Sem]) = {}
    BY <1>4, InvFacts DEF Awakened
  <2> QED BY <2>1, <1>4, InvFacts, OrderlyFacts
<1> HIDE DEF W, H
<1>9. Holders' = Holders
  BY <1>6, WakesLemma
<1>10. Leaves'
  BY <1>2, <1>4 DEF Leaves, Awakened
<1>11. Inv'
  BY <1>1, <1>6, <1>7, <1>8, <1>9, <1>10, InvStep, InvFacts
<1>12. \A u \in Thread : AbsState(u)' = IF AbsState(u) = "waiting" THEN "failed" ELSE AbsState(u)
  <2> TAKE u \in Thread
  <2>1. AbsState(u)' = IF u \in W /\ InTake(u) THEN "failed" ELSE AbsState(u)
    BY <1>6, WakesLemma
  <2>2. u \in W /\ InTake(u) <=> AbsState(u) = "waiting"
    BY <1>5, AbsStateCases DEF W, Waits
  <2> QED BY <2>1, <2>2
<1>13. [u \in Thread |-> AbsState(u)]' =
         [u \in Thread |-> IF [x \in Thread |-> AbsState(x)][u] = "waiting" THEN "failed"
                           ELSE [x \in Thread |-> AbsState(x)][u]]
  BY <1>12
<1> QED BY <1>1, <1>11, <1>13 DEF Abs!Reset

\* rt_sem_init of a semaphore that was detached: nobody is inside a take.
LEMMA InitAgainStep ==
  ASSUME Inv, NEW t \in Thread, NEW v \in 0..SemMax, InitAgain(t, v)
  PROVE  Inv' /\ Abs!Reset
<1>1. /\ \A u \in Thread : pc[u] \in {"run", "sched"}
      /\ alive' = TRUE /\ value' = v /\ owed' = v /\ k' = k /\ pc' = pc
  BY DEF InitAgain
<1>2. \A u \in Thread : ~InTake(u) /\ (InTake(u)' <=> InTake(u))
  BY <1>1 DEF InTake
<1>3. Wakes({}, "EOK")
  BY <1>1, <1>2, SameKernel, InvFacts
<1>4. Holders = {} /\ Holders' = {}
  BY <1>2, <1>3, WakesLemma DEF Holders, Granted
<1>5. owed' = value' + Cardinality(Holders')
  <2>1. Cardinality({}) = 0 /\ v \in Nat
    BY FS_EmptySet, InvFacts
  <2> QED BY <1>1, <1>4, <2>1
<1>6. ~HasWaiter(k', Sem)
  <2>1. \A u \in Thread : ~Waits(k, u, Sem)
    BY <1>2, InvFacts
  <2>2. ToSet(k.wait[Sem]) = {}
    BY <2>1, InvFacts, OrderlyFacts DEF Waits
  <2> QED BY <1>1, <2>2, InvFacts, OrderlyFacts
<1>7. Leaves'
  BY <1>1 DEF Leaves, Inv, Consistent
<1>8. Inv'
  BY <1>1, <1>3, <1>5, <1>6, <1>7, InvStep
<1>9. \A u \in Thread : AbsState(u)' = AbsState(u) /\ AbsState(u) # "waiting"
  BY <1>2, <1>3, WakesLemma, AbsStateCases
<1>10. [u \in Thread |-> AbsState(u)]' =
         [u \in Thread |-> IF [x \in Thread |-> AbsState(x)][u] = "waiting" THEN "failed"
                           ELSE [x \in Thread |-> AbsState(x)][u]]
  BY <1>9
<1> QED BY <1>1, <1>8, <1>10 DEF Abs!Reset

\* The steps of rt_sem_detach that look at the list or finish
LEMMA DetachLookStep ==
  ASSUME Inv, NEW t \in Thread, Detach(t) \/ DetachLook(t) \/ DetachObject(t)
  PROVE  Inv' /\ UNCHANGED Abs!vars
<1>1. /\ \E l \in {"run", "detach", "detachObject"} : At(t, l)
      /\ \E l \in {"run", "detach", "detachOne", "detachObject"} : Goto(t, l)
      /\ k' = k /\ value' = value /\ owed' = owed /\ alive' \in BOOLEAN
  BY InvFacts DEF Detach, DetachLook, DetachObject, Uses, Calls
<1>2. t = k.cur /\ ~InTake(t) /\ ~Suspended(k, t)
  BY <1>1, AtFacts
<1>3. pc' \in [Thread -> PC] /\ \A u \in Thread : InTake(u)' <=> InTake(u)
  <2>1. \A l \in {"run", "detach", "detachOne", "detachObject"} :
           l \in PC /\ l \notin {"takeSched", "taken"}
    BY DEF PC
  <2> QED BY <1>1, <1>2, <2>1, GotoStep
<1>4. Wakes({}, "EOK")
  BY <1>1, <1>3, SameKernel
<1>5. Leaves'
  BY <1>1, <1>2 DEF Leaves
<1> QED BY <1>1, <1>4, <1>5, StaysStep

\* one turn of _ipc_list_resume_all in rt_sem_detach
LEMMA DetachOneStep ==
  ASSUME Inv, NEW t \in Thread, DetachOne(t)
  PROVE  Inv' /\ (Abs!Next \/ UNCHANGED Abs!vars)
<1>1. /\ At(t, "detachOne") /\ value' = value /\ owed' = owed /\ alive' = alive
  BY DEF DetachOne
<1>2. t = k.cur /\ ~InTake(t) /\ ~Suspended(k, t)
  BY <1>1, AtFacts
<1>3. pc' \in [Thread -> PC] /\ \A u \in Thread : InTake(u)' <=> InTake(u)
  <2>1. \A l \in {"detach", "fault"} : l \in PC /\ l \notin {"takeSched", "taken"}
    BY DEF PC
  <2>2. \E l \in {"detach", "fault"} : Goto(t, l)
    BY DEF DetachOne
  <2> QED BY <1>2, <2>1, <2>2, GotoStep
<1>4. CASE HasWaiter(k, Sem)
  <2> DEFINE u == Head(k.wait[Sem])
  <2>1. k' = ResumeFailed(k, u)
    BY <1>4 DEF DetachOne
  <2>2. u \in Thread /\ Waits(k, u, Sem) /\ Suspended(k, u)
    BY <1>4, InvFacts, OrderlyFacts DEF Waits, Suspended
  <2> HIDE DEF u
  <2>3. Orderly(k') /\ Awakened(k', k, {u}, "ERROR") /\ k'.cur = k.cur
    BY <2>1, <2>2, ResumeFailedOrderly, InvFacts
  <2>4. Wakes({u}, "ERROR")
    BY <1>3, <2>2, <2>3 DEF Wakes
  <2>5. Leaves'
    BY <1>2, <2>3 DEF Leaves, Awakened
  <2>6. Inv' /\ Abs!Fail(u)
    BY <1>1, <2>2, <2>4, <2>5, FailStep, InvFacts
  <2> QED BY <2>2, <2>6 DEF Abs!Next
<1>5. CASE ~HasWaiter(k, Sem)
  <2>1. k' = k
    BY <1>5 DEF DetachOne
  <2>2. Wakes({}, "EOK")
    BY <1>3, <2>1, SameKernel
  <2>3. Leaves'
    BY <1>2, <2>1 DEF Leaves
  <2> QED BY <1>1, <2>2, <2>3, StaysStep, InvFacts
<1> QED BY <1>4, <1>5

\* rt_schedule at the end of a function
LEMMA DoScheduleStep ==
  ASSUME Inv, NEW t \in Thread, DoSchedule(t)
  PROVE  Inv' /\ UNCHANGED Abs!vars
<1>1. /\ k' = Schedule(k) /\ value' = value /\ owed' = owed /\ alive' = alive
      /\ \/ At(t, "sched") /\ Goto(t, "run")
         \/ At(t, "takeSched") /\ Goto(t, "taken")
  BY DEF DoSchedule
<1>2. pc' \in [Thread -> PC] /\ \A u \in Thread : InTake(u)' <=> InTake(u)
  <2>1. "run" \in PC /\ "taken" \in PC
    BY DEF PC
  <2>2. CASE At(t, "sched") /\ Goto(t, "run")
    BY <2>1, <2>2, AtFacts, GotoStep
  <2>3. CASE At(t, "takeSched") /\ Goto(t, "taken")
    BY <2>1, <2>3, AtFacts, GotoStep
  <2> QED BY <1>1, <2>2, <2>3
<1>3. Orderly(k') /\ Keeps(k', k) /\ ~Suspended(k', k'.cur)
  BY <1>1, ScheduleOrderly, InvFacts
<1>4. Wakes({}, "EOK")
  BY <1>2, <1>3 DEF Wakes, Keeps
<1>5. Leaves'
  BY <1>3 DEF Leaves
<1> QED BY <1>1, <1>4, <1>5, StaysStep, InvFacts

\* A step of the kernel that no function of the semaphore takes part in.
LEMMA KernelStep ==
  ASSUME Inv, NEW W, NEW e, Orderly(k'), Awakened(k', k, W, e),
         \A u \in W : u \in Thread /\ Suspended(k, u),
         Suspended(k', k'.cur) => k'.cur = k.cur,
         UNCHANGED <<pc, value, alive, owed>>
  PROVE  Wakes(W, e) /\ Leaves'
<1>1. Wakes(W, e)
  BY InvFacts DEF Wakes, InTake
<1>2. k'.cur \in Thread
  BY OrderlyFacts
<1>3. Leaves'
  BY <1>2 DEF Leaves, Awakened, Inv, Consistent
<1> QED BY <1>1, <1>3

\* rt_thread_suspend of a thread outside a take
LEMMA PauseStep ==
  ASSUME Inv, NEW t \in Thread, Pause(t)
  PROVE  Inv' /\ UNCHANGED Abs!vars
<1>1. /\ At(t, "run") /\ t # Idle /\ k' = SuspendSelf(k) /\ Goto(t, "sched")
      /\ value' = value /\ owed' = owed /\ alive' = alive
  BY DEF Pause, Calls
<1>2. t = k.cur /\ ~InTake(t) /\ ~Suspended(k, t)
  BY <1>1, AtFacts
<1>3. pc' = [pc EXCEPT ![t] = "sched"] /\ pc' \in [Thread -> PC]
      /\ \A u \in Thread : InTake(u)' <=> InTake(u)
  <2>1. "sched" \in PC /\ "sched" \notin {"takeSched", "taken"}
    BY DEF PC
  <2> QED BY <1>1, <1>2, <2>1, GotoStep
<1>4. Orderly(k') /\ Blocked(k', k, t, {}) /\ k'.cur = k.cur
  <2>1. Orderly(k) /\ ~Suspended(k, k.cur) /\ k.cur # Idle
    BY <1>1, <1>2, InvFacts
  <2>2. LET n == SuspendSelf(k)
        IN /\ Orderly(n) /\ Blocked(n, k, k.cur, {}) /\ n.cur = k.cur
           /\ n.timer \subseteq k.timer
    BY <2>1, SuspendSelfOrderly
  <2> QED BY <1>1, <1>2, <2>2
<1>5. \A u \in Thread : /\ Waits(k', u, Sem) <=> Waits(k, u, Sem)
                        /\ Suspended(k', u) <=> Suspended(k, u) \/ u = t
                        /\ k'.error[u] = k.error[u]
  <2> TAKE u \in Thread
  <2>1. ToSet(k'.wait[Sem]) = ToSet(k.wait[Sem])
    BY <1>4, InvFacts DEF Blocked
  <2>2. (Suspended(k', u) <=> Suspended(k, u) \/ u = t) /\ k'.error[u] = k.error[u]
    BY <1>4 DEF Blocked
  <2> QED BY <2>1, <2>2 DEF Waits
<1>6. \A u \in Thread : (Granted(u)' <=> Granted(u)) /\ AbsState(u)' = AbsState(u)
  <2> TAKE u \in Thread
  <2>1. Granted(u)' <=> Granted(u)
    BY <1>3, <1>5 DEF Granted
  <2> QED BY <2>1, <1>3, <1>5, AbsStateCases
<1>7. Holders' = Holders
  BY <1>6 DEF Holders
<1>8. Consistent'
  <2>1. TypeOK'
    BY <1>1, <1>3, <1>4, OrderlyFacts DEF TypeOK, Inv, Consistent
  <2>2. Leaves'
    BY <1>2, <1>3, <1>4, InvFacts DEF Leaves
  <2>3. \A u \in Thread : /\ Waits(k', u, Sem) <=> InTake(u)' /\ Suspended(k', u)
                          /\ Waits(k', u, Sem) => k'.error[u] = "EINTR"
    BY <1>2, <1>3, <1>5, InvFacts
  <2> QED BY <1>4, <2>1, <2>2, <2>3 DEF Consistent
<1>9. PermitsAccounted'
  <2>1. HasWaiter(k', Sem) <=> HasWaiter(k, Sem)
    <3>1. ToSet(k'.wait[Sem]) = ToSet(k.wait[Sem])
      BY <1>4, InvFacts DEF Blocked
    <3>2. InOrder(k, {}) /\ Sem \in WaitObj
      BY InvFacts
    <3>3. HasWaiter(k, Sem) <=> ToSet(k.wait[Sem]) # {}
      BY <3>2, OrderlyFacts
    <3>4. HasWaiter(k', Sem) <=> ToSet(k'.wait[Sem]) # {}
      BY <1>4, <3>2, OrderlyFacts
    <3> QED BY <3>1, <3>3, <3>4
  <2> QED BY <1>1, <1>7, <2>1, InvFacts DEF PermitsAccounted, Holders
<1>10. [u \in Thread |-> AbsState(u)]' = [u \in Thread |-> AbsState(u)]
  BY <1>6
<1> QED BY <1>1, <1>8, <1>9, <1>10 DEF Inv, Abs!vars

\* RT_THREAD_CTRL_CHANGE_PRIORITY and the tick
LEMMA KernelOnlyStep ==
  ASSUME Inv,
         \/ \E t \in Thread, u \in App, p \in Prio : ChangePrio(t, u, p)
         \/ Tick
  PROVE  Inv' /\ UNCHANGED Abs!vars
<1>1. CASE \E t \in Thread, u \in App, p \in Prio : ChangePrio(t, u, p)
  <2>1. PICK t \in Thread, u \in App, p \in Prio : ChangePrio(t, u, p)
    BY <1>1
  <2>2. k' = ChangePriority(k, u, p) /\ UNCHANGED <<pc, value, alive, owed>> /\ u \in Thread
    BY <2>1 DEF ChangePrio, App
  <2>3. Orderly(k') /\ Keeps(k', k) /\ k'.cur = k.cur
    BY <2>2, ChangePriorityOrderly, InvFacts
  <2>4. Wakes({}, "EOK") /\ Leaves'
    BY <2>2, <2>3, KernelStep DEF Keeps
  <2> QED BY <2>2, <2>4, StaysStep, InvFacts
<1>2. CASE Tick
  <2>1. k' = TickSlice(k) /\ UNCHANGED <<pc, value, alive, owed>>
    BY <1>2 DEF Tick
  <2>2. Orderly(k') /\ Keeps(k', k) /\ (k'.cur = k.cur \/ ~Suspended(k', k'.cur))
    BY <2>1, TickOrderly, InvFacts
  <2>3. Wakes({}, "EOK") /\ Leaves'
    BY <2>1, <2>2, KernelStep DEF Keeps
  <2> QED BY <2>1, <2>3, StaysStep, InvFacts
<1> QED BY <1>1, <1>2

\* rt_thread_resume from an interrupt handler, also of a waiter
LEMMA IsrResumeStep ==
  ASSUME Inv, NEW u \in Thread, IsrResume(u)
  PROVE  Inv' /\ (Abs!Next \/ UNCHANGED Abs!vars)
<1> DEFINE n == Resume(k, u)
           e == k.error[u]
<1>1. /\ Suspended(k, u) /\ (k' = n \/ k' = Schedule(n))
      /\ UNCHANGED <<pc, value, alive, owed>>
  BY DEF IsrResume
<1>2. Orderly(n) /\ Awakened(n, k, {u}, e) /\ n.cur = k.cur
  BY <1>1, ResumeOrderly, InvFacts
<1> HIDE DEF n
<1>3. /\ Orderly(k') /\ Awakened(k', k, {u}, e)
      /\ Suspended(k', k'.cur) => k'.cur = k.cur
  BY <1>1, <1>2, WokenThenScheduled
<1>4. Wakes({u}, e) /\ Leaves'
  BY <1>1, <1>3, KernelStep
<1>5. CASE Waits(k, u, Sem)
  <2>1. e = "EINTR"
    BY <1>5, InvFacts
  <2>2. Inv' /\ Abs!Fail(u)
    BY <1>1, <1>4, <1>5, <2>1, FailStep, InvFacts
  <2> QED BY <2>2 DEF Abs!Next
<1>6. CASE ~Waits(k, u, Sem)
  <2>1. ~InTake(u)
    BY <1>1, <1>6, InvFacts
  <2> QED BY <1>1, <1>4, <2>1, StaysStep, InvFacts
<1> QED BY <1>5, <1>6

\* the timeout of a thread
LEMMA TimerExpireStep ==
  ASSUME Inv, NEW u \in Thread, TimerExpire(u)
  PROVE  Inv' /\ (Abs!Next \/ UNCHANGED Abs!vars)
<1>1. /\ u \in k.timer /\ k' = ThreadTimeout(k, u)
      /\ UNCHANGED <<pc, value, alive, owed>>
  BY DEF TimerExpire
<1>2. Suspended(k, u)
  BY <1>1, InvFacts DEF InOrder
<1>3. Orderly(k') /\ Awakened(k', k, {u}, "ETIMEOUT") /\ ~Suspended(k', k'.cur)
  BY <1>1, <1>2, TimeoutOrderly, InvFacts
<1>4. Wakes({u}, "ETIMEOUT") /\ Leaves'
  BY <1>1, <1>2, <1>3, KernelStep
<1>5. CASE Waits(k, u, Sem)
  <2>1. Inv' /\ Abs!Fail(u)
    BY <1>1, <1>4, <1>5, FailStep, InvFacts
  <2> QED BY <2>1 DEF Abs!Next
<1>6. CASE ~Waits(k, u, Sem)
  <2>1. ~InTake(u)
    BY <1>2, <1>6, InvFacts
  <2> QED BY <1>1, <1>4, <2>1, StaysStep, InvFacts
<1> QED BY <1>5, <1>6

-----------------------------------------------------------------------------
(* The specification *)

LEMMA InitInv ==
  ASSUME Init
  PROVE  Inv /\ Abs!Init
<1>1. /\ k = StartedKernel /\ pc = [t \in Thread |-> "run"] /\ value \in 0..SemMax
      /\ alive = TRUE /\ owed = value
  BY DEF Init
<1>2. /\ Orderly(k) /\ Sem \in WaitObj
      /\ k.cur \in Thread /\ k \in Kernel
      /\ \A t \in Thread : ~Suspended(k, t) /\ k.error[t] = "EOK"
      /\ ToSet(k.wait[Sem]) = {} /\ ~HasWaiter(k, Sem)
  BY <1>1, StartedLemma, SemaphoreAssumption
<1>3. /\ ~HasWaiter(k, Sem) /\ k.cur \in Thread /\ k \in Kernel
      /\ \A t \in Thread : ~Waits(k, t, Sem)
  BY <1>2 DEF Waits
<1>4. pc \in [Thread -> PC] /\ \A t \in Thread : ~InTake(t)
  BY <1>1 DEF PC, InTake
<1>5. {t \in Thread : Granted(t)} = {} /\ Cardinality({}) = 0
  BY <1>4, FS_EmptySet DEF Granted
<1>6. PermitsAccounted
  <2>1. value \in Nat
    BY <1>1, SemaphoreAssumption
  <2> QED BY <1>1, <1>3, <1>5, <2>1 DEF PermitsAccounted
<1>7. TypeOK
  <2>1. Cardinality(Thread) \in Nat
    BY FS_CardinalityType
  <2>2. owed \in 0..(SemMax + Cardinality(Thread))
    BY <1>1, <2>1, SemaphoreAssumption
  <2> QED BY <1>1, <1>3, <1>4, <2>2 DEF TypeOK
<1>8. Consistent
  BY <1>2, <1>3, <1>4, <1>7 DEF Consistent, Leaves
<1>9. \A t \in Thread : AbsState(t) = "out"
  BY <1>4, AbsStateCases
<1>10. Abs!Init
  BY <1>1, <1>9 DEF Abs!Init
<1> QED BY <1>6, <1>8, <1>10 DEF Inv

LEMMA NextStep ==
  ASSUME Inv, [Next]_vars
  PROVE  Inv' /\ [Abs!Next]_(Abs!vars)
<1>1. CASE UNCHANGED vars
  <2>1. \A t \in Thread : AbsState(t)' = AbsState(t)
    <3>1. k' = k /\ pc' = pc
      BY <1>1 DEF vars
    <3>2. \A t \in Thread : (Granted(t)' <=> Granted(t)) /\ (InTake(t)' <=> InTake(t))
                            /\ (Waits(k', t, Sem) <=> Waits(k, t, Sem))
      BY <3>1 DEF Granted, InTake, Waits
    <3> QED BY <3>2, AbsStateCases
  <2>2. [t \in Thread |-> AbsState(t)]' = [t \in Thread |-> AbsState(t)]
    BY <2>1
  <2>3. Inv'
    BY <1>1 DEF vars, Inv, Consistent, TypeOK, Leaves, PermitsAccounted, Granted, InTake,
                Waits, HasWaiter
  <2> QED BY <1>1, <2>2, <2>3 DEF vars, Abs!vars
<1>2. ASSUME NEW t \in Thread, ThreadStep(t)
      PROVE  Inv' /\ [Abs!Next]_(Abs!vars)
  <2>1. CASE TakeNow(t)
    BY <2>1, TakeNowStep DEF Abs!Next
  <2>2. CASE TakeReturn(t)
    BY <2>2, TakeReturnStep DEF Abs!Next
  <2>3. CASE Release(t)
    BY <2>3, ReleaseStep
  <2>4. CASE Pause(t)
    BY <2>4, PauseStep
  <2>5. CASE DoSchedule(t)
    BY <2>5, DoScheduleStep
  <2>6. CASE Detach(t) \/ DetachLook(t) \/ DetachObject(t)
    BY <2>6, DetachLookStep
  <2>7. CASE DetachOne(t)
    BY <2>7, DetachOneStep
  <2>8. CASE \E timed \in Timed : TakeWait(t, timed)
    BY <2>8, TakeWaitStep DEF Abs!Next
  <2>9. CASE \E u \in App, p \in Prio : ChangePrio(t, u, p)
    BY <2>9, KernelOnlyStep
  <2>10. CASE \E v \in 0..SemMax : Reset(t, v) \/ InitAgain(t, v)
    BY <2>10, ResetStep, InitAgainStep DEF Abs!Next
  <2> QED BY <1>2, <2>1, <2>2, <2>3, <2>4, <2>5, <2>6, <2>7, <2>8, <2>9, <2>10 DEF ThreadStep
<1>3. CASE IsrRelease
  BY <1>3, IsrReleaseStep
<1>4. CASE Tick
  BY <1>4, KernelOnlyStep
<1>5. CASE \E u \in Thread : TimerExpire(u)
  BY <1>5, TimerExpireStep
<1>6. CASE \E u \in Thread : IsrResume(u)
  BY <1>6, IsrResumeStep
<1> QED BY <1>1, <1>2, <1>3, <1>4, <1>5, <1>6 DEF Next

\* The kernel's lists stay in order, and a thread queues at the semaphore exactly
\* while it is suspended inside a take (rt_sem_take, _thread_timeout,
\* rt_sem_release, rt_sem_detach and the reset each take it out in their own way).
THEOREM SemaphoreConsistent == Spec => []Consistent
<1>1. Init => Inv
  BY InitInv
<1>2. Inv /\ [Next]_vars => Inv'
  BY NextStep
<1>3. Inv => Consistent
  BY DEF Inv
<1> QED BY <1>1, <1>2, <1>3, PTL DEF Spec

\* No permit is lost or handed out twice, and none lies unused while a thread
\* waits, whatever releases, timeouts, resets and detaches come together.
THEOREM SemaphorePermits == Spec => []PermitsAccounted
<1>1. Init => Inv
  BY InitInv
<1>2. Inv /\ [Next]_vars => Inv'
  BY NextStep
<1>3. Inv => PermitsAccounted
  BY DEF Inv
<1> QED BY <1>1, <1>2, <1>3, PTL DEF Spec

\* ipc.c's semaphore implements the abstract one: a permit that is put back goes
\* to a thread that waits, and every wait ends with one permit or with a failure.
THEOREM SemaphoreImplements == Spec => Implements
<1>1. Init => Inv /\ Abs!Init
  BY InitInv
<1>2. Inv /\ [Next]_vars => Inv' /\ [Abs!Next]_(Abs!vars)
  BY NextStep
<1> QED BY <1>1, <1>2, PTL DEF Spec, Implements, Abs!Spec
=============================================================================
