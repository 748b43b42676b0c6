---------------------------- MODULE EventProofs ------------------------------
(***************************************************************************)
(* The event for any number of threads and bits: its waiters are those the *)
(* bits do not satisfy, a woken thread finds what it asked for, and a bit  *)
(* that goes away has been received.                                       *)
(***************************************************************************)
EXTENDS Event, KernelProofs

USE IpcAssumption, ThreadAssumption DEF Orderly

\* What a woken thread finds depends on its having waited unsatisfied, and that on
\* the list.
Inv == Consistent /\ NoSatisfiedWaiter /\ ReceivesWhatItAskedFor

\* Nobody starts to wait; the threads in W stop being suspended, with the error e
\* where they are inside a receive, and a thread that ends a receive runs.
Moves(W, e) ==
  /\ Orderly(k') /\ Leaves'
  /\ pc' \in [Thread -> PC] /\ alive' \in BOOLEAN
  /\ \A t \in W : t \in Thread /\ Suspended(k, t)
  /\ \A t \in Thread :
       /\ Waits(k', t, Ev) <=> Waits(k, t, Ev) /\ t \notin W
       /\ Suspended(k', t) <=> Suspended(k, t) /\ t \notin W
       /\ InRecv(t) => k'.error[t] = IF t \in W THEN e ELSE k.error[t]
       /\ InRecv(t)' => InRecv(t)
       /\ InRecv(t) /\ Suspended(k', t) => InRecv(t)'

\* What thread t asked for and what it has got so far stay as they are.
Untouched(t) == want'[t] = want[t] /\ how'[t] = how[t] /\ asked'[t] = asked[t]

\* Thread t finds all or some of the bits it asked for.
Finds(t) == /\ want[t] # {} /\ want[t] \subseteq asked[t]
            /\ how[t].all => want[t] = asked[t]

-----------------------------------------------------------------------------
(* What holds in every state *)

\* The event is the only object, and who waits for it waits inside a receive.
LEMMA InvFacts ==
  ASSUME Inv
  PROVE  /\ Orderly(k) /\ k.cur \in Thread /\ Ev \in WaitObj
         /\ k.error \in [Thread -> Error] /\ ToSet(k.wait[Ev]) \subseteq Thread
         /\ pc \in [Thread -> PC] /\ set \in SUBSET Bits /\ alive \in BOOLEAN
         /\ want \in [Thread -> SUBSET Bits] /\ how \in [Thread -> Option]
         /\ asked \in [Thread -> SUBSET Bits]
         /\ Leaves /\ ~InRecv(Idle)
<1>1. Orderly(k) /\ Leaves /\ ~InRecv(Idle) /\ TypeOK
  BY DEF Inv, Consistent
<1>2. Ev \in WaitObj
  BY EventAssumption
<1>3. k.cur \in Thread /\ k.error \in [Thread -> Error] /\ ToSet(k.wait[Ev]) \subseteq Thread
  BY <1>1, <1>2, OrderlyFacts
<1> QED BY <1>1, <1>2, <1>3 DEF TypeOK

LEMMA ThreadFacts ==
  ASSUME Inv, NEW t \in Thread
  PROVE  /\ Waits(k, t, Ev) <=> InRecv(t) /\ Suspended(k, t)
         /\ Waits(k, t, Ev) => want[t] = asked[t] /\ want[t] # {}
         /\ Waits(k, t, Ev) => ~Satisfied(want[t], how[t], set)
         /\ InRecv(t) /\ ~Suspended(k, t) /\ k.error[t] = "EOK" => Finds(t)
<1>1. /\ Waits(k, t, Ev) <=> InRecv(t) /\ Suspended(k, t)
      /\ Waits(k, t, Ev) => want[t] = asked[t] /\ want[t] # {}
  BY DEF Inv, Consistent
<1>2. Waits(k, t, Ev) => ~Satisfied(want[t], how[t], set)
  BY DEF Inv, NoSatisfiedWaiter, Waits
<1>3. InRecv(t) /\ ~Suspended(k, t) /\ k.error[t] = "EOK" => Finds(t)
  BY DEF Inv, ReceivesWhatItAskedFor, Finds
<1> QED BY <1>1, <1>2, <1>3

\* Fewer bits satisfy no more threads.
LEMMA SatisfiedLess ==
  ASSUME NEW bits, NEW opt, NEW flags, NEW less, less \subseteq flags,
         Satisfied(bits, opt, less)
  PROVE  Satisfied(bits, opt, flags)
BY DEF Satisfied

\* The invariant from what each thread has to keep.
LEMMA InvByThread ==
  ASSUME Orderly(k'), Leaves', ~InRecv(Idle)', pc' \in [Thread -> PC], alive' \in BOOLEAN,
         set' \in SUBSET Bits, want' \in [Thread -> SUBSET Bits], how' \in [Thread -> Option],
         asked' \in [Thread -> SUBSET Bits], Ev \in WaitObj,
         \A t \in Thread :
           /\ Waits(k', t, Ev) <=> InRecv(t)' /\ Suspended(k', t)
           /\ Waits(k', t, Ev) => /\ want'[t] = asked'[t] /\ want'[t] # {}
                                  /\ ~Satisfied(want'[t], how'[t], set')
           /\ InRecv(t)' /\ ~Suspended(k', t) /\ k'.error[t] = "EOK" => Finds(t)'
  PROVE  Inv'
<1>1. k' \in Kernel /\ ToSet(k'.wait[Ev]) \subseteq Thread
  BY OrderlyFacts
<1>2. TypeOK'
  BY <1>1 DEF TypeOK
<1>3. Consistent'
  BY <1>2 DEF Consistent
<1>4. NoSatisfiedWaiter'
  BY <1>1 DEF NoSatisfiedWaiter, Waits
<1>5. ReceivesWhatItAskedFor'
  BY DEF ReceivesWhatItAskedFor, Finds
<1> QED BY <1>3, <1>4, <1>5 DEF Inv

\* What a step must do so that the invariant holds again.
LEMMA InvStep ==
  ASSUME Inv, NEW W, NEW e, Moves(W, e),
         set' \in SUBSET Bits, want' \in [Thread -> SUBSET Bits],
         how' \in [Thread -> Option], asked' \in [Thread -> SUBSET Bits],
         \A t \in Thread : InRecv(t)' /\ t \notin W => Untouched(t),
         \A t \in Thread : Waits(k, t, Ev) /\ t \notin W => ~Satisfied(want[t], how[t], set'),
         \A t \in W : InRecv(t) /\ e = "EOK" => Finds(t)'
  PROVE  Inv'
<1>1. ~InRecv(Idle)'
  BY InvFacts DEF Moves
<1>2. ASSUME NEW t \in Thread
      PROVE  /\ Waits(k', t, Ev) <=> InRecv(t)' /\ Suspended(k', t)
             /\ Waits(k', t, Ev) => /\ want'[t] = asked'[t] /\ want'[t] # {}
                                    /\ ~Satisfied(want'[t], how'[t], set')
             /\ InRecv(t)' /\ ~Suspended(k', t) /\ k'.error[t] = "EOK" => Finds(t)'
  <2>1. /\ Waits(k', t, Ev) <=> Waits(k, t, Ev) /\ t \notin W
        /\ Suspended(k', t) <=> Suspended(k, t) /\ t \notin W
        /\ InRecv(t) => k'.error[t] = IF t \in W THEN e ELSE k.error[t]
        /\ InRecv(t)' => InRecv(t)
        /\ InRecv(t) /\ Suspended(k', t) => InRecv(t)'
    BY DEF Moves
  <2>2. Waits(k', t, Ev) <=> InRecv(t)' /\ Suspended(k', t)
    BY <2>1, ThreadFacts
  <2>3. Waits(k', t, Ev) => /\ want'[t] = asked'[t] /\ want'[t] # {}
                            /\ ~Satisfied(want'[t], how'[t], set')
    BY <2>1, <2>2, ThreadFacts DEF Untouched
  <2>4. InRecv(t)' /\ ~Suspended(k', t) /\ k'.error[t] = "EOK" => Finds(t)'
    <3>1. CASE t \in W
      BY <2>1, <3>1
    <3>2. CASE t \notin W
      <4>1. InRecv(t)' => Untouched(t)
        BY <3>2
      <4>2. Untouched(t) /\ Finds(t) => Finds(t)'
        BY DEF Untouched, Finds
      <4>3. InRecv(t) /\ ~Suspended(k, t) /\ k.error[t] = "EOK" => Finds(t)
        BY ThreadFacts
      <4> QED BY <2>1, <3>2, <4>1, <4>2, <4>3
    <3> QED BY <3>1, <3>2
  <2> QED BY <2>2, <2>3, <2>4
<1> QED BY <1>1, <1>2, InvByThread, InvFacts DEF Moves

\* A step that wakes nobody with RT_EOK and takes bits away at most.
LEMMA StayStep ==
  ASSUME Inv, NEW W, NEW e, Moves(W, e), e # "EOK" \/ W = {}, set' \subseteq set,
         want' \in [Thread -> SUBSET Bits], how' \in [Thread -> Option],
         asked' \in [Thread -> SUBSET Bits],
         \A t \in Thread : InRecv(t)' => Untouched(t)
  PROVE  Inv'
<1>1. \A t \in Thread : Waits(k, t, Ev) /\ t \notin W => ~Satisfied(want[t], how[t], set')
  BY ThreadFacts, SatisfiedLess
<1>2. set' \in SUBSET Bits
  BY InvFacts
<1>3. \A t \in W : InRecv(t) /\ e = "EOK" => Finds(t)'
  OBVIOUS
<1> QED BY <1>1, <1>2, <1>3, InvStep

-----------------------------------------------------------------------------
(* The kinds of steps *)

\* Where thread t goes next.
LEMMA GotoStep ==
  ASSUME Inv, NEW t \in Thread, NEW l \in PC, Goto(t, l)
  PROVE  /\ pc' = [pc EXCEPT ![t] = l] /\ pc' \in [Thread -> PC]
         /\ \A u \in Thread : u # t => (InRecv(u)' <=> InRecv(u))
         /\ InRecv(t)' <=> l \in {"recvSched", "received"}
BY InvFacts DEF Goto, InRecv

\* The current thread, which is at l.
LEMMA AtFacts ==
  ASSUME Inv, NEW t, NEW l, At(t, l)
  PROVE  /\ t = k.cur /\ t \in Thread /\ pc[t] = l
         /\ InRecv(t) <=> l \in {"recvSched", "received"}
         /\ l # "recvSched" => ~Suspended(k, t)
BY InvFacts DEF At, InRecv, Leaves

\* A step of thread t, which neither enters a receive nor leaves one, and wakes W.
LEMMA ThreadMoves ==
  ASSUME Inv, NEW t \in Thread, NEW l \in PC, Goto(t, l), t = k.cur,
         InRecv(t) <=> l \in {"recvSched", "received"},
         NEW W, NEW e, Orderly(k'), Awakened(k', k, W, e), Leaves',
         \A u \in W : u \in Thread /\ Suspended(k, u), alive' \in BOOLEAN
  PROVE  Moves(W, e)
<1>1. pc' \in [Thread -> PC] /\ \A u \in Thread : InRecv(u)' <=> InRecv(u)
  BY GotoStep
<1>2. \A u \in Thread : Waits(k', u, Ev) <=> Waits(k, u, Ev) /\ u \notin W
  BY InvFacts DEF Awakened, Waits
<1>3. \A u \in Thread : /\ Suspended(k', u) <=> Suspended(k, u) /\ u \notin W
                        /\ k'.error[u] = IF u \in W THEN e ELSE k.error[u]
  BY DEF Awakened
<1> QED BY <1>1, <1>2, <1>3 DEF Moves

\* The same when nothing happens to the kernel.
LEMMA SameKernel ==
  ASSUME Inv, NEW t \in Thread, NEW l \in PC, Goto(t, l), t = k.cur, ~Suspended(k, t),
         InRecv(t) <=> l \in {"recvSched", "received"}, k' = k, alive' \in BOOLEAN
  PROVE  Moves({}, "EOK")
<1>1. Awakened(k', k, {}, "EOK") /\ Orderly(k')
  BY InvFacts DEF Awakened
<1>2. Leaves'
  BY DEF Leaves
<1> QED BY <1>1, <1>2, ThreadMoves

\* A step of the kernel that no function of the event takes part in.
LEMMA KernelMoves ==
  ASSUME Inv, NEW W, NEW e, Orderly(k'), Awakened(k', k, W, e),
         \A u \in W : u \in Thread /\ Suspended(k, u),
         Suspended(k', k'.cur) => k'.cur = k.cur, UNCHANGED <<pc, alive>>
  PROVE  Moves(W, e)
<1>1. pc' \in [Thread -> PC] /\ \A u \in Thread : InRecv(u)' <=> InRecv(u)
  BY InvFacts DEF InRecv
<1>2. \A u \in Thread : Waits(k', u, Ev) <=> Waits(k, u, Ev) /\ u \notin W
  BY InvFacts DEF Awakened, Waits
<1>3. \A u \in Thread : /\ Suspended(k', u) <=> Suspended(k, u) /\ u \notin W
                        /\ k'.error[u] = IF u \in W THEN e ELSE k.error[u]
  BY DEF Awakened
<1>4. Leaves'
  <2>1. k'.cur \in Thread
    BY OrderlyFacts
  <2> QED BY <1>3, <2>1, InvFacts DEF Leaves
<1> QED BY <1>1, <1>2, <1>3, <1>4, InvFacts DEF Moves

-----------------------------------------------------------------------------
(* Receiving *)

\* rt_event_recv of bits that are there
LEMMA RecvNowStep ==
  ASSUME Inv, NEW t \in Thread, NEW bits \in SUBSET Bits, NEW opt \in Option,
         RecvNow(t, bits, opt)
  PROVE  Inv' /\ \A b \in set \ set' : Receives(t) /\ b \in want'[t]
<1>1. /\ At(t, "run") /\ k' = [k EXCEPT !.error[t] = "EOK"]
      /\ want' = [want EXCEPT ![t] = set \cap bits] /\ how' = [how EXCEPT ![t] = opt]
      /\ set' = (IF opt.clear THEN set \ bits ELSE set)
      /\ asked' = [asked EXCEPT ![t] = {}] /\ pc' = pc /\ alive' = alive
  BY DEF RecvNow, Uses, Calls
<1>2. t = k.cur /\ ~InRecv(t) /\ pc[t] = "run" /\ ~Suspended(k, t)
  BY <1>1, AtFacts
<1>3. /\ Orderly(k') /\ k'.cur = k.cur /\ k'.stat = k.stat /\ k'.wait = k.wait
      /\ k'.timer = k.timer
      /\ \A u \in Thread : k'.error[u] = IF u = t THEN "EOK" ELSE k.error[u]
  <2>1. "EOK" \in Error /\ InOrder(k, {}) /\ k' = SetError(k, t, "EOK")
    BY <1>1, InvFacts DEF Error, SetError
  <2> QED BY <2>1, ErrorOrderly
<1>4. \A u \in Thread : InRecv(u)' <=> InRecv(u)
  BY <1>1 DEF InRecv
<1>5. Moves({}, "EOK")
  <2>1. Leaves'
    BY <1>2, <1>3 DEF Leaves, Suspended
  <2>2. \A u \in Thread : /\ Waits(k', u, Ev) <=> Waits(k, u, Ev)
                          /\ Suspended(k', u) <=> Suspended(k, u)
                          /\ InRecv(u) => k'.error[u] = k.error[u]
    BY <1>2, <1>3, InvFacts DEF Waits, Suspended
  <2> QED BY <1>1, <1>3, <1>4, <2>1, <2>2, InvFacts DEF Moves
<1>6. /\ set' \subseteq set /\ want' \in [Thread -> SUBSET Bits]
      /\ how' \in [Thread -> Option] /\ asked' \in [Thread -> SUBSET Bits]
  BY <1>1, InvFacts
<1>7. \A u \in Thread : InRecv(u)' => Untouched(u)
  BY <1>1, <1>2, <1>4, InvFacts DEF Untouched
<1>8. Inv'
  BY <1>5, <1>6, <1>7, StayStep
<1>9. ASSUME NEW b \in set \ set'
      PROVE  Receives(t) /\ b \in want'[t]
  <2>1. opt.clear /\ b \in set \cap bits
    BY <1>1
  <2>2. want'[t] = set \cap bits /\ how'[t] = opt
    BY <1>1, InvFacts
  <2> QED BY <1>1, <1>2, <2>1, <2>2 DEF Receives
<1> QED BY <1>8, <1>9

\* rt_event_recv of bits that are not, up to its rt_schedule
LEMMA RecvWaitStep ==
  ASSUME Inv, NEW t \in Thread, NEW bits \in (SUBSET Bits) \ {{}}, NEW opt \in Option,
         NEW timed, RecvWait(t, bits, opt, timed)
  PROVE  Inv' /\ set' = set
<1>1. /\ At(t, "run") /\ t # Idle /\ ~Satisfied(bits, opt, set)
      /\ k' = SuspendFor([k EXCEPT !.error[t] = "EINTR"], Ev, timed)
      /\ want' = [want EXCEPT ![t] = bits] /\ how' = [how EXCEPT ![t] = opt]
      /\ asked' = [asked EXCEPT ![t] = bits]
      /\ Goto(t, "recvSched") /\ set' = set /\ alive' = alive
  BY DEF RecvWait, Uses, Calls
<1>2. t = k.cur /\ ~InRecv(t) /\ ~Suspended(k, t)
  BY <1>1, AtFacts
<1>3. Orderly(k') /\ k'.cur = t /\ Sleeps(k', k, t, Ev, "EINTR")
  <2>1. /\ Orderly(k) /\ t = k.cur /\ ~Suspended(k, t) /\ t # Idle
        /\ Ev \in WaitObj /\ "EINTR" \in Error
    BY <1>1, <1>2, InvFacts DEF Error
  <2>2. k' = SleepFor(k, t, Ev, "EINTR", timed)
    BY <1>1 DEF SleepFor
  <2> QED BY <2>1, <2>2, BlockOrderly
<1>4. \A u \in Thread : /\ Waits(k', u, Ev) <=> Waits(k, u, Ev) \/ u = t
                        /\ Suspended(k', u) <=> Suspended(k, u) \/ u = t
                        /\ k'.error[u] = IF u = t THEN "EINTR" ELSE k.error[u]
  <2> TAKE u \in Thread
  <2>1. ToSet(k'.wait[Ev]) = ToSet(k.wait[Ev]) \cup {t}
    BY <1>3, InvFacts DEF Sleeps
  <2>2. Suspended(k', u) <=> Suspended(k, u) \/ u = t
    BY <1>3 DEF Sleeps
  <2>3. k'.error[u] = IF u = t THEN "EINTR" ELSE k.error[u]
    BY <1>3 DEF Sleeps
  <2> QED BY <2>1, <2>2, <2>3 DEF Waits
<1>5. /\ pc' = [pc EXCEPT ![t] = "recvSched"] /\ pc' \in [Thread -> PC]
      /\ \A u \in Thread : u # t => (InRecv(u)' <=> InRecv(u))
      /\ InRecv(t)'
  <2>1. "recvSched" \in PC
    BY DEF PC
  <2> QED BY <1>1, <2>1, GotoStep
<1>6. \A u \in Thread : u # t => Untouched(u)
  BY <1>1, InvFacts DEF Untouched
<1>7. want'[t] = bits /\ how'[t] = opt /\ asked'[t] = bits
  BY <1>1, InvFacts
<1>8. ASSUME NEW u \in Thread
      PROVE  /\ Waits(k', u, Ev) <=> InRecv(u)' /\ Suspended(k', u)
             /\ Waits(k', u, Ev) => /\ want'[u] = asked'[u] /\ want'[u] # {}
                                    /\ ~Satisfied(want'[u], how'[u], set')
             /\ InRecv(u)' /\ ~Suspended(k', u) /\ k'.error[u] = "EOK" => Finds(u)'
  <2>1. CASE u = t
    BY <1>1, <1>4, <1>5, <1>7, <2>1
  <2>2. CASE u # t
    <3>1. /\ Waits(k', u, Ev) <=> Waits(k, u, Ev)
          /\ Suspended(k', u) <=> Suspended(k, u)
          /\ k'.error[u] = k.error[u] /\ (InRecv(u)' <=> InRecv(u))
      BY <1>4, <1>5, <2>2
    <3>2. want'[u] = want[u] /\ how'[u] = how[u] /\ asked'[u] = asked[u]
      BY <1>6, <2>2 DEF Untouched
    <3>3. Finds(u)' <=> Finds(u)
      BY <3>2 DEF Finds
    <3> QED BY <1>1, <3>1, <3>2, <3>3, ThreadFacts
  <2> QED BY <2>1, <2>2
<1>9. Leaves' /\ ~InRecv(Idle)'
  <2>1. Leaves'
    BY <1>3, <1>5, InvFacts DEF Leaves
  <2>2. Idle \in Thread
    OBVIOUS
  <2> QED BY <1>1, <1>5, <2>1, <2>2, InvFacts
<1>10. /\ set' \in SUBSET Bits /\ alive' \in BOOLEAN /\ want' \in [Thread -> SUBSET Bits]
       /\ how' \in [Thread -> Option] /\ asked' \in [Thread -> SUBSET Bits]
  BY <1>1, InvFacts
<1>11. Inv'
  BY <1>3, <1>5, <1>8, <1>9, <1>10, InvByThread, InvFacts
<1> QED BY <1>1, <1>11

\* the end of rt_event_recv
LEMMA RecvReturnStep ==
  ASSUME Inv, NEW t \in Thread, RecvReturn(t)
  PROVE  Inv' /\ set' = set
<1>1. /\ At(t, "received") /\ Goto(t, "run") /\ asked' = [asked EXCEPT ![t] = {}]
      /\ k' = k /\ set' = set /\ alive' = alive /\ want' = want /\ how' = how
  BY DEF RecvReturn
<1>2. t = k.cur /\ ~Suspended(k, t)
  BY <1>1, AtFacts
<1>3. /\ pc' = [pc EXCEPT ![t] = "run"] /\ pc' \in [Thread -> PC]
      /\ \A u \in Thread : u # t => (InRecv(u)' <=> InRecv(u))
      /\ ~InRecv(t)'
  <2>1. "run" \in PC /\ "run" \notin {"recvSched", "received"}
    BY DEF PC
  <2> QED BY <1>1, <2>1, GotoStep
<1>4. Moves({}, "EOK")
  <2>1. Leaves'
    BY <1>1, <1>2 DEF Leaves
  <2> QED BY <1>1, <1>2, <1>3, <2>1, InvFacts DEF Moves
<1>5. \A u \in Thread : InRecv(u)' => Untouched(u)
  BY <1>1, <1>3, InvFacts DEF Untouched
<1>6. asked' \in [Thread -> SUBSET Bits]
  BY <1>1, InvFacts
<1>7. Inv'
  BY <1>1, <1>4, <1>5, <1>6, StayStep, InvFacts
<1> QED BY <1>1, <1>7

-----------------------------------------------------------------------------
(* Sending *)

\* Those rt_event_send wakes were waiting, and the others go on waiting unsatisfied.
LEMMA WokenFacts ==
  ASSUME Inv, NEW bits \in SUBSET Bits, NEW t \in Thread
  PROVE  /\ t \in Woken(bits) => /\ Waits(k, t, Ev) /\ Suspended(k, t) /\ InRecv(t)
                                 /\ want[t] = asked[t] /\ want[t] # {}
                                 /\ Satisfied(want[t], how[t], set \cup bits)
         /\ Waits(k, t, Ev) /\ t \notin Woken(bits)
              => ~Satisfied(want[t], how[t], set \cup bits)
BY ThreadFacts DEF Woken, Waits

\* What the section of rt_event_send does to the bits and to event_set.
LEMMA SectionFacts ==
  ASSUME Inv, NEW bits \in SUBSET Bits, SendSection(bits)
  PROVE  /\ set' \in SUBSET Bits /\ set' \subseteq set \cup bits
         /\ want' \in [Thread -> SUBSET Bits] /\ how' = how /\ asked' = asked
         /\ \A t \in Thread : t \notin Woken(bits) => Untouched(t)
         /\ \A t \in Woken(bits) : t \in Thread /\ Finds(t)'
         /\ \A b \in set \ set' : \E t \in Woken(bits) : how[t].clear /\ b \in want'[t]
<1>1. /\ want' = Got(bits) /\ set' = FlagsAfter(bits) /\ how' = how /\ asked' = asked
  BY DEF SendSection
<1>2. ASSUME NEW t \in Thread
      PROVE  want'[t] = IF t \in Woken(bits) /\ ~how[t].all
                        THEN want[t] \cap (set \cup bits) ELSE want[t]
  BY <1>1 DEF Got
<1>3. \A t \in Woken(bits) : t \in Thread
  BY InvFacts DEF Woken
<1>4. want' \in [Thread -> SUBSET Bits]
  <2>1. ASSUME NEW t \in Thread
        PROVE  want'[t] \in SUBSET Bits
    <3>1. want[t] \in SUBSET Bits
      BY InvFacts
    <3> QED BY <1>2, <3>1
  <2>2. want' = [t \in Thread |-> want'[t]]
    BY <1>1 DEF Got
  <2> QED BY <2>1, <2>2
<1>5. set' = (set \cup bits) \ UNION {want'[t] : t \in {u \in Woken(bits) : how[u].clear}}
  BY <1>1 DEF FlagsAfter
<1>6. set' \in SUBSET Bits /\ set' \subseteq set \cup bits
  <2>1. set \cup bits \in SUBSET Bits
    BY InvFacts
  <2> QED BY <1>5, <2>1
<1>7. ASSUME NEW b \in set \ set'
      PROVE  \E t \in Woken(bits) : how[t].clear /\ b \in want'[t]
  BY <1>5
<1>8. \A t \in Thread : t \notin Woken(bits) => Untouched(t)
  BY <1>1, <1>2 DEF Untouched
<1>9. ASSUME NEW t \in Woken(bits)
      PROVE  Finds(t)'
  <2>1. t \in Thread /\ how'[t] = how[t] /\ asked'[t] = asked[t]
    BY <1>1, <1>3
  <2>2. want[t] = asked[t] /\ want[t] # {} /\ Satisfied(want[t], how[t], set \cup bits)
    BY <2>1, WokenFacts
  <2>3. CASE how[t].all
    <3>1. want'[t] = want[t]
      BY <1>2, <2>1, <2>3
    <3> QED BY <2>1, <2>2, <3>1 DEF Finds
  <2>4. CASE ~how[t].all
    <3>1. want'[t] = want[t] \cap (set \cup bits)
      BY <1>2, <2>1, <2>4
    <3>2. want[t] \cap (set \cup bits) # {}
      BY <2>2, <2>4 DEF Satisfied
    <3> QED BY <2>1, <2>2, <2>4, <3>1, <3>2 DEF Finds
  <2> QED BY <2>3, <2>4
<1> QED BY <1>1, <1>3, <1>4, <1>6, <1>7, <1>8, <1>9

\* The satisfied waiters are resumed with RT_EOK.
LEMMA WokenResume ==
  ASSUME Inv, NEW bits \in SUBSET Bits
  PROVE  LET n == ResumeSome(k, Ev, Woken(bits), "EOK")
         IN /\ Orderly(n) /\ Awakened(n, k, Woken(bits), "EOK") /\ n.cur = k.cur
            /\ \A t \in Woken(bits) : t \in Thread /\ Suspended(k, t)
<1> DEFINE W == Woken(bits)
           n == ResumeSome(k, Ev, W, "EOK")
<1>1. ToSet(k.wait[Ev]) \cap W = W
  BY DEF Woken
<1>2. \A t \in W : t \in Thread /\ Suspended(k, t)
  <2>1. \A t \in W : t \in Thread
    BY InvFacts DEF Woken
  <2> QED BY <2>1, WokenFacts
<1> HIDE DEF W
<1>3. "EOK" \in Error /\ Orderly(k) /\ Ev \in WaitObj
  BY InvFacts DEF Error
<1>4. LET m == ResumeSome(k, Ev, W, "EOK")
      IN /\ Orderly(m) /\ AwakenedOf(m, k, Ev, W, "EOK") /\ m.cur = k.cur
  BY <1>3, ResumeSomeOrderly
<1> QED BY <1>1, <1>2, <1>4 DEF W, AwakenedOf

LEMMA SectionStep ==
  ASSUME Inv, NEW bits \in SUBSET Bits, SendSection(bits), Moves(Woken(bits), "EOK")
  PROVE  Inv' /\ \A b \in set \ set' : \E t \in Thread : Receives(t) /\ b \in want'[t]
<1>1. \A t \in Thread : Waits(k, t, Ev) /\ t \notin Woken(bits)
                          => ~Satisfied(want[t], how[t], set')
  BY WokenFacts, SectionFacts, SatisfiedLess
<1>2. /\ \A t \in Thread : InRecv(t)' /\ t \notin Woken(bits) => Untouched(t)
      /\ \A t \in Woken(bits) : InRecv(t) => Finds(t)'
  BY SectionFacts
<1>3. /\ set' \in SUBSET Bits /\ want' \in [Thread -> SUBSET Bits]
      /\ how' \in [Thread -> Option] /\ asked' \in [Thread -> SUBSET Bits]
  BY SectionFacts, InvFacts
<1>4. Inv'
  BY <1>1, <1>2, <1>3, InvStep
<1>5. \A t \in Woken(bits) : t \in Thread /\ Waits(k, t, Ev) /\ ~Waits(k', t, Ev)
  <2>1. \A t \in Woken(bits) : t \in Thread
    BY SectionFacts
  <2> QED BY <2>1, WokenFacts DEF Moves
<1>6. \A b \in set \ set' : \E t \in Thread : Receives(t) /\ b \in want'[t]
  BY <1>5, SectionFacts DEF Receives
<1> QED BY <1>4, <1>6

\* rt_event_send of a thread
LEMMA SendStep ==
  ASSUME Inv, NEW t \in Thread, NEW bits \in SUBSET Bits, Send(t, bits)
  PROVE  Inv' /\ \A b \in set \ set' : \E u \in Thread : Receives(u) /\ b \in want'[u]
<1>1. /\ At(t, "run") /\ SendSection(bits) /\ alive' = alive
      /\ k' = ResumeSome(k, Ev, Woken(bits), "EOK")
      /\ Goto(t, IF Woken(bits) # {} THEN "sched" ELSE "run")
  BY DEF Send, Uses, Calls
<1>2. t = k.cur /\ ~InRecv(t) /\ ~Suspended(k, t)
  BY <1>1, AtFacts
<1>3. /\ Orderly(k') /\ Awakened(k', k, Woken(bits), "EOK") /\ k'.cur = k.cur
      /\ \A u \in Woken(bits) : u \in Thread /\ Suspended(k, u)
  BY <1>1, WokenResume
<1>4. Leaves'
  BY <1>2, <1>3 DEF Leaves, Awakened
<1>5. PICK l \in {"sched", "run"} : Goto(t, l)
  BY <1>1
<1>6. l \in PC /\ l \notin {"recvSched", "received"}
  BY DEF PC
<1>7. Moves(Woken(bits), "EOK")
  BY <1>1, <1>2, <1>3, <1>4, <1>5, <1>6, ThreadMoves, InvFacts
<1> QED BY <1>1, <1>7, SectionStep

\* rt_event_send of an interrupt handler
LEMMA IsrSendStep ==
  ASSUME Inv, NEW bits \in SUBSET Bits, IsrSend(bits)
  PROVE  Inv' /\ \A b \in set \ set' : \E u \in Thread : Receives(u) /\ b \in want'[u]
<1> DEFINE n == ResumeSome(k, Ev, Woken(bits), "EOK")
<1>1. /\ SendSection(bits) /\ pc' = pc /\ alive' = alive
      /\ k' = IF Woken(bits) # {} THEN Schedule(n) ELSE n
  BY DEF IsrSend
<1>2. /\ Orderly(n) /\ Awakened(n, k, Woken(bits), "EOK") /\ n.cur = k.cur
      /\ \A u \in Woken(bits) : u \in Thread /\ Suspended(k, u)
  BY WokenResume
<1> HIDE DEF n
<1>3. /\ Orderly(k') /\ Awakened(k', k, Woken(bits), "EOK")
      /\ Suspended(k', k'.cur) => k'.cur = k.cur
  <2>1. CASE Woken(bits) # {}
    <3>1. k' = Schedule(n)
      BY <1>1, <2>1
    <3>2. Orderly(k') /\ Awakened(k', k, Woken(bits), "EOK") /\ ~Suspended(k', k'.cur)
      BY <1>2, <3>1, WokenThenScheduled
    <3> QED BY <3>2
  <2>2. CASE Woken(bits) = {}
    BY <1>1, <1>2, <2>2
  <2> QED BY <2>1, <2>2
<1>4. Moves(Woken(bits), "EOK")
  BY <1>1, <1>2, <1>3, KernelMoves
<1> QED BY <1>1, <1>4, SectionStep

-----------------------------------------------------------------------------
(* The other functions and the kernel *)

\* rt_event_control(RT_IPC_CMD_RESET)
LEMMA ResetStep ==
  ASSUME Inv, NEW t \in Thread, Reset(t)
  PROVE  Inv'
<1> DEFINE W == ToSet(k.wait[Ev])
<1>1. /\ At(t, "run") /\ k' = ResumeAll(k, Ev) /\ set' = {} /\ Goto(t, "sched")
      /\ alive' = alive /\ want' = want /\ how' = how /\ asked' = asked
  BY DEF Reset, Uses, Calls
<1>2. t = k.cur /\ ~InRecv(t) /\ ~Suspended(k, t)
  BY <1>1, AtFacts
<1>3. Orderly(k') /\ Awakened(k', k, W, "ERROR") /\ k'.cur = k.cur
  BY <1>1, ResumeAllOrderly, InvFacts
<1>4. \A u \in W : u \in Thread /\ Suspended(k, u)
  <2>1. \A u \in W : u \in Thread /\ Waits(k, u, Ev)
    BY InvFacts DEF Waits
  <2> QED BY <2>1, ThreadFacts
<1> HIDE DEF W
<1>5. Leaves'
  BY <1>2, <1>3 DEF Leaves, Awakened
<1>6. "sched" \in PC /\ "sched" \notin {"recvSched", "received"}
  BY DEF PC
<1>7. Moves(W, "ERROR")
  BY <1>1, <1>2, <1>3, <1>4, <1>5, <1>6, ThreadMoves, InvFacts
<1>8. \A u \in Thread : Untouched(u)
  BY <1>1 DEF Untouched
<1> QED BY <1>1, <1>7, <1>8, StayStep, InvFacts

\* rt_event_init of an event that was detached: nobody is inside a receive.
LEMMA InitAgainStep ==
  ASSUME Inv, NEW t \in Thread, InitAgain(t)
  PROVE  Inv'
<1>1. /\ At(t, "run") /\ alive' = TRUE /\ set' = {}
      /\ k' = k /\ pc' = pc /\ want' = want /\ how' = how /\ asked' = asked
  BY DEF InitAgain, Calls
<1>2. t = k.cur /\ ~InRecv(t) /\ ~Suspended(k, t) /\ pc[t] = "run"
  BY <1>1, AtFacts
<1>3. Goto(t, "run") /\ "run" \in PC
  BY <1>1, <1>2, InvFacts DEF Goto, PC
<1>4. Moves({}, "EOK")
  BY <1>1, <1>2, <1>3, SameKernel
<1>5. \A u \in Thread : Untouched(u)
  BY <1>1 DEF Untouched
<1> QED BY <1>1, <1>4, <1>5, StayStep, InvFacts

\* The steps of rt_event_detach that look at the list or finish
LEMMA DetachLookStep ==
  ASSUME Inv, NEW t \in Thread, Detach(t) \/ DetachLook(t) \/ DetachObject(t)
  PROVE  Inv' /\ set' = set
<1>1. /\ \E l \in {"run", "detach", "detachObject"} : At(t, l)
      /\ k' = k /\ alive' \in BOOLEAN
      /\ set' = set /\ want' = want /\ how' = how /\ asked' = asked
  BY InvFacts DEF Detach, DetachLook, DetachObject, Uses, Calls
<1>2. PICK l \in {"run", "detach", "detachOne", "detachObject"} : Goto(t, l)
  BY DEF Detach, DetachLook, DetachObject
<1>3. l \in PC /\ l \notin {"recvSched", "received"}
  BY DEF PC
<1>4. t = k.cur /\ ~InRecv(t) /\ ~Suspended(k, t)
  BY <1>1, AtFacts
<1>5. Moves({}, "EOK")
  BY <1>1, <1>2, <1>3, <1>4, SameKernel
<1>6. \A u \in Thread : Untouched(u)
  BY <1>1 DEF Untouched
<1> QED BY <1>1, <1>5, <1>6, StayStep, InvFacts

\* one turn of _ipc_list_resume_all in rt_event_detach
LEMMA DetachOneStep ==
  ASSUME Inv, NEW t \in Thread, DetachOne(t)
  PROVE  Inv' /\ set' = set
<1>1. /\ At(t, "detachOne")
      /\ set' = set /\ alive' = alive /\ want' = want /\ how' = how /\ asked' = asked
  BY DEF DetachOne
<1>2. t = k.cur /\ ~InRecv(t) /\ ~Suspended(k, t)
  BY <1>1, AtFacts
<1>3. PICK l \in {"detach", "fault"} : Goto(t, l)
  BY DEF DetachOne
<1>4. l \in PC /\ l \notin {"recvSched", "received"}
  BY DEF PC
<1>5. \A u \in Thread : Untouched(u)
  BY <1>1 DEF Untouched
<1>6. CASE HasWaiter(k, Ev)
  <2> DEFINE u == Head(k.wait[Ev])
  <2>1. k' = ResumeFailed(k, u)
    BY <1>6 DEF DetachOne
  <2>2. u \in Thread /\ Suspended(k, u)
    BY <1>6, InvFacts, OrderlyFacts DEF Suspended
  <2> HIDE DEF u
  <2>3. Orderly(k') /\ Awakened(k', k, {u}, "ERROR") /\ k'.cur = k.cur
    BY <2>1, <2>2, ResumeFailedOrderly, InvFacts
  <2>4. Leaves'
    BY <1>2, <2>3 DEF Leaves, Awakened
  <2>5. Moves({u}, "ERROR")
    BY <1>1, <1>2, <1>3, <1>4, <2>2, <2>3, <2>4, ThreadMoves, InvFacts
  <2> QED BY <1>1, <1>5, <2>5, StayStep, InvFacts
<1>7. CASE ~HasWaiter(k, Ev)
  <2>1. k' = k
    BY <1>7 DEF DetachOne
  <2>2. Moves({}, "EOK")
    BY <1>1, <1>2, <1>3, <1>4, <2>1, SameKernel, InvFacts
  <2> QED BY <1>1, <1>5, <2>2, StayStep, InvFacts
<1> QED BY <1>6, <1>7

\* rt_schedule at the end of a function
LEMMA DoScheduleStep ==
  ASSUME Inv, NEW t \in Thread, DoSchedule(t)
  PROVE  Inv' /\ set' = set
<1>1. /\ k' = Schedule(k) /\ alive' = alive
      /\ set' = set /\ want' = want /\ how' = how /\ asked' = asked
  BY DEF DoSchedule
<1>2. PICK l \in {"run", "received"} :
        Goto(t, l) /\ t = k.cur /\ (InRecv(t) <=> l \in {"recvSched", "received"})
  <2>1. CASE At(t, "sched") /\ Goto(t, "run")
    BY <2>1, AtFacts
  <2>2. CASE At(t, "recvSched") /\ Goto(t, "received")
    BY <2>2, AtFacts
  <2> QED BY <2>1, <2>2 DEF DoSchedule
<1>3. l \in PC
  BY DEF PC
<1>4. Orderly(k') /\ Keeps(k', k) /\ ~Suspended(k', k'.cur)
  BY <1>1, ScheduleOrderly, InvFacts
<1>5. Leaves'
  BY <1>4 DEF Leaves
<1>6. Moves({}, "EOK")
  BY <1>1, <1>2, <1>3, <1>4, <1>5, ThreadMoves, InvFacts DEF Keeps
<1>7. \A u \in Thread : Untouched(u)
  BY <1>1 DEF Untouched
<1> QED BY <1>1, <1>6, <1>7, StayStep, InvFacts

\* the tick, and the timeout of a thread
LEMMA TimeStep ==
  ASSUME Inv, Tick \/ \E u \in Thread : TimerExpire(u)
  PROVE  Inv' /\ set' = set
<1>1. UNCHANGED <<pc, set, alive, want, how, asked>>
  BY DEF Tick, TimerExpire
<1>2. \A u \in Thread : Untouched(u)
  BY <1>1 DEF Untouched
<1>3. CASE Tick
  <2>1. k' = TickSlice(k)
    BY <1>3 DEF Tick
  <2>2. Orderly(k') /\ Keeps(k', k) /\ (k'.cur = k.cur \/ ~Suspended(k', k'.cur))
    BY <2>1, TickOrderly, InvFacts
  <2>3. Moves({}, "EOK")
    BY <1>1, <2>2, KernelMoves DEF Keeps
  <2> QED BY <1>1, <1>2, <2>3, StayStep, InvFacts
<1>4. ASSUME NEW u \in Thread, TimerExpire(u)
      PROVE  Inv' /\ set' = set
  <2>1. u \in k.timer /\ k' = ThreadTimeout(k, u)
    BY <1>4 DEF TimerExpire
  <2>2. Suspended(k, u)
    BY <2>1, InvFacts DEF InOrder
  <2>3. Orderly(k') /\ Awakened(k', k, {u}, "ETIMEOUT") /\ ~Suspended(k', k'.cur)
    BY <2>1, <2>2, TimeoutOrderly, InvFacts
  <2>4. Moves({u}, "ETIMEOUT")
    BY <1>1, <2>2, <2>3, KernelMoves
  <2> QED BY <1>1, <1>2, <2>4, StayStep, InvFacts
<1> QED BY <1>3, <1>4

-----------------------------------------------------------------------------
(* The specification *)

LEMMA InitInv ==
  ASSUME Init
  PROVE  Inv
<1>1. /\ k = StartedKernel /\ pc = [t \in Thread |-> "run"] /\ set = {} /\ alive = TRUE
      /\ want = [t \in Thread |-> {}] /\ asked = want
      /\ how = [t \in Thread |-> [all |-> TRUE, clear |-> FALSE]]
  BY DEF Init
<1>2. /\ Orderly(k) /\ Ev \in WaitObj
      /\ \A t \in Thread : ~Suspended(k, t)
  BY <1>1, StartedLemma, EventAssumption
<1>3. k \in Kernel /\ k.cur \in Thread /\ ToSet(k.wait[Ev]) = {}
  BY <1>1, <1>2, StartedLemma
<1>4. TypeOK
  BY <1>1, <1>3 DEF TypeOK, PC, Option
<1>5. \A t \in Thread : ~InRecv(t) /\ ~Waits(k, t, Ev)
  BY <1>1, <1>3 DEF InRecv, Waits
<1>6. Consistent
  BY <1>2, <1>3, <1>4, <1>5 DEF Consistent, Leaves
<1>7. NoSatisfiedWaiter /\ ReceivesWhatItAskedFor
  BY <1>3, <1>5 DEF NoSatisfiedWaiter, ReceivesWhatItAskedFor
<1> QED BY <1>6, <1>7 DEF Inv

\* A step, and what becomes of the bits.
LEMMA NextStep ==
  ASSUME Inv, [Next]_vars
  PROVE  /\ Inv'
         /\ \/ \E t \in Thread : Reset(t) \/ InitAgain(t)
            \/ \A b \in set \ set' : \E t \in Thread : Receives(t) /\ b \in want'[t]
<1> DEFINE Kept == \A b \in set \ set' : \E t \in Thread : Receives(t) /\ b \in want'[t]
<1>1. set' = set => Kept
  OBVIOUS
<1>2. CASE UNCHANGED vars
  <2>1. Inv'
    BY <1>2 DEF vars, Inv, Consistent, TypeOK, Leaves, InRecv, Waits, NoSatisfiedWaiter,
                ReceivesWhatItAskedFor
  <2> QED BY <1>1, <1>2, <2>1 DEF vars
<1>3. ASSUME NEW t \in Thread, ThreadStep(t)
      PROVE  Inv' /\ (Kept \/ Reset(t) \/ InitAgain(t))
  <2>1. CASE RecvReturn(t)
    BY <1>1, <2>1, RecvReturnStep
  <2>2. CASE Reset(t) \/ InitAgain(t)
    BY <2>2, ResetStep, InitAgainStep
  <2>3. CASE DoSchedule(t)
    BY <1>1, <2>3, DoScheduleStep
  <2>4. CASE Detach(t) \/ DetachLook(t) \/ DetachObject(t)
    BY <1>1, <2>4, DetachLookStep
  <2>5. CASE DetachOne(t)
    BY <1>1, <2>5, DetachOneStep
  <2>6. ASSUME NEW bits \in (SUBSET Bits) \ {{}}, Send(t, bits)
        PROVE  Inv' /\ Kept
    BY <2>6, SendStep
  <2>7. ASSUME NEW bits \in (SUBSET Bits) \ {{}}, NEW opt \in Option, RecvNow(t, bits, opt)
        PROVE  Inv' /\ Kept
    BY <2>7, RecvNowStep
  <2>8. ASSUME NEW bits \in (SUBSET Bits) \ {{}}, NEW opt \in Option, NEW timed \in Timed,
               RecvWait(t, bits, opt, timed)
        PROVE  Inv' /\ Kept
    BY <1>1, <2>8, RecvWaitStep
  <2> HIDE DEF Kept
  <2> QED BY <1>3, <2>1, <2>2, <2>3, <2>4, <2>5, <2>6, <2>7, <2>8 DEF ThreadStep
<1>4. ASSUME NEW bits \in (SUBSET Bits) \ {{}}, IsrSend(bits)
      PROVE  Inv' /\ Kept
  BY <1>4, IsrSendStep
<1>5. CASE Tick \/ \E u \in Thread : TimerExpire(u)
  BY <1>1, <1>5, TimeStep
<1> QED BY <1>2, <1>3, <1>4, <1>5 DEF Next

\* The kernel's lists stay in order, and a thread queues at the event exactly while
\* it is suspended inside rt_event_recv, with what it asked for in event_set.
THEOREM EventConsistent == Spec => []Consistent
<1>1. Init => Inv
  BY InitInv
<1>2. Inv /\ [Next]_vars => Inv'
  BY NextStep
<1>3. Inv => Consistent
  BY DEF Inv
<1> QED BY <1>1, <1>2, <1>3, PTL DEF Spec

\* Whoever sets the bits a thread waits for wakes it (rt_event_send), and no
\* receive, reset or new rt_event_init leaves a waiter satisfied behind.
THEOREM EventNoSatisfiedWaiter == Spec => []NoSatisfiedWaiter
<1>1. Init => Inv
  BY InitInv
<1>2. Inv /\ [Next]_vars => Inv'
  BY NextStep
<1>3. Inv => NoSatisfiedWaiter
  BY DEF Inv
<1> QED BY <1>1, <1>2, <1>3, PTL DEF Spec

\* A receive that ends with RT_EOK hands over the bits that were asked for, or
\* those of them that were there, whatever is sent, cleared or reset meanwhile.
THEOREM EventReceives == Spec => []ReceivesWhatItAskedFor
<1>1. Init => Inv
  BY InitInv
<1>2. Inv /\ [Next]_vars => Inv'
  BY NextStep
<1>3. Inv => ReceivesWhatItAskedFor
  BY DEF Inv
<1> QED BY <1>1, <1>2, <1>3, PTL DEF Spec

\* A bit leaves event->set in a reset, in rt_event_init, or because a thread that
\* asked to clear it has received it.
THEOREM EventNoBitLost == Spec => NoBitLost
<1>1. Init => Inv
  BY InitInv
<1>2. Inv /\ [Next]_vars => Inv'
  BY NextStep
<1>3. Inv /\ [Next]_vars =>
        [\/ \E t \in Thread : Reset(t) \/ InitAgain(t)
         \/ \A b \in set \ set' : \E t \in Thread : Receives(t) /\ b \in want'[t]]_vars
  BY NextStep
<1> QED BY <1>1, <1>2, <1>3, PTL DEF Spec, NoBitLost
=============================================================================
