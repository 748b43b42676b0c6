---------------------------- MODULE MutexProofs -----------------------------
(***************************************************************************)
(* The mutexes for any number of threads and mutexes: the lists of waiters, *)
(* the owners and the functions the threads are in agree whatever changes   *)
(* of priority run along the chains of owners, a take that succeeds makes   *)
(* its caller the owner, and each mutex implements the abstract one.  An    *)
(* owner is as urgent as every thread that waits for it, and where no wait  *)
(* is cut short it is no more urgent than what it owns calls for.           *)
(***************************************************************************)
EXTENDS Mutex, KernelProofs

USE IpcAssumption, ThreadAssumption

-----------------------------------------------------------------------------
(* Changes of priority *)

\* No mutex changes hands in the step from s to n, and no wait begins or ends.
SameOwners(n, s0) == /\ n.owner = s0.owner /\ n.hold = s0.hold
                     /\ n.taken = s0.taken /\ n.pending = s0.pending

Calm(n, s0, C) == /\ n \in MutexState /\ SameOwners(n, s0)
                  /\ InOrder(n.k, C) /\ Keeps(n.k, s0.k) /\ n.k.cur = s0.k.cur

\* A thread that is suspended and has a pending mutex waits for that mutex.
Movable(s0, t) ==
  Suspended(s0.k, t) /\ s0.pending[t] # None => Waits(s0.k, t, s0.pending[t])

SoundOwners(s0) == \A m \in Mutex : s0.owner[m] # None => Movable(s0, s0.owner[m])

Ordered(s0, C) == s0 \in MutexState /\ InOrder(s0.k, C)

LEMMA StateFacts ==
  ASSUME NEW s0 \in MutexState
  PROVE  /\ s0.k \in Kernel
         /\ s0.owner \in [Mutex -> Thread \cup {None}] /\ s0.hold \in [Mutex -> 0..HoldMax]
         /\ s0.urgency \in [Mutex -> Prio \cup {Lowest}]
         /\ s0.ceiling \in [Mutex -> Prio \cup {Lowest}]
         /\ s0.taken \in [Thread -> SUBSET Mutex] /\ s0.pending \in [Thread -> Mutex \cup {None}]
         /\ s0.k.prio \in [Thread -> Prio] /\ s0.k.cur \in Thread
         /\ \A t \in Thread : s0.k.prio[t] \in Prio
         /\ Mutex \subseteq WaitObj
BY MutexAssumption DEF MutexState, Kernel

LEMMA CalmSame ==
  ASSUME NEW s0, NEW C, Ordered(s0, C)
  PROVE  Calm(s0, s0, C)
BY DEF Calm, Ordered, SameOwners, Keeps, Awakened

LEMMA CalmThen ==
  ASSUME NEW s0, NEW n, NEW r, NEW C, Calm(n, s0, C), Calm(r, n, C)
  PROVE  Calm(r, s0, C)
BY DEF Calm, SameOwners, Keeps, Awakened

\* Whom a change of priority meets does not depend on the changes before it.
LEMMA CalmSound ==
  ASSUME NEW s0 \in MutexState, NEW n, NEW C, Calm(n, s0, C)
  PROVE  /\ \A t \in Thread : Movable(n, t) <=> Movable(s0, t)
         /\ SoundOwners(n) <=> SoundOwners(s0)
<1>1. ASSUME NEW t \in Thread
      PROVE  Movable(n, t) <=> Movable(s0, t)
  <2>1. n.pending[t] = s0.pending[t] /\ (Suspended(n.k, t) <=> Suspended(s0.k, t))
    BY DEF Calm, SameOwners, Keeps, Awakened
  <2>2. s0.pending[t] \in WaitObj \cup {None}
    BY StateFacts
  <2>3. \A o \in WaitObj : Waits(n.k, t, o) <=> Waits(s0.k, t, o)
    BY DEF Calm, Keeps, Awakened, Waits
  <2> QED BY <2>1, <2>2, <2>3 DEF Movable
<1>2. \A m \in Mutex : n.owner[m] = s0.owner[m] /\ s0.owner[m] \in Thread \cup {None}
  BY StateFacts DEF Calm, SameOwners
<1> QED BY <1>1, <1>2 DEF SoundOwners

\* A set of priorities that holds one in use has a least member, which is either in
\* use or the lowest there is.
LEMMA LeastPrio ==
  ASSUME NEW S, S \subseteq Prio \cup {Lowest}, NEW p \in Prio, p \in S
  PROVE  Min(S) \in Prio
<1>1. S \in SUBSET Nat /\ S # {}
  BY PrioAssumption DEF Lowest
<1>2. PICK m \in S : \A x \in S : m <= x
  BY <1>1, LeastNatural
<1>3. Min(S) \in S /\ \A x \in S : Min(S) <= x
  BY <1>2 DEF Min
<1>4. CASE Min(S) = Lowest
  BY <1>3, <1>4, MutexAssumption DEF Lowest
<1> QED BY <1>3, <1>4

LEMMA DuePrioType ==
  ASSUME NEW s0 \in MutexState, NEW t \in Thread
  PROVE  DuePrio(s0, t) \in Prio
<1> DEFINE S == {InitPrio[t]} \cup {s0.urgency[m] : m \in s0.taken[t]}
                              \cup {s0.ceiling[m] : m \in s0.taken[t]}
<1>1. InitPrio[t] \in Prio /\ InitPrio[t] \in S
  OBVIOUS
<1>2. S \subseteq Prio \cup {Lowest}
  BY StateFacts
<1>3. DuePrio(s0, t) = Min(S)
  BY DEF DuePrio
<1> HIDE DEF S
<1> QED BY <1>1, <1>2, <1>3, LeastPrio

\* A step of the kernel alone.
LEMMA KernelCalm ==
  ASSUME NEW s0 \in MutexState, NEW k, NEW C, InOrder(k, C), Keeps(k, s0.k), k.cur = s0.k.cur
  PROVE  LET n == [s0 EXCEPT !.k = k]
         IN Calm(n, s0, C) /\ n.k = k /\ n.urgency = s0.urgency /\ n.ceiling = s0.ceiling
<1> DEFINE n == [s0 EXCEPT !.k = k]
<1>1. k \in Kernel
  BY OrderlyFacts
<1>2. /\ n \in MutexState /\ n.k = k /\ n.owner = s0.owner /\ n.hold = s0.hold
      /\ n.taken = s0.taken /\ n.pending = s0.pending
      /\ n.urgency = s0.urgency /\ n.ceiling = s0.ceiling
  BY <1>1 DEF MutexState
<1> HIDE DEF n
<1>3. Calm(n, s0, C)
  BY <1>2 DEF Calm, SameOwners
<1> QED BY <1>2, <1>3 DEF n

\* _mutex_update_priority
LEMMA RefreshCalm ==
  ASSUME NEW s0, NEW C, NEW m \in Mutex, Ordered(s0, C)
  PROVE  LET n == Refresh(s0, m) IN Calm(n, s0, C) /\ n.k = s0.k
<1> DEFINE n == Refresh(s0, m)
           p == FirstUrgency(s0.k, m)
<1>1. s0 \in MutexState /\ InOrder(s0.k, C) /\ m \in WaitObj
  BY MutexAssumption DEF Ordered
<1>2. p \in Prio \cup {Lowest}
  <2>1. HasWaiter(s0.k, m) => Head(s0.k.wait[m]) \in Thread
    BY <1>1, OrderlyFacts
  <2> QED BY <1>1, <2>1, StateFacts DEF FirstUrgency
<1>3. n = [s0 EXCEPT !.urgency[m] = p]
  BY DEF Refresh
<1> HIDE DEF n, p
<1>4. /\ n \in MutexState /\ n.k = s0.k /\ n.owner = s0.owner /\ n.hold = s0.hold
      /\ n.taken = s0.taken /\ n.pending = s0.pending
  BY <1>1, <1>2, <1>3 DEF MutexState
<1>5. Keeps(n.k, s0.k)
  BY <1>4 DEF Keeps, Awakened
<1>6. Calm(n, s0, C)
  BY <1>1, <1>4, <1>5 DEF Calm, SameOwners
<1> QED BY <1>4, <1>6 DEF n

\* The calls of _thread_update_priority one after the other: each finds the kernel
\* in order, and a thread whose priority it may change.
Link(c, s0, C) == /\ Calm(c.s, s0, C)
                  /\ c.t # None => c.t \in Thread /\ c.p \in Prio /\ Movable(c.s, c.t)

LEMMA UpdateOneLink ==
  ASSUME NEW s0 \in MutexState, NEW C, SoundOwners(s0), NEW c, Link(c, s0, C)
  PROVE  Link(UpdateOne(c), s0, C)
<1> DEFINE k1 == ChangePriority(c.s.k, c.t, c.p)
           s1 == [c.s EXCEPT !.k = k1]
           m == s1.pending[c.t]
           k2 == Enqueue(ListRemove(s1.k, c.t), m, c.t)
           s2 == [s1 EXCEPT !.k = k2]
           r == Refresh(s2, m)
           o == r.owner[m]
           f == [r EXCEPT !.fault = TRUE]
           u == UpdateOne(c)
<1>1. u = IF c.t = None THEN c
          ELSE IF ~Suspended(s1.k, c.t) \/ m = None
          THEN [s |-> s1, t |-> None, p |-> Lowest]
          ELSE IF o = None THEN [s |-> f, t |-> None, p |-> Lowest]
          ELSE IF DuePrio(r, o) = r.k.prio[o] THEN [s |-> r, t |-> None, p |-> Lowest]
          ELSE [s |-> r, t |-> o, p |-> DuePrio(r, o)]
  BY DEF UpdateOne
<1> HIDE DEF u
<1>2. CASE c.t = None
  BY <1>1, <1>2 DEF u
<1>3. CASE c.t # None
  <2>1. /\ c.s \in MutexState /\ InOrder(c.s.k, C) /\ c.t \in Thread /\ c.p \in Prio
        /\ Movable(c.s, c.t) /\ Calm(c.s, s0, C)
    BY <1>3 DEF Link, Calm
  <2>2. InOrder(k1, C) /\ Keeps(k1, c.s.k) /\ k1.cur = c.s.k.cur
    <3> DEFINE k0 == c.s.k
               t0 == c.t
               p0 == c.p
    <3>1. t0 \in Thread /\ p0 \in Prio /\ InOrder(k0, C)
      BY <2>1
    <3> HIDE DEF k0, t0, p0
    <3>2. LET n == ChangePriority(k0, t0, p0)
          IN InOrder(n, C) /\ Keeps(n, k0) /\ n.cur = k0.cur
      BY <3>1, ChangePriorityOrderly
    <3> QED BY <3>2 DEF k0, t0, p0
  <2> HIDE DEF k1
  <2>3. Calm(s1, c.s, C) /\ s1.k = k1
    BY <2>1, <2>2, KernelCalm
  <2> HIDE DEF s1
  <2>4. Calm(s1, s0, C)
    BY <2>1, <2>3, CalmThen
  <2>5. Movable(s1, c.t)
    BY <2>1, <2>3, CalmSound
  <2>6. CASE ~Suspended(s1.k, c.t) \/ m = None
    <3> HIDE DEF m, k2, s2, r, o, f
    <3>1. u = [s |-> s1, t |-> None, p |-> Lowest]
      BY <1>1, <1>3, <2>6
    <3>2. u.s = s1 /\ u.t = None
      BY <3>1
    <3>3. Link(u, s0, C)
      BY <2>4, <3>2 DEF Link
    <3> QED BY <3>3 DEF u
  <2>7. CASE ~(~Suspended(s1.k, c.t) \/ m = None)
    <3>1. m \in Mutex /\ m \in WaitObj /\ c.t \in ToSet(s1.k.wait[m]) /\ InOrder(s1.k, C)
          /\ s1 \in MutexState
      <4>1. s1 \in MutexState /\ InOrder(s1.k, C)
        BY <2>4 DEF Calm
      <4>2. m \in Mutex
        BY <2>1, <2>7, <4>1, StateFacts
      <4>3. Waits(s1.k, c.t, m)
        BY <2>5, <2>7 DEF Movable
      <4> QED BY <4>1, <4>2, <4>3, StateFacts DEF Waits
    <3> HIDE DEF m
    <3>2. InOrder(k2, C) /\ Keeps(k2, s1.k) /\ k2.cur = s1.k.cur
      BY <2>1, <3>1, MoveOrderly
    <3> HIDE DEF k2
    <3>3. Calm(s2, s1, C)
      BY <3>1, <3>2, KernelCalm
    <3> HIDE DEF s2
    <3>4. Calm(r, s2, C)
      <4>1. Ordered(s2, C)
        BY <3>3 DEF Calm, Ordered
      <4> QED BY <3>1, <4>1, RefreshCalm
    <3> HIDE DEF r
    <3>5. Calm(r, s0, C) /\ r \in MutexState
      BY <2>4, <3>3, <3>4, CalmThen DEF Calm
    <3>6. CASE o = None
      <4>1. f \in MutexState /\ f.k = r.k /\ SameOwners(f, r)
        BY <3>5 DEF MutexState, SameOwners
      <4> HIDE DEF f
      <4>2. Calm(f, s0, C)
        BY <3>5, <4>1 DEF Calm, SameOwners
      <4>3. u = [s |-> f, t |-> None, p |-> Lowest]
        BY <1>1, <1>3, <2>7, <3>6
      <4>4. u.s = f /\ u.t = None
        BY <4>3
      <4>5. Link(u, s0, C)
        BY <4>2, <4>4 DEF Link
      <4> QED BY <4>5 DEF u
    <3>7. CASE o # None
      <4>1. o \in Thread
        BY <3>1, <3>5, <3>7, StateFacts
      <4>2. SoundOwners(r)
        BY <3>5, CalmSound
      <4>3. Movable(r, o)
        BY <3>1, <3>7, <4>2 DEF SoundOwners
      <4>4. DuePrio(r, o) \in Prio
        BY <3>5, <4>1, DuePrioType
      <4> HIDE DEF o
      <4>5. /\ u.s = r
            /\ u.t = None \/ (u.t = o /\ u.p = DuePrio(r, o))
        <5>1. u = [s |-> r, t |-> None, p |-> Lowest] \/ u = [s |-> r, t |-> o, p |-> DuePrio(r, o)]
          BY <1>1, <1>3, <2>7, <3>7
        <5> QED BY <5>1
      <4>6. Link(u, s0, C)
        BY <3>5, <4>1, <4>3, <4>4, <4>5 DEF Link
      <4> QED BY <4>6 DEF u
    <3> QED BY <3>6, <3>7
  <2> QED BY <2>6, <2>7
<1> QED BY <1>2, <1>3

\* The calls of _thread_update_priority that start with c, up to n of them.
Chain(f, c, n) == f = [i \in 0..n |-> IF i = 0 THEN c ELSE UpdateOne(f[i - 1])]

LEMMA ChainExists ==
  ASSUME NEW c, NEW n \in Nat
  PROVE  \E f : Chain(f, c, n)
<1> DEFINE without == {j \in Nat : ~\E f : Chain(f, c, j)}
<1> SUFFICES ASSUME without # {} PROVE FALSE
  OBVIOUS
<1>1. PICK j \in without : \A i \in without : j <= i
  <2>1. without \in SUBSET Nat
    OBVIOUS
  <2> HIDE DEF without
  <2> QED BY <2>1, LeastNatural
<1>2. CASE j = 0
  <2> DEFINE f == [i \in 0..0 |-> c]
  <2>1. Chain(f, c, 0)
    BY DEF Chain
  <2> QED BY <1>1, <1>2, <2>1
<1>3. CASE j # 0
  <2>1. j \in Nat /\ j - 1 \in Nat /\ ~(j <= j - 1)
    BY <1>1, <1>3
  <2>2. PICK f : Chain(f, c, j - 1)
    BY <1>1, <2>1
  <2> DEFINE g == [i \in 0..j |-> IF i = j THEN UpdateOne(f[j - 1]) ELSE f[i]]
  <2>3. \A i \in 0..j : g[i] = IF i = 0 THEN c ELSE UpdateOne(g[i - 1])
    <3> SUFFICES ASSUME NEW i \in 0..j
                 PROVE  g[i] = IF i = 0 THEN c ELSE UpdateOne(g[i - 1])
      OBVIOUS
    <3>1. CASE i = j
      <4>1. j - 1 \in 0..j /\ j - 1 # j /\ j # 0 /\ j \in 0..j
        BY <2>1, <1>3
      <4>2. g[j - 1] = f[j - 1] /\ g[j] = UpdateOne(f[j - 1])
        BY <4>1
      <4> QED BY <3>1, <4>1, <4>2
    <3>2. CASE i # j
      <4>1. i \in 0..(j - 1) /\ g[i] = f[i]
        BY <2>1, <3>2
      <4>2. f[i] = IF i = 0 THEN c ELSE UpdateOne(f[i - 1])
        BY <2>2, <4>1 DEF Chain
      <4>3. i # 0 => g[i - 1] = f[i - 1]
        BY <2>1, <3>2
      <4> QED BY <4>1, <4>2, <4>3
    <3> QED BY <3>1, <3>2
  <2>4. g = [i \in 0..j |-> g[i]]
    OBVIOUS
  <2> HIDE DEF g
  <2>5. Chain(g, c, j)
    BY <2>3, <2>4 DEF Chain
  <2> QED BY <1>1, <2>5
<1> QED BY <1>2, <1>3

\* What holds of 0 and of the successors holds up to N.
LEMMA CountUp ==
  ASSUME NEW N \in Nat, NEW good, 0 \in good, \A n \in 1..N : n - 1 \in good => n \in good
  PROVE  \A n \in 0..N : n \in good
<1> DEFINE bad == {n \in 0..N : n \notin good}
<1> SUFFICES ASSUME bad # {} PROVE FALSE
  OBVIOUS
<1>1. PICK n \in bad : \A i \in bad : n <= i
  <2>1. bad \in SUBSET Nat
    OBVIOUS
  <2> HIDE DEF bad
  <2> QED BY <2>1, LeastNatural
<1>2. n \in 1..N /\ n - 1 \in 0..N /\ ~(n <= n - 1) /\ n \notin good
  BY <1>1
<1>3. n - 1 \in good
  BY <1>1, <1>2
<1> QED BY <1>2, <1>3

\* The calls that a call of _thread_update_priority leads to, in their order.
Most == Cardinality(Thread \X Prio)
CallsFrom(f, s0, t, p) == /\ f[0] = [s |-> s0, t |-> t, p |-> p]
                          /\ \A n \in 1..Most : f[n] = UpdateOne(f[n - 1])
                          /\ f[Most] = LastCall(s0, t, p)

LEMMA CallsLemma ==
  ASSUME NEW s0, NEW t, NEW p
  PROVE  /\ IsFiniteSet(Thread \X Prio) /\ Most \in Nat
         /\ \E f : CallsFrom(f, s0, t, p)
<1> DEFINE c == [s |-> s0, t |-> t, p |-> p]
           N == Most
           chain == CHOOSE f : Chain(f, c, N)
<1>1. IsFiniteSet(Thread \X Prio) /\ N \in Nat
  <2>1. IsFiniteSet(0..Lowest)
    <3>1. 0 \in Int /\ Lowest \in Int
      BY DEF Lowest
    <3> QED BY <3>1, FS_Interval
  <2>2. IsFiniteSet(Prio)
    BY <2>1, MutexAssumption, FS_Subset
  <2>3. IsFiniteSet(Thread \X Prio)
    BY <2>2, FS_Product
  <2> QED BY <2>3, FS_CardinalityType DEF Most
<1>2. LastCall(s0, t, p) = chain[N]
  BY DEF LastCall, Chain, Most
<1>3. \A n \in 0..N : chain[n] = IF n = 0 THEN c ELSE UpdateOne(chain[n - 1])
  <2>1. \E f : Chain(f, c, N)
    BY <1>1, ChainExists
  <2>2. Chain(chain, c, N)
    BY <2>1
  <2> HIDE DEF chain
  <2> QED BY <2>2 DEF Chain
<1> HIDE DEF chain, c
<1>4. chain[0] = c /\ \A n \in 1..N : chain[n] = UpdateOne(chain[n - 1])
  BY <1>1, <1>3
<1>5. CallsFrom(chain, s0, t, p)
  BY <1>2, <1>4 DEF CallsFrom, c
<1> QED BY <1>1, <1>5

\* _thread_update_priority: along the whole chain of owners, priorities and places
\* among the waiters change and nothing else.
LEMMA UpdatePriorityCalm ==
  ASSUME NEW s0, NEW C, NEW t \in Thread, NEW p \in Prio, Ordered(s0, C),
         SoundOwners(s0), Movable(s0, t)
  PROVE  Calm(UpdatePriority(s0, t, p), s0, C)
<1> DEFINE c == [s |-> s0, t |-> t, p |-> p]
           N == Most
<1>1. N \in Nat
  BY CallsLemma
<1>2. PICK f : CallsFrom(f, s0, t, p)
  BY CallsLemma
<1>3. Link(c, s0, C)
  <2>1. Calm(s0, s0, C)
    BY CalmSame
  <2>2. c.s = s0 /\ c.t = t /\ c.p = p
    OBVIOUS
  <2> HIDE DEF c
  <2> QED BY <2>1, <2>2 DEF Link
<1> HIDE DEF c
<1> DEFINE good == {n \in 0..N : Link(f[n], s0, C)}
<1>4. 0 \in good
  BY <1>1, <1>2, <1>3 DEF CallsFrom, c
<1>5. ASSUME NEW n \in 1..N, n - 1 \in good
      PROVE  n \in good
  <2>1. Link(f[n - 1], s0, C) /\ f[n] = UpdateOne(f[n - 1]) /\ n \in 0..N
    BY <1>1, <1>2, <1>5 DEF CallsFrom
  <2>2. Link(f[n], s0, C)
    BY <2>1, UpdateOneLink DEF Ordered
  <2> QED BY <2>1, <2>2
<1> HIDE DEF good
<1>6. N \in good
  <2>1. N \in 0..N
    BY <1>1
  <2> QED BY <1>1, <1>4, <1>5, <2>1, CountUp
<1>7. Link(LastCall(s0, t, p), s0, C)
  BY <1>2, <1>6 DEF good, CallsFrom
<1> QED BY <1>7 DEF Link, UpdatePriority

\* give the owner of m what is due to it
LEMMA UpdateOwnerCalm ==
  ASSUME NEW s0, NEW C, NEW m \in Mutex, Ordered(s0, C), SoundOwners(s0), s0.owner[m] # None
  PROVE  Calm(UpdateOwner(s0, m), s0, C)
<1> DEFINE o == s0.owner[m]
<1>1. o \in Thread /\ Movable(s0, o) /\ s0 \in MutexState
  BY StateFacts DEF Ordered, SoundOwners
<1>2. DuePrio(s0, o) \in Prio
  BY <1>1, DuePrioType
<1>3. UpdateOwner(s0, m) = IF DuePrio(s0, o) # s0.k.prio[o] THEN UpdatePriority(s0, o, DuePrio(s0, o))
                          ELSE s0
  BY DEF UpdateOwner
<1> HIDE DEF o
<1>4. Calm(UpdatePriority(s0, o, DuePrio(s0, o)), s0, C)
  BY <1>1, <1>2, UpdatePriorityCalm
<1> QED BY <1>3, <1>4, CalmSame

\* the end of a wait for m, whoever it was
LEMMA WithdrawCalm ==
  ASSUME NEW s0, NEW C, NEW m \in Mutex, NEW p, Ordered(s0, C), SoundOwners(s0), s0.owner[m] # None
  PROVE  Calm(Withdraw(s0, m, p), s0, C)
<1> DEFINE r == Refresh(s0, m)
<1>1. Calm(r, s0, C) /\ r.k = s0.k
  BY RefreshCalm
<1>2. Withdraw(s0, m, p) = IF p = s0.k.prio[s0.owner[m]] THEN UpdateOwner(r, m) ELSE r
  BY DEF Withdraw
<1> HIDE DEF r
<1>3. Ordered(r, C) /\ SoundOwners(r) /\ r.owner[m] # None
  BY <1>1, CalmSound DEF Calm, Ordered, SameOwners
<1>4. Calm(UpdateOwner(r, m), r, C)
  BY <1>3, UpdateOwnerCalm
<1>5. Calm(UpdateOwner(r, m), s0, C)
  BY <1>1, <1>4, CalmThen
<1> QED BY <1>1, <1>2, <1>5

\* the owner takes back the priority it has without m
LEMMA RestoreCalm ==
  ASSUME NEW s0, NEW C, NEW t \in Thread, NEW m \in Mutex, Ordered(s0, C)
  PROVE  Calm(Restore(s0, t, m), s0, C)
<1> DEFINE p == DuePrio(s0, t)
           k1 == ChangePriority(s0.k, t, p)
           r == [s0 EXCEPT !.k = k1]
<1>1. s0 \in MutexState /\ p \in Prio /\ InOrder(s0.k, C)
  BY DuePrioType DEF Ordered
<1>3. Restore(s0, t, m) = r \/ Restore(s0, t, m) = s0
  BY DEF Restore
<1> HIDE DEF p
<1>2. InOrder(k1, C) /\ Keeps(k1, s0.k) /\ k1.cur = s0.k.cur
  BY <1>1, ChangePriorityOrderly
<1> HIDE DEF k1
<1>4. Calm(r, s0, C)
  BY <1>1, <1>2, KernelCalm
<1> QED BY <1>3, <1>4, CalmSame

\* rt_mutex_setprioceiling
LEMMA SetCeilingCalm ==
  ASSUME NEW s0, NEW C, NEW m \in Mutex, NEW c \in Prio, Ordered(s0, C), SoundOwners(s0)
  PROVE  Calm(SetCeiling(s0, m, c), s0, C)
<1> DEFINE r == [s0 EXCEPT !.ceiling[m] = c]
<1>1. SetCeiling(s0, m, c) = IF s0.owner[m] # None THEN UpdateOwner(r, m) ELSE r
  BY DEF SetCeiling
<1>2. /\ r \in MutexState /\ r.k = s0.k /\ r.owner = s0.owner /\ r.hold = s0.hold
      /\ r.taken = s0.taken /\ r.pending = s0.pending
  BY DEF Ordered, MutexState
<1> HIDE DEF r
<1>3. Calm(r, s0, C)
  BY <1>2 DEF Calm, SameOwners, Ordered, Keeps, Awakened
<1>4. Ordered(r, C) /\ SoundOwners(r) /\ r.owner[m] = s0.owner[m]
  BY <1>2, <1>3, CalmSound DEF Ordered, Calm
<1>5. CASE s0.owner[m] # None
  <2>1. Calm(UpdateOwner(r, m), r, C)
    BY <1>4, <1>5, UpdateOwnerCalm
  <2> QED BY <1>1, <1>3, <1>5, <2>1, CalmThen
<1> QED BY <1>1, <1>3, <1>5

-----------------------------------------------------------------------------
(* A mutex changes hands *)

\* In the step from s to n the owner of m becomes o, its hold h; the list of every
\* thread is brought up to date, and u is no longer marked as waiting for m.
Given(n, s0, m, o, h) ==
  /\ \A x \in Mutex : /\ n.owner[x] = IF x = m THEN o ELSE s0.owner[x]
                      /\ n.hold[x] = IF x = m THEN h ELSE s0.hold[x]
  /\ \A u \in Thread, x \in Mutex :
       x \in n.taken[u] <=> IF x = m THEN u = o ELSE x \in s0.taken[u]

\* t gets a free mutex
LEMMA GrabLemma ==
  ASSUME NEW s0, NEW C, NEW t \in Thread, NEW m \in Mutex, Ordered(s0, C), SoundOwners(s0),
         ~Suspended(s0.k, t), \A u \in Thread : m \notin s0.taken[u]
  PROVE  LET n == Grab(s0, t, m)
         IN /\ n \in MutexState /\ InOrder(n.k, C) /\ n.k.cur = s0.k.cur
            /\ Given(n, s0, m, t, 1) /\ n.pending = s0.pending
            /\ \A o \in WaitObj : ToSet(n.k.wait[o]) = ToSet(s0.k.wait[o])
            /\ \A x \in Thread : Suspended(n.k, x) <=> Suspended(s0.k, x)
            /\ \A x \in Thread : n.k.error[x] = IF x = t THEN "EOK" ELSE s0.k.error[x]
            /\ n.k.timer \subseteq s0.k.timer
<1> DEFINE k1 == SetError(s0.k, t, "EOK")
           b == [s0 EXCEPT !.owner[m] = t, !.urgency[m] = Lowest, !.hold[m] = 1]
           g == [b EXCEPT !.k = k1]
           u == IF s0.ceiling[m] < s0.k.prio[t] THEN UpdatePriority(g, t, s0.ceiling[m]) ELSE g
           n == [u EXCEPT !.taken[t] = @ \cup {m}]
<1>1. /\ s0 \in MutexState /\ InOrder(s0.k, C) /\ "EOK" \in Error /\ s0.k \in Kernel
      /\ 1 \in 0..HoldMax /\ t \in Thread \cup {None} /\ Lowest \in Prio \cup {Lowest}
  BY StateFacts, MutexAssumption DEF Ordered, Error
<1>2. /\ b \in MutexState /\ b.k = s0.k /\ b.taken = s0.taken /\ b.pending = s0.pending
      /\ b.ceiling = s0.ceiling
      /\ \A x \in Mutex : /\ b.owner[x] = IF x = m THEN t ELSE s0.owner[x]
                          /\ b.hold[x] = IF x = m THEN 1 ELSE s0.hold[x]
  BY <1>1 DEF MutexState
<1>3. Grab(s0, t, m) = n
  <2>1. Grab(s0, t, m) =
          LET d == [b EXCEPT !.k = SetError(b.k, t, "EOK")]
              v == IF s0.ceiling[m] < s0.k.prio[t] THEN UpdatePriority(d, t, s0.ceiling[m])
                   ELSE d
          IN [v EXCEPT !.taken[t] = @ \cup {m}]
    BY DEF Grab, SetError
  <2> QED BY <1>2, <2>1
<1>4. /\ InOrder(k1, C) /\ k1.cur = s0.k.cur /\ k1.stat = s0.k.stat /\ k1.wait = s0.k.wait
      /\ k1.timer = s0.k.timer
      /\ \A x \in Thread : k1.error[x] = IF x = t THEN "EOK" ELSE s0.k.error[x]
  BY <1>1, ErrorOrderly
<1> HIDE DEF k1, b
<1>5. k1 \in Kernel
  BY <1>4, OrderlyFacts
<1>6. /\ g \in MutexState /\ g.k = k1 /\ g.taken = s0.taken /\ g.pending = s0.pending
      /\ g.ceiling = s0.ceiling
      /\ \A x \in Mutex : /\ g.owner[x] = IF x = m THEN t ELSE s0.owner[x]
                          /\ g.hold[x] = IF x = m THEN 1 ELSE s0.hold[x]
  BY <1>2, <1>5 DEF MutexState
<1> HIDE DEF g
<1>7. Ordered(g, C) /\ Movable(g, t) /\ SoundOwners(g)
  <2>1. \A x \in Thread : Movable(s0, x) => Movable(g, x)
    BY <1>4, <1>6 DEF Movable, Suspended, Waits
  <2>2. Movable(g, t)
    BY <1>4, <1>6 DEF Movable, Suspended
  <2>3. \A x \in Mutex : s0.owner[x] \in Thread \cup {None}
    BY <1>1, StateFacts
  <2> QED BY <1>4, <1>6, <2>1, <2>2, <2>3 DEF SoundOwners, Ordered
<1>8. Calm(u, g, C)
  <2>1. CASE s0.ceiling[m] < s0.k.prio[t]
    <3>1. s0.ceiling[m] \in Prio \cup {Lowest} /\ s0.k.prio[t] \in Prio
      BY <1>1, StateFacts
    <3>2. s0.ceiling[m] \in Prio
      BY <2>1, <3>1, MutexAssumption DEF Lowest
    <3>3. u = UpdatePriority(g, t, s0.ceiling[m])
      BY <2>1
    <3> HIDE DEF u
    <3> QED BY <1>7, <3>2, <3>3, UpdatePriorityCalm
  <2>2. CASE ~(s0.ceiling[m] < s0.k.prio[t])
    BY <1>7, <2>2, CalmSame
  <2> QED BY <2>1, <2>2
<1> HIDE DEF u
<1>9. u \in MutexState /\ SameOwners(u, g)
  BY <1>8 DEF Calm
<1>10. /\ n \in MutexState /\ n.k = u.k /\ n.owner = u.owner /\ n.hold = u.hold
       /\ n.pending = u.pending
       /\ \A x \in Thread, y \in Mutex :
            y \in n.taken[x] <=> y \in u.taken[x] \/ (x = t /\ y = m)
  BY <1>9 DEF MutexState
<1> HIDE DEF n
<1>11. Given(n, s0, m, t, 1)
  BY <1>6, <1>9, <1>10 DEF Given, SameOwners
<1>12. /\ \A o \in WaitObj : ToSet(n.k.wait[o]) = ToSet(s0.k.wait[o])
       /\ \A x \in Thread : Suspended(n.k, x) <=> Suspended(s0.k, x)
       /\ \A x \in Thread : n.k.error[x] = IF x = t THEN "EOK" ELSE s0.k.error[x]
       /\ n.k.timer \subseteq s0.k.timer /\ n.k.cur = s0.k.cur /\ InOrder(n.k, C)
  BY <1>4, <1>6, <1>8, <1>10 DEF Calm, Keeps, Awakened, Suspended
<1> QED BY <1>3, <1>6, <1>9, <1>10, <1>11, <1>12 DEF SameOwners

\* In the step from s0 to n the thread t, which runs, starts to wait for m.
JoinedBy(n, s0, t, m, timed, C) ==
  /\ n \in MutexState /\ InOrder(n.k, C) /\ n.k.cur = t
  /\ Sleeps(n.k, s0.k, t, m, "EOK")
  /\ ~timed => n.k.timer \subseteq s0.k.timer
  /\ n.owner = s0.owner /\ n.hold = s0.hold /\ n.taken = s0.taken
  /\ \A x \in Thread : n.pending[x] = IF x = t THEN m ELSE s0.pending[x]

\* t starts to wait for m and lends its priority to the owner
LEMMA JoinLemma ==
  ASSUME NEW s0, NEW C, NEW t, NEW m \in Mutex, NEW timed, Ordered(s0, C), SoundOwners(s0),
         t = s0.k.cur, ~Suspended(s0.k, t), t # Idle, s0.owner[m] # None
  PROVE  JoinedBy(Join(s0, t, m, timed), s0, t, m, timed, C)
<1> DEFINE p == s0.k.prio[t]
           v == Min({s0.urgency[m], p})
           k1 == SuspendFor([s0.k EXCEPT !.error[t] = "EOK"], m, FALSE)
           j == [s0 EXCEPT !.k = k1, !.pending[t] = m, !.urgency[m] = v]
           o == s0.owner[m]
           u == IF p < s0.urgency[m] /\ p < s0.k.prio[o] THEN UpdatePriority(j, o, p) ELSE j
           n == IF timed THEN [u EXCEPT !.k = StartTimer(u.k, t)] ELSE u
<1>1. /\ s0 \in MutexState /\ InOrder(s0.k, C) /\ t \in Thread /\ m \in WaitObj
      /\ p \in Prio /\ o \in Thread /\ "EOK" \in Error
  BY StateFacts DEF Ordered, Error
<1>2. Join(s0, t, m, timed) = n
  BY DEF Join, SuspendFor
<1>3. v \in Prio \cup {Lowest}
  <2>1. v \in Prio
    BY <1>1, StateFacts, LeastPrio
  <2> QED BY <2>1
<1> HIDE DEF v, o, p
<1>4. /\ InOrder(k1, C) /\ k1.cur = t /\ Sleeps(k1, s0.k, t, m, "EOK")
      /\ ~FALSE => k1.timer \subseteq s0.k.timer
  <2> DEFINE k0 == s0.k
  <2>1. /\ InOrder(k0, C) /\ t = k0.cur /\ ~Suspended(k0, t) /\ t # Idle
        /\ m \in WaitObj /\ "EOK" \in Error
    BY <1>1
  <2> HIDE DEF k0
  <2> DEFINE timeout == FALSE
  <2>2. k1 = SleepFor(k0, t, m, "EOK", timeout)
    BY DEF k0, SleepFor
  <2> HIDE DEF k1, timeout
  <2>3. /\ InOrder(k1, C) /\ k1.cur = t /\ Sleeps(k1, k0, t, m, "EOK")
        /\ ~timeout => k1.timer \subseteq k0.timer
    BY <2>1, <2>2, BlockOrderly
  <2> QED BY <2>3 DEF k0, timeout
<1> HIDE DEF k1
<1>5. k1 \in Kernel
  BY <1>4, OrderlyFacts
<1>6. /\ j \in MutexState /\ j.k = k1 /\ j.owner = s0.owner /\ j.hold = s0.hold
      /\ j.taken = s0.taken
      /\ \A x \in Thread : j.pending[x] = IF x = t THEN m ELSE s0.pending[x]
  BY <1>1, <1>3, <1>5 DEF MutexState
<1> HIDE DEF j
<1>7. \A x \in Thread : Movable(s0, x) => Movable(j, x)
  <2> TAKE x \in Thread
  <2>1. \A q \in WaitObj : ToSet(k1.wait[q]) = IF q = m THEN ToSet(s0.k.wait[q]) \cup {t}
                                                       ELSE ToSet(s0.k.wait[q])
    BY <1>4 DEF Sleeps
  <2>2. Waits(j.k, t, m) /\ \A q \in WaitObj : Waits(s0.k, x, q) => Waits(j.k, x, q)
    BY <1>1, <1>6, <2>1 DEF Waits
  <2>3. CASE x = t
    BY <1>6, <2>2, <2>3 DEF Movable
  <2>4. CASE x # t
    <3>1. j.pending[x] = s0.pending[x] /\ (Suspended(j.k, x) <=> Suspended(s0.k, x))
      BY <1>4, <1>6, <2>4 DEF Sleeps
    <3>2. s0.pending[x] # None => s0.pending[x] \in WaitObj
      BY <1>1, StateFacts
    <3> QED BY <2>2, <3>1, <3>2 DEF Movable
  <2> QED BY <2>3, <2>4
<1>8. Ordered(j, C) /\ SoundOwners(j) /\ Movable(j, o)
  <2>1. \A x \in Mutex : s0.owner[x] # None => s0.owner[x] \in Thread /\ Movable(s0, s0.owner[x])
    BY <1>1, StateFacts DEF SoundOwners
  <2>2. SoundOwners(j)
    BY <1>6, <1>7, <2>1 DEF SoundOwners
  <2> QED BY <1>4, <1>6, <1>7, <2>1, <2>2 DEF Ordered, o
<1>9. Calm(u, j, C)
  <2>1. Calm(UpdatePriority(j, o, p), j, C)
    BY <1>1, <1>8, UpdatePriorityCalm
  <2> QED BY <1>8, <2>1, CalmSame
<1> HIDE DEF u
<1>10. /\ u \in MutexState /\ InOrder(u.k, C) /\ u.k.cur = t
       /\ u.owner = s0.owner /\ u.hold = s0.hold /\ u.taken = s0.taken
       /\ \A x \in Thread : u.pending[x] = IF x = t THEN m ELSE s0.pending[x]
       /\ u.k.timer \subseteq s0.k.timer
  BY <1>4, <1>6, <1>9 DEF Calm, SameOwners, Keeps, Awakened
<1>11. Sleeps(u.k, s0.k, t, m, "EOK")
  BY <1>4, <1>6, <1>9, <1>10 DEF Calm, Keeps, Awakened, Sleeps
<1>12. CASE ~timed
  BY <1>2, <1>10, <1>11, <1>12 DEF JoinedBy
<1>13. CASE timed
  <2> DEFINE k2 == StartTimer(u.k, t)
             w == [u EXCEPT !.k = k2]
  <2>1. Suspended(u.k, t)
    BY <1>1, <1>11 DEF Sleeps
  <2>2. /\ InOrder(k2, C) /\ k2.cur = u.k.cur /\ k2.stat = u.k.stat /\ k2.wait = u.k.wait
        /\ k2.error = u.k.error
        /\ \A x \in k2.timer : x \in u.k.timer \/ x = t
    BY <1>1, <1>10, <2>1, StartTimerOrderly
  <2>3. n = w
    BY <1>13
  <2> HIDE DEF k2, n
  <2>4. k2 \in Kernel
    BY <2>2, OrderlyFacts
  <2>5. /\ w \in MutexState /\ w.k = k2 /\ w.owner = u.owner /\ w.hold = u.hold
        /\ w.taken = u.taken /\ w.pending = u.pending
    BY <1>10, <2>4 DEF MutexState
  <2> HIDE DEF w
  <2>6. Sleeps(k2, s0.k, t, m, "EOK")
    BY <1>10, <1>11, <2>2 DEF Sleeps, Suspended
  <2>7. /\ n \in MutexState /\ InOrder(n.k, C) /\ n.k.cur = t
        /\ Sleeps(n.k, s0.k, t, m, "EOK")
        /\ n.owner = s0.owner /\ n.hold = s0.hold /\ n.taken = s0.taken
        /\ \A x \in Thread : n.pending[x] = IF x = t THEN m ELSE s0.pending[x]
    BY <1>10, <2>2, <2>3, <2>5, <2>6
  <2> QED BY <1>2, <1>13, <2>7 DEF JoinedBy
<1> QED BY <1>12, <1>13

\* the mutex m, taken from its owner's list, goes to the waiter u
LEMMA HandToLemma ==
  ASSUME NEW s0, NEW C, NEW u \in Thread, NEW m \in Mutex, Ordered(s0, C),
         Waits(s0.k, u, m), \A x \in Thread : m \notin s0.taken[x]
  PROVE  LET n == HandTo(s0, u, m)
         IN /\ n \in MutexState /\ InOrder(n.k, C) /\ n.k.cur = s0.k.cur
            /\ Given(n, s0, m, u, 1)
            /\ \A x \in Thread : n.pending[x] = IF x = u THEN None ELSE s0.pending[x]
            /\ Awakened(n.k, s0.k, {u}, s0.k.error[u])
<1> DEFINE k1 == Resume(ListRemove(s0.k, u), u)
           a == [s0 EXCEPT !.owner[m] = u, !.hold[m] = 1]
           h == [a EXCEPT !.taken[u] = @ \cup {m}, !.pending[u] = None, !.k = k1]
           n == Refresh(h, m)
<1>1. /\ s0 \in MutexState /\ InOrder(s0.k, C) /\ m \in WaitObj /\ Suspended(s0.k, u)
      /\ 1 \in 0..HoldMax
  <2>1. s0 \in MutexState /\ InOrder(s0.k, C) /\ m \in WaitObj /\ 1 \in 0..HoldMax
    BY StateFacts, MutexAssumption DEF Ordered
  <2> QED BY <2>1, OrderlyFacts DEF Waits, Suspended
<1>2. HandTo(s0, u, m) = n
  BY <1>1 DEF HandTo, MutexState
<1>3. InOrder(k1, C) /\ Awakened(k1, s0.k, {u}, s0.k.error[u]) /\ k1.cur = s0.k.cur
  BY <1>1, PickOrderly
<1> HIDE DEF k1
<1>4. k1 \in Kernel
  BY <1>3, OrderlyFacts
<1>5. /\ a \in MutexState /\ a.taken = s0.taken /\ a.pending = s0.pending
      /\ \A x \in Mutex : /\ a.owner[x] = IF x = m THEN u ELSE s0.owner[x]
                          /\ a.hold[x] = IF x = m THEN 1 ELSE s0.hold[x]
  BY <1>1 DEF MutexState
<1> HIDE DEF a
<1>6. /\ h \in MutexState /\ h.k = k1 /\ h.owner = a.owner /\ h.hold = a.hold
      /\ \A x \in Thread, y \in Mutex :
           y \in h.taken[x] <=> y \in a.taken[x] \/ (x = u /\ y = m)
      /\ \A x \in Thread : h.pending[x] = IF x = u THEN None ELSE a.pending[x]
  BY <1>4, <1>5 DEF MutexState
<1> HIDE DEF h
<1>7. Calm(n, h, C) /\ n.k = h.k
  <2>1. Ordered(h, C)
    BY <1>3, <1>6 DEF Ordered
  <2> QED BY <2>1, RefreshCalm
<1> HIDE DEF n
<1>8. Given(n, s0, m, u, 1)
  BY <1>5, <1>6, <1>7 DEF Given, Calm, SameOwners
<1>9. /\ \A x \in Thread : n.pending[x] = IF x = u THEN None ELSE s0.pending[x]
      /\ n \in MutexState
  BY <1>5, <1>6, <1>7 DEF Calm, SameOwners
<1> QED BY <1>2, <1>3, <1>6, <1>7, <1>8, <1>9

\* The three ends of rt_mutex_release: one level less, a hand-over, a free mutex.
LEMMA ReleaseLevel ==
  ASSUME NEW s0, NEW C, NEW t \in Thread, NEW m \in Mutex, Ordered(s0, C), s0.hold[m] > 1
  PROVE  LET n == Release(s0, t, m)
         IN /\ n \in MutexState /\ n.k = s0.k /\ n.owner = s0.owner /\ n.taken = s0.taken
            /\ n.pending = s0.pending
            /\ \A x \in Mutex : n.hold[x] = IF x = m THEN s0.hold[m] - 1 ELSE s0.hold[x]
<1> DEFINE d == [s0 EXCEPT !.hold[m] = @ - 1]
<1>1. s0 \in MutexState /\ s0.hold[m] \in 0..HoldMax /\ HoldMax \in Nat
  BY StateFacts, MutexAssumption DEF Ordered
<1>2. s0.hold[m] - 1 \in 0..HoldMax /\ s0.hold[m] - 1 > 0
  BY <1>1
<1>3. /\ d \in MutexState /\ d.k = s0.k /\ d.owner = s0.owner /\ d.taken = s0.taken
      /\ d.pending = s0.pending
      /\ \A x \in Mutex : d.hold[x] = IF x = m THEN s0.hold[m] - 1 ELSE s0.hold[x]
  BY <1>1, <1>2 DEF MutexState
<1>4. Release(s0, t, m) = IF d.hold[m] > 0 THEN d ELSE Release(s0, t, m)
  BY DEF Release
<1> HIDE DEF d
<1>5. Release(s0, t, m) = d
  BY <1>2, <1>3, <1>4
<1> QED BY <1>3, <1>5

\* what rt_mutex_release has done before it looks at the waiters
LetGo(q, s0, m, C) ==
  /\ q \in MutexState /\ InOrder(q.k, C) /\ q.k.cur = s0.k.cur
  /\ Keeps(q.k, s0.k) /\ q.owner = s0.owner /\ q.pending = s0.pending
  /\ \A x \in Mutex : q.hold[x] = IF x = m THEN 0 ELSE s0.hold[x]
  /\ \A x \in Thread, y \in Mutex : y \in q.taken[x] <=> y # m /\ y \in s0.taken[x]

Unowned(q, m) == [q EXCEPT !.owner[m] = None, !.urgency[m] = Lowest]

LEMMA ReleaseLast ==
  ASSUME NEW s0, NEW C, NEW t \in Thread, NEW m \in Mutex, Ordered(s0, C), s0.hold[m] = 1,
         \A x \in Thread : m \in s0.taken[x] => x = t
  PROVE  \E q : /\ LetGo(q, s0, m, C)
                /\ Release(s0, t, m) = IF HasWaiter(q.k, m)
                                        THEN HandTo(q, Head(q.k.wait[m]), m)
                                        ELSE Unowned(q, m)
<1> DEFINE d == [s0 EXCEPT !.hold[m] = @ - 1]
           e == [d EXCEPT !.taken[t] = @ \ {m}]
           q == Restore(e, t, m)
<1>1. s0 \in MutexState /\ InOrder(s0.k, C) /\ s0.hold[m] - 1 = 0 /\ 0 \in 0..HoldMax
  BY MutexAssumption DEF Ordered
<1>2. /\ d \in MutexState /\ d.k = s0.k /\ d.owner = s0.owner /\ d.taken = s0.taken
      /\ d.pending = s0.pending
      /\ \A x \in Mutex : d.hold[x] = IF x = m THEN 0 ELSE s0.hold[x]
  BY <1>1 DEF MutexState
<1>3. Release(s0, t, m) =
        IF d.hold[m] > 0 THEN d
        ELSE IF HasWaiter(q.k, m) THEN HandTo(q, Head(q.k.wait[m]), m)
        ELSE Unowned(q, m)
  BY DEF Release, Unowned
<1> HIDE DEF d
<1>4. /\ e \in MutexState /\ e.k = d.k /\ e.owner = d.owner /\ e.hold = d.hold
      /\ e.pending = d.pending
      /\ \A x \in Thread, y \in Mutex :
           y \in e.taken[x] <=> y \in d.taken[x] /\ ~(x = t /\ y = m)
  BY <1>2 DEF MutexState
<1> HIDE DEF e
<1>5. Calm(q, e, C)
  <2>1. Ordered(e, C)
    BY <1>1, <1>2, <1>4 DEF Ordered
  <2> QED BY <2>1, RestoreCalm
<1> HIDE DEF q
<1>6. /\ q \in MutexState /\ InOrder(q.k, C) /\ q.k.cur = s0.k.cur
      /\ Keeps(q.k, s0.k) /\ q.owner = s0.owner /\ q.pending = s0.pending
      /\ \A x \in Mutex : q.hold[x] = IF x = m THEN 0 ELSE s0.hold[x]
  BY <1>2, <1>4, <1>5 DEF Calm, SameOwners
<1>7. \A x \in Thread, y \in Mutex : y \in q.taken[x] <=> y # m /\ y \in s0.taken[x]
  BY <1>2, <1>4, <1>5 DEF Calm, SameOwners
<1>8. Release(s0, t, m) =
        IF HasWaiter(q.k, m) THEN HandTo(q, Head(q.k.wait[m]), m) ELSE Unowned(q, m)
  BY <1>2, <1>3
<1>9. LetGo(q, s0, m, C)
  BY <1>6, <1>7 DEF LetGo
<1> QED BY <1>8, <1>9

LEMMA WaiterKept ==
  ASSUME NEW k, NEW n, NEW C, NEW o \in WaitObj, InOrder(k, C), InOrder(n, C), Keeps(n, k)
  PROVE  HasWaiter(n, o) <=> HasWaiter(k, o)
<1>1. HasWaiter(k, o) <=> ToSet(k.wait[o]) # {}
  BY OrderlyFacts
<1>2. HasWaiter(n, o) <=> ToSet(n.wait[o]) # {}
  BY OrderlyFacts
<1>3. ToSet(n.wait[o]) = ToSet(k.wait[o])
  BY DEF Keeps, Awakened
<1> QED BY <1>1, <1>2, <1>3

\* In the step from s0 to n the waiter u becomes the owner of m.
HandedOver(n, s0, m, u, C) ==
  /\ Waits(s0.k, u, m)
  /\ n \in MutexState /\ InOrder(n.k, C) /\ n.k.cur = s0.k.cur
  /\ Given(n, s0, m, u, 1)
  /\ \A x \in Thread : n.pending[x] = IF x = u THEN None ELSE s0.pending[x]
  /\ Awakened(n.k, s0.k, {u}, s0.k.error[u])

LEMMA ReleaseHandsOver ==
  ASSUME NEW s0, NEW C, NEW t \in Thread, NEW m \in Mutex, Ordered(s0, C), s0.hold[m] = 1,
         \A x \in Thread : m \in s0.taken[x] => x = t, HasWaiter(s0.k, m)
  PROVE  \E u \in Thread : HandedOver(Release(s0, t, m), s0, m, u, C)
<1> DEFINE n == Release(s0, t, m)
<1>0. m \in WaitObj /\ InOrder(s0.k, C)
  BY StateFacts DEF Ordered
<1>1. PICK q : /\ LetGo(q, s0, m, C)
               /\ n = IF HasWaiter(q.k, m) THEN HandTo(q, Head(q.k.wait[m]), m)
                      ELSE Unowned(q, m)
  BY ReleaseLast
<1>11. /\ q \in MutexState /\ InOrder(q.k, C) /\ q.k.cur = s0.k.cur
       /\ Keeps(q.k, s0.k) /\ q.owner = s0.owner /\ q.pending = s0.pending
       /\ \A x \in Mutex : q.hold[x] = IF x = m THEN 0 ELSE s0.hold[x]
       /\ \A x \in Thread, y \in Mutex : y \in q.taken[x] <=> y # m /\ y \in s0.taken[x]
  BY <1>1 DEF LetGo
<1> DEFINE u == Head(q.k.wait[m])
<1>2. HasWaiter(q.k, m) /\ u \in Thread /\ Waits(q.k, u, m) /\ Waits(s0.k, u, m)
  <2>1. /\ HasWaiter(s0.k, m) <=> ToSet(s0.k.wait[m]) # {}
        /\ HasWaiter(q.k, m) <=> ToSet(q.k.wait[m]) # {}
        /\ HasWaiter(q.k, m) => Head(q.k.wait[m]) \in ToSet(q.k.wait[m])
        /\ ToSet(q.k.wait[m]) \subseteq Thread
    BY <1>0, <1>11, OrderlyFacts
  <2>2. ToSet(q.k.wait[m]) = ToSet(s0.k.wait[m])
    BY <1>0, <1>11 DEF Keeps, Awakened
  <2> QED BY <2>1, <2>2 DEF Waits
<1>3. n = HandTo(q, u, m)
  BY <1>1, <1>2
<1> HIDE DEF u, n
<1>4. LET h == HandTo(q, u, m)
      IN /\ h \in MutexState /\ InOrder(h.k, C) /\ h.k.cur = q.k.cur
         /\ Given(h, q, m, u, 1)
         /\ \A x \in Thread : h.pending[x] = IF x = u THEN None ELSE q.pending[x]
         /\ Awakened(h.k, q.k, {u}, q.k.error[u])
  <2>1. Ordered(q, C) /\ \A x \in Thread : m \notin q.taken[x]
    BY <1>11 DEF Ordered
  <2> QED BY <1>2, <2>1, HandToLemma
<1>5. /\ n \in MutexState /\ InOrder(n.k, C) /\ n.k.cur = s0.k.cur
      /\ \A x \in Thread : n.pending[x] = IF x = u THEN None ELSE s0.pending[x]
  BY <1>3, <1>4, <1>11
<1>6. Given(n, s0, m, u, 1)
  <2>1. Given(n, q, m, u, 1)
    BY <1>3, <1>4
  <2> HIDE DEF n
  <2> QED BY <2>1, <1>11 DEF Given
<1>7. Awakened(n.k, s0.k, {u}, s0.k.error[u])
  <2>1. Awakened(n.k, q.k, {u}, q.k.error[u])
    BY <1>3, <1>4
  <2> QED BY <2>1, <1>2, <1>11 DEF Keeps, Awakened
<1> QED BY <1>2, <1>5, <1>6, <1>7 DEF n, HandedOver

LEMMA ReleaseFrees ==
  ASSUME NEW s0, NEW C, NEW t \in Thread, NEW m \in Mutex, Ordered(s0, C), s0.hold[m] = 1,
         \A x \in Thread : m \in s0.taken[x] => x = t, ~HasWaiter(s0.k, m)
  PROVE  LET n == Release(s0, t, m)
         IN /\ n \in MutexState /\ InOrder(n.k, C) /\ n.k.cur = s0.k.cur
            /\ Given(n, s0, m, None, 0) /\ n.pending = s0.pending
            /\ Keeps(n.k, s0.k)
<1> DEFINE n == Release(s0, t, m)
<1>0. m \in WaitObj /\ InOrder(s0.k, C)
  BY StateFacts DEF Ordered
<1>1. PICK q : /\ LetGo(q, s0, m, C)
               /\ n = IF HasWaiter(q.k, m) THEN HandTo(q, Head(q.k.wait[m]), m)
                      ELSE Unowned(q, m)
  BY ReleaseLast
<1>11. /\ q \in MutexState /\ InOrder(q.k, C) /\ q.k.cur = s0.k.cur
       /\ Keeps(q.k, s0.k) /\ q.owner = s0.owner /\ q.pending = s0.pending
       /\ \A x \in Mutex : q.hold[x] = IF x = m THEN 0 ELSE s0.hold[x]
       /\ \A x \in Thread, y \in Mutex : y \in q.taken[x] <=> y # m /\ y \in s0.taken[x]
  BY <1>1 DEF LetGo
<1>2. ~HasWaiter(q.k, m)
  <2> DEFINE k0 == s0.k
             k1 == q.k
  <2>1. InOrder(k0, C) /\ InOrder(k1, C) /\ Keeps(k1, k0) /\ ~HasWaiter(k0, m)
    BY <1>0, <1>11
  <2> HIDE DEF k0, k1
  <2>2. ~HasWaiter(k1, m)
    BY <1>0, <2>1, WaiterKept
  <2> QED BY <2>2 DEF k1
<1> HIDE DEF n
<1>3. n = [[q EXCEPT !.owner[m] = None] EXCEPT !.urgency[m] = Lowest]
  BY <1>1, <1>2 DEF Unowned
<1> DEFINE a == [q EXCEPT !.owner[m] = None]
<1>31. /\ a \in MutexState /\ a.k = q.k /\ a.hold = q.hold /\ a.pending = q.pending
       /\ a.taken = q.taken
       /\ \A x \in Mutex : a.owner[x] = IF x = m THEN None ELSE q.owner[x]
  BY <1>11 DEF MutexState
<1>32. n = [a EXCEPT !.urgency[m] = Lowest]
  BY <1>3
<1> HIDE DEF a
<1>4. /\ n \in MutexState /\ n.k = q.k /\ n.hold = q.hold /\ n.pending = q.pending
      /\ n.taken = q.taken
      /\ \A x \in Mutex : n.owner[x] = IF x = m THEN None ELSE q.owner[x]
  BY <1>31, <1>32 DEF MutexState
<1>5. \A x \in Thread : x # None
  BY MutexAssumption
<1>6. Given(n, s0, m, None, 0)
  BY <1>4, <1>5, <1>11 DEF Given
<1> QED BY <1>4, <1>6, <1>11 DEF n

\* rt_mutex_detach: the waiters fail, and no thread has m on its list any more.
LEMMA DetachLemma ==
  ASSUME NEW s0, NEW C, NEW m \in Mutex, Ordered(s0, C)
  PROVE  LET n == DetachMutex(s0, m)
         IN /\ n \in MutexState /\ InOrder(n.k, C) /\ n.k.cur = s0.k.cur
            /\ n.owner = s0.owner /\ n.hold = s0.hold /\ n.pending = s0.pending
            /\ \A x \in Thread, y \in Mutex : y \in n.taken[x] <=> y # m /\ y \in s0.taken[x]
            /\ Awakened(n.k, s0.k, ToSet(s0.k.wait[m]), "ERROR")
<1> DEFINE k1 == ResumeAll(s0.k, m)
           T == [t \in Thread |-> s0.taken[t] \ {m}]
           n == [s0 EXCEPT !.k = k1, !.taken = T]
<1>1. s0 \in MutexState /\ InOrder(s0.k, C) /\ m \in WaitObj
  BY StateFacts DEF Ordered
<1>2. DetachMutex(s0, m) = n
  BY DEF DetachMutex
<1>3. InOrder(k1, C) /\ Awakened(k1, s0.k, ToSet(s0.k.wait[m]), "ERROR") /\ k1.cur = s0.k.cur
  BY <1>1, ResumeAllOrderly
<1> HIDE DEF k1
<1>4. k1 \in Kernel
  BY <1>3, OrderlyFacts
<1>5. T \in [Thread -> SUBSET Mutex]
  BY <1>1, StateFacts
<1>51. \A x \in Thread, y \in Mutex : y \in T[x] <=> y # m /\ y \in s0.taken[x]
  OBVIOUS
<1> HIDE DEF T
<1>6. /\ n \in MutexState /\ n.k = k1 /\ n.owner = s0.owner /\ n.hold = s0.hold
      /\ n.pending = s0.pending /\ n.taken = T
  BY <1>1, <1>4, <1>5 DEF MutexState
<1> HIDE DEF n
<1> QED BY <1>2, <1>3, <1>51, <1>6

\* rt_mutex_init
LEMMA InitMutexLemma ==
  ASSUME NEW s0, NEW C, NEW m \in Mutex, Ordered(s0, C)
  PROVE  LET n == InitMutex(s0, m)
         IN /\ n \in MutexState /\ n.k = s0.k /\ n.taken = s0.taken /\ n.pending = s0.pending
            /\ \A x \in Mutex : /\ n.owner[x] = IF x = m THEN None ELSE s0.owner[x]
                                /\ n.hold[x] = IF x = m THEN 0 ELSE s0.hold[x]
<1> DEFINE a == [s0 EXCEPT !.owner[m] = None, !.hold[m] = 0]
           n == [a EXCEPT !.urgency[m] = Lowest, !.ceiling[m] = Lowest]
<1>1. s0 \in MutexState /\ 0 \in 0..HoldMax
  BY MutexAssumption DEF Ordered
<1>2. /\ a \in MutexState /\ a.k = s0.k /\ a.taken = s0.taken /\ a.pending = s0.pending
      /\ \A x \in Mutex : /\ a.owner[x] = IF x = m THEN None ELSE s0.owner[x]
                          /\ a.hold[x] = IF x = m THEN 0 ELSE s0.hold[x]
  BY <1>1 DEF MutexState
<1>3. InitMutex(s0, m) = n
  BY <1>1 DEF InitMutex, MutexState
<1> HIDE DEF a
<1>4. /\ n \in MutexState /\ n.k = a.k /\ n.taken = a.taken /\ n.pending = a.pending
      /\ n.owner = a.owner /\ n.hold = a.hold
  BY <1>2 DEF MutexState
<1> HIDE DEF n
<1> QED BY <1>2, <1>3, <1>4

-----------------------------------------------------------------------------
(* rt_thread_detach of a waiter *)

\* In the step from s0 to n the thread u, suspended without being in a list, closes.
Ends(n, s0, u, D) ==
  /\ n \in MutexState /\ InOrder(n.k, D) /\ n.k.cur = s0.k.cur
  /\ n.owner = s0.owner /\ n.hold = s0.hold /\ n.taken = s0.taken
  /\ \A x \in Thread : n.pending[x] = IF x = u THEN None ELSE s0.pending[x]
  /\ \A o \in WaitObj : ToSet(n.k.wait[o]) = ToSet(s0.k.wait[o])
  /\ \A x \in Thread : n.k.error[x] = s0.k.error[x]
  /\ \A x \in Thread : Suspended(n.k, x) <=> Suspended(s0.k, x) /\ x # u
  /\ n.k.timer \subseteq s0.k.timer

\* In the step from s0 to r the thread u is no longer marked as waiting for a mutex,
\* and places among the waiters change.
Detached(r, s0, u, C) ==
  /\ Ordered(r, C) /\ Keeps(r.k, s0.k) /\ r.k.cur = s0.k.cur
  /\ r.owner = s0.owner /\ r.hold = s0.hold /\ r.taken = s0.taken
  /\ \A x \in Thread : r.pending[x] = IF x = u THEN None ELSE s0.pending[x]

\* The thread u, out of the list of m already, is no longer marked as waiting for it;
\* k is the kernel without it.
Dropped(s0, u, k) == [s0 EXCEPT !.pending[u] = None, !.k = k]

LEMMA DroppedLemma ==
  ASSUME NEW s0, NEW C, NEW u \in Thread, Ordered(s0, C), SoundOwners(s0),
         Suspended(s0.k, u), Waitless(s0.k, u)
  PROVE  LET n == Dropped(s0, u, ListRemove(s0.k, u))
         IN Detached(n, s0, u, C) /\ SoundOwners(n)
<1> DEFINE k1 == ListRemove(s0.k, u)
           n == Dropped(s0, u, k1)
<1>1. s0 \in MutexState /\ InOrder(s0.k, C)
  BY DEF Ordered
<1>2. InOrder(k1, C) /\ Unlinked(k1, s0.k, u)
  BY <1>1, UnlinkOrderly
<1> HIDE DEF k1
<1>3. k1 \in Kernel
  BY <1>2, OrderlyFacts
<1>4. /\ n \in MutexState /\ n.k = k1 /\ n.owner = s0.owner /\ n.hold = s0.hold
      /\ n.taken = s0.taken
      /\ \A x \in Thread : n.pending[x] = IF x = u THEN None ELSE s0.pending[x]
  BY <1>1, <1>3 DEF MutexState, Dropped
<1> HIDE DEF n
<1>5. \A o \in WaitObj : ToSet(k1.wait[o]) = ToSet(s0.k.wait[o])
  BY <1>2 DEF Unlinked, Waitless
<1>6. Keeps(k1, s0.k) /\ k1.cur = s0.k.cur
  BY <1>2, <1>5 DEF Unlinked, Keeps, Awakened, Suspended
<1>7. \A x \in Thread : Movable(s0, x) => Movable(n, x)
  <2> TAKE x \in Thread
  <2>1. CASE x = u
    BY <1>4, <2>1 DEF Movable
  <2>2. CASE x # u
    <3>1. n.pending[x] = s0.pending[x] /\ (Suspended(n.k, x) <=> Suspended(s0.k, x))
      BY <1>4, <1>6, <2>2 DEF Keeps, Awakened
    <3>2. s0.pending[x] # None => s0.pending[x] \in WaitObj
      BY <1>1, StateFacts
    <3>3. \A o \in WaitObj : Waits(n.k, x, o) <=> Waits(s0.k, x, o)
      BY <1>4, <1>5 DEF Waits
    <3> QED BY <3>1, <3>2, <3>3 DEF Movable
  <2> QED BY <2>1, <2>2
<1>8. SoundOwners(n)
  <2>1. \A x \in Mutex : s0.owner[x] # None => s0.owner[x] \in Thread /\ Movable(s0, s0.owner[x])
    BY <1>1, StateFacts DEF SoundOwners
  <2> QED BY <1>4, <1>7, <2>1 DEF SoundOwners
<1>9. Detached(n, s0, u, C)
  BY <1>2, <1>4, <1>6 DEF Detached, Ordered
<1> QED BY <1>8, <1>9 DEF n, k1

\* The end of rt_thread_detach.
LEMMA ShutLemma ==
  ASSUME NEW s0, NEW C, NEW D, NEW u \in Thread, Ordered(s0, C), Suspended(s0.k, u),
         Waitless(s0.k, u), u # s0.k.cur, u # Idle, Joined(D, C, u)
  PROVE  LET n == Shut(s0, u)
         IN /\ n \in MutexState /\ SameOwners(n, s0) /\ InOrder(n.k, D)
            /\ Closes(n.k, s0.k, u)
<1> DEFINE k0 == s0.k
           k1 == CloseThread(k0, u)
           n == [s0 EXCEPT !.k = k1]
<1>1. s0 \in MutexState /\ InOrder(k0, C) /\ Suspended(k0, u) /\ Waitless(k0, u) /\ u # k0.cur
  BY DEF Ordered
<1>2. Shut(s0, u) = n
  BY DEF Shut
<1> HIDE DEF k0
<1>3. InOrder(k1, D) /\ Closes(k1, k0, u)
  BY <1>1, CloseOrderly
<1> HIDE DEF k1
<1>4. k1 \in Kernel
  BY <1>3, OrderlyFacts
<1>5. /\ n \in MutexState /\ n.k = k1 /\ n.owner = s0.owner /\ n.hold = s0.hold
      /\ n.taken = s0.taken /\ n.pending = s0.pending
  BY <1>1, <1>4 DEF MutexState
<1> HIDE DEF n
<1> QED BY <1>2, <1>3, <1>5 DEF SameOwners, k0

LEMMA ShutAfter ==
  ASSUME NEW s0, NEW C, NEW D, NEW u \in Thread, NEW r, Detached(r, s0, u, C),
         Suspended(s0.k, u), Waitless(s0.k, u), u # s0.k.cur, u # Idle, Joined(D, C, u)
  PROVE  Ends(Shut(r, u), s0, u, D)
<1> DEFINE n == Shut(r, u)
<1>1. /\ Ordered(r, C) /\ r.k.cur = s0.k.cur
      /\ r.owner = s0.owner /\ r.hold = s0.hold /\ r.taken = s0.taken
      /\ \A x \in Thread : r.pending[x] = IF x = u THEN None ELSE s0.pending[x]
  BY DEF Detached
<1>2. /\ \A o \in WaitObj : ToSet(r.k.wait[o]) = ToSet(s0.k.wait[o])
      /\ \A x \in Thread : /\ Suspended(r.k, x) <=> Suspended(s0.k, x)
                           /\ r.k.error[x] = s0.k.error[x]
      /\ r.k.timer \subseteq s0.k.timer
  BY DEF Detached, Keeps, Awakened
<1>3. n \in MutexState /\ SameOwners(n, r) /\ InOrder(n.k, D) /\ Closes(n.k, r.k, u)
  <2>1. Suspended(r.k, u) /\ Waitless(r.k, u)
    BY <1>2 DEF Waitless
  <2>2. u # r.k.cur
    BY <1>1
  <2> QED BY <1>1, <2>1, <2>2, ShutLemma
<1> HIDE DEF n
<1>4. /\ n.k.cur = s0.k.cur
      /\ n.owner = s0.owner /\ n.hold = s0.hold /\ n.taken = s0.taken
      /\ \A x \in Thread : n.pending[x] = IF x = u THEN None ELSE s0.pending[x]
  BY <1>1, <1>3 DEF SameOwners, Closes
<1>5. /\ \A o \in WaitObj : ToSet(n.k.wait[o]) = ToSet(s0.k.wait[o])
      /\ \A x \in Thread : n.k.error[x] = s0.k.error[x]
      /\ \A x \in Thread : Suspended(n.k, x) <=> Suspended(s0.k, x) /\ x # u
      /\ n.k.timer \subseteq s0.k.timer
  BY <1>2, <1>3 DEF Suspended, Closes
<1>6. Ends(n, s0, u, D)
  BY <1>3, <1>4, <1>5 DEF Ends
<1> QED BY <1>6 DEF n

\* the second half of rt_thread_detach of u, marked as waiting for m, when it comes to
\* its end
Shuts(n, s0, u, m) ==
  \/ m = None /\ n = Shut(s0, u)
  \/ /\ m # None /\ s0.owner[m] # None
     /\ n = Shut(DropThread([s0 EXCEPT !.pending[u] = None], m, u), u)
  \/ /\ m # None
     /\ n = Shut(Refresh([[s0 EXCEPT !.pending[u] = None] EXCEPT !.k = ListRemove(@, u)], m), u)

LEMMA CloseDropLemma ==
  ASSUME NEW s0, NEW C, NEW D, NEW u \in Thread, Ordered(s0, C), SoundOwners(s0),
         Suspended(s0.k, u), Waitless(s0.k, u), u # s0.k.cur, u # Idle, Joined(D, C, u),
         NEW m, m = s0.pending[u], NEW n, Shuts(n, s0, u, m)
  PROVE  Ends(n, s0, u, D)
<1>0. \/ m = None /\ n = Shut(s0, u)
      \/ /\ m # None /\ s0.owner[m] # None
         /\ n = Shut(DropThread([s0 EXCEPT !.pending[u] = None], m, u), u)
      \/ /\ m # None
         /\ n = Shut(Refresh([[s0 EXCEPT !.pending[u] = None] EXCEPT !.k = ListRemove(@, u)], m), u)
  BY DEF Shuts
<1>1. \E r : Detached(r, s0, u, C) /\ n = Shut(r, u)
  <2>1. CASE m = None
    <3>1. Detached(s0, s0, u, C)
      BY <2>1 DEF Detached, Keeps, Awakened
    <3>2. n = Shut(s0, u)
      BY <1>0, <2>1
    <3> QED BY <3>1, <3>2
  <2>2. CASE m # None
    <3> DEFINE d == Dropped(s0, u, ListRemove(s0.k, u))
    <3>1. m \in Mutex
      BY <2>2, StateFacts DEF Ordered
    <3>2. Detached(d, s0, u, C) /\ SoundOwners(d)
      BY DroppedLemma
    <3>3. d = [[s0 EXCEPT !.pending[u] = None] EXCEPT !.k = ListRemove(s0.k, u)]
      BY DEF Dropped
    <3>4. [s0 EXCEPT !.pending[u] = None].k = s0.k
      BY DEF Ordered, MutexState
    <3>5. \/ s0.owner[m] # None /\ n = Shut(Withdraw(d, m, s0.k.prio[u]), u)
          \/ n = Shut(Refresh(d, m), u)
      <4>1. DropThread([s0 EXCEPT !.pending[u] = None], m, u) = Withdraw(d, m, s0.k.prio[u])
        BY <3>3, <3>4 DEF DropThread
      <4>2. [[s0 EXCEPT !.pending[u] = None] EXCEPT !.k = ListRemove(@, u)] = d
        BY <3>3, <3>4
      <4> QED BY <1>0, <2>2, <4>1, <4>2
    <3> HIDE DEF d
    <3>6. PICK r : Calm(r, d, C) /\ n = Shut(r, u)
      <4>1. Ordered(d, C) /\ d.owner = s0.owner
        BY <3>2 DEF Detached
      <4>2. s0.owner[m] # None => Calm(Withdraw(d, m, s0.k.prio[u]), d, C)
        BY <3>1, <3>2, <4>1, WithdrawCalm
      <4>3. Calm(Refresh(d, m), d, C)
        BY <3>1, <4>1, RefreshCalm
      <4> QED BY <3>5, <4>2, <4>3
    <3>7. Ordered(r, C) /\ r.k.cur = s0.k.cur
      BY <3>2, <3>6 DEF Calm, Ordered, Detached
    <3>8. Keeps(r.k, s0.k)
      BY <3>2, <3>6 DEF Calm, Keeps, Awakened, Detached
    <3>9. r.owner = s0.owner /\ r.hold = s0.hold /\ r.taken = s0.taken
      BY <3>2, <3>6 DEF Calm, SameOwners, Detached
    <3>10. \A x \in Thread : r.pending[x] = IF x = u THEN None ELSE s0.pending[x]
      BY <3>2, <3>6 DEF Calm, SameOwners, Detached
    <3> QED BY <3>6, <3>7, <3>8, <3>9, <3>10 DEF Detached
  <2> QED BY <2>1, <2>2
<1> QED BY <1>1, ShutAfter

-----------------------------------------------------------------------------
(* What holds in every state *)

\* A thread that waits for something while it owns mutexes waits for ever, and for
\* mutexes that stay: the thread->pending_object that a timeout and rt_mutex_detach
\* leave behind would send a change of its priority into a list it is not in.
Careful == Nested => Timed \subseteq {FALSE} /\ "detach" \notin Ops

LEMMA InvFacts ==
  ASSUME Consistent
  PROVE  /\ Ordered(s, Closed) /\ s \in MutexState /\ InOrder(s.k, Closed)
         /\ s.k.cur \in Thread /\ Leaves
         /\ pc \in [Thread -> PC] /\ arg \in [Thread -> Mutex \cup Thread \cup {None}]
         /\ value \in {0, 1} /\ live \subseteq Mutex
BY OrderlyFacts DEF Consistent, TypeOK, Ordered

\* The objects are the mutexes and the semaphore; they are no threads.
LEMMA Objects ==
  /\ Sem \in WaitObj /\ Sem \notin Mutex /\ Sem # None
  /\ \A o \in WaitObj : o \in Mutex \/ o = Sem
  /\ Mutex \subseteq WaitObj /\ \A m \in Mutex : m # None /\ m # Sem
  /\ \A t \in Thread : t # None /\ t \notin Mutex
<1>1. PICK o \in WaitObj : WaitObj \ Mutex = {o}
  BY OneSemaphore
<1>2. \E x \in WaitObj : x \notin Mutex
  BY <1>1
<1>3. Sem \in WaitObj /\ Sem \notin Mutex
  BY <1>2 DEF Sem
<1>4. \A x \in WaitObj : x \notin Mutex => x = o
  BY <1>1
<1> QED BY <1>3, <1>4, MutexAssumption

\* What holds of each thread.
LEMMA ThreadFacts ==
  ASSUME Consistent, NEW t \in Thread
  PROVE  /\ InTake(t) => IF t \in Closed THEN arg[t] = None ELSE arg[t] \in Mutex
         /\ Suspended(s.k, t) => InTake(t) \/ InSem(t)
         /\ Suspended(s.k, t) => pc[t] # "close" /\ pc[t] # "run" /\ pc[t] # "sched"
         /\ Suspended(s.k, t) => t \notin Closed
         /\ \A o \in WaitObj : Waits(s.k, t, o) <=> /\ Suspended(s.k, t) /\ ~Closing(t)
                                                   /\ Goal(t) = o
         /\ \A m \in Mutex :
              Waits(s.k, t, m) => /\ m \in live /\ s.pending[t] = m
                                  /\ s.owner[m] # None /\ s.owner[m] # t
                                  /\ InTake(t) /\ arg[t] = m
         /\ Closing(t) => /\ Suspended(s.k, t) /\ t \notin s.k.timer /\ s.taken[t] = {}
                          /\ \A o \in WaitObj : ~Waits(s.k, t, o)
<1>1. /\ InTake(t) => IF t \in Closed THEN arg[t] = None ELSE arg[t] \in Mutex
      /\ Suspended(s.k, t) => InTake(t) \/ InSem(t)
      /\ \A o \in WaitObj : Waits(s.k, t, o) <=> /\ Suspended(s.k, t) /\ ~Closing(t)
                                                /\ Goal(t) = o
  BY DEF Consistent, InPlace
<1>2. Suspended(s.k, t) => pc[t] # "close" /\ pc[t] # "run" /\ pc[t] # "sched"
  BY <1>1 DEF InTake, InSem
<1>3. Suspended(s.k, t) => t \notin Closed
  BY DEF Suspended, Closed
<1>4. ASSUME NEW m \in Mutex, Waits(s.k, t, m)
      PROVE  /\ m \in live /\ s.pending[t] = m /\ s.owner[m] # None /\ s.owner[m] # t
             /\ InTake(t) /\ arg[t] = m
  <2>1. m \in live /\ s.pending[t] = m /\ s.owner[m] # None /\ s.owner[m] # t
    BY <1>4 DEF Consistent, HasOwner
  <2>2. Goal(t) = m
    BY <1>1, <1>4, Objects
  <2> QED BY <2>1, <2>2, Objects DEF Goal
<1>5. ASSUME Closing(t)
      PROVE  Suspended(s.k, t) /\ t \notin s.k.timer /\ s.taken[t] = {}
  BY <1>5 DEF Closing, Consistent, BeingClosed
<1> QED BY <1>1, <1>2, <1>3, <1>4, <1>5

\* What holds of each mutex.
LEMMA OwnerFacts ==
  ASSUME Consistent, NEW m \in Mutex
  PROVE  /\ s.owner[m] \in Thread \cup {None}
         /\ \A t \in Thread : m \in s.taken[t] <=> m \in live /\ s.owner[m] = t
         /\ m \in live => (s.hold[m] > 0 <=> s.owner[m] # None)
         /\ s.owner[m] \notin Closed
         /\ s.owner[m] # None /\ ~Nested => ~Suspended(s.k, s.owner[m])
         /\ s.hold[m] \in 0..HoldMax
BY InvFacts, StateFacts DEF Consistent, Owned

\* A chain of owners never meets a stale thread->pending_object.
LEMMA InvSound ==
  ASSUME Consistent
  PROVE  SoundOwners(s)
<1> SUFFICES ASSUME NEW m \in Mutex, s.owner[m] # None, Suspended(s.k, s.owner[m]),
                    s.pending[s.owner[m]] # None
             PROVE  Waits(s.k, s.owner[m], s.pending[s.owner[m]])
  BY DEF SoundOwners, Movable
<1> DEFINE o == s.owner[m]
<1>1. o \in Thread /\ Nested
  BY OwnerFacts
<1>2. Waits(s.k, o, s.pending[o]) \/ Closing(o)
  BY <1>1 DEF Consistent, PendingWaits
<1>3. m \in s.taken[o]
  BY <1>1, OwnerFacts DEF Consistent, PendingWaits
<1> QED BY <1>1, <1>2, <1>3, ThreadFacts

\* The thread that runs, at l.
LEMMA AtFacts ==
  ASSUME Consistent, NEW t, NEW l, At(t, l)
  PROVE  /\ t = s.k.cur /\ t \in Thread /\ pc[t] = l /\ t \notin Closed
         /\ l \notin {"takeSched", "semSched"} =>
              ~Suspended(s.k, t) /\ ~Closing(t) /\ \A o \in WaitObj : ~Waits(s.k, t, o)
<1>1. t = s.k.cur /\ t \in Thread /\ pc[t] = l /\ t \notin Closed
  BY InvFacts, OrderlyFacts DEF At
<1>2. l \notin {"takeSched", "semSched"} => ~Suspended(s.k, t)
  BY <1>1, InvFacts DEF Leaves
<1> QED BY <1>1, <1>2, ThreadFacts

-----------------------------------------------------------------------------
(* What a step must do so that the invariant holds again *)

\* The thread u, if it is suspended, stays in the function it is in; if not, it may
\* leave it, and is in no other function of a mutex and in no other detach.
Onward(u) ==
  /\ pc'[u] = "close" <=> pc[u] = "close"
  /\ pc[u] = "close" => arg'[u] = arg[u]
  /\ arg'[u] \in {arg[u], None}
  /\ InTake(u)' => InTake(u) /\ arg'[u] = arg[u]
  /\ Suspended(s.k, u) => /\ InTake(u)' <=> InTake(u)
                          /\ InSem(u)' <=> InSem(u)
                          /\ arg'[u] = arg[u]

Typed == /\ s' \in MutexState /\ InOrder(s'.k, Closed) /\ Leaves'
         /\ pc' \in [Thread -> PC] /\ arg' \in [Thread -> Mutex \cup Thread \cup {None}]
         /\ value' \in {0, 1} /\ live' \subseteq Mutex

\* The threads W stop waiting, and nobody starts to.
Moves(W) ==
  /\ Typed /\ \A u \in Thread : Onward(u)
  /\ s'.k.timer \subseteq s.k.timer
  /\ \A u \in W : u \in Thread /\ Suspended(s.k, u) /\ ~Closing(u)
  /\ \A u \in Thread :
       /\ \A o \in WaitObj : Waits(s'.k, u, o) <=> Waits(s.k, u, o) /\ u \notin W
       /\ Suspended(s'.k, u) <=> Suspended(s.k, u) /\ u \notin W

LEMMA ClosedSame ==
  ASSUME InOrder(s'.k, Closed)
  PROVE  Closed' = Closed
<1>1. OnlyClosed(s'.k, Closed)
  BY OrderlyFacts
<1>2. Closed \in SUBSET Thread
  BY DEF Closed
<1>3. ASSUME NEW t \in Thread
      PROVE  t \in Closed <=> s'.k.stat[t] = "CLOSE"
  BY <1>1 DEF OnlyClosed
<1> QED BY <1>2, <1>3 DEF Closed

\* The type of the state, and the order of the kernel's lists.
LEMMA TypedInv ==
  ASSUME Typed
  PROVE  /\ TypeOK' /\ InOrder(s.k, Closed)' /\ Leaves'
         /\ Closed' = Closed
<1>1. Closed' = Closed
  BY ClosedSame DEF Typed
<1> QED BY <1>1 DEF Typed, TypeOK

LEMMA ClosingSame ==
  ASSUME Consistent, \A u \in Thread : Onward(u), NEW u \in Thread
  PROVE  Closing(u)' <=> Closing(u)
BY DEF Onward, Closing

LEMMA MovesInPlace ==
  ASSUME Consistent, NEW W, Moves(W)
  PROVE  InPlace'
<1> SUFFICES ASSUME NEW t \in Thread
             PROVE  /\ InTake(t)' => IF t \in Closed' THEN arg'[t] = None ELSE arg'[t] \in Mutex
                    /\ Suspended(s'.k, t) => InTake(t)' \/ InSem(t)'
                    /\ \A o \in WaitObj : Waits(s'.k, t, o) <=>
                         Suspended(s'.k, t) /\ ~Closing(t)' /\ Goal(t)' = o
  BY DEF InPlace
<1>1. /\ Onward(t) /\ Closed' = Closed /\ (Closing(t)' <=> Closing(t))
      /\ \A o \in WaitObj : Waits(s'.k, t, o) <=> Waits(s.k, t, o) /\ t \notin W
      /\ Suspended(s'.k, t) <=> Suspended(s.k, t) /\ t \notin W
  BY ClosedSame, ClosingSame DEF Moves, Typed
<1>2. InTake(t)' => IF t \in Closed' THEN arg'[t] = None ELSE arg'[t] \in Mutex
  BY <1>1, ThreadFacts DEF Onward
<1>3. Suspended(s'.k, t) => InTake(t)' \/ InSem(t)'
  BY <1>1, ThreadFacts DEF Onward
<1>4. Suspended(s.k, t) => Goal(t)' = Goal(t)
  BY <1>1 DEF Onward, Goal
<1>5. ASSUME NEW o \in WaitObj
      PROVE  Waits(s'.k, t, o) <=> Suspended(s'.k, t) /\ ~Closing(t)' /\ Goal(t)' = o
  <2>1. Waits(s.k, t, o) <=> Suspended(s.k, t) /\ ~Closing(t) /\ Goal(t) = o
    BY ThreadFacts
  <2> QED BY <1>1, <1>4, <2>1
<1> QED BY <1>2, <1>3, <1>5

LEMMA MovesHasOwner ==
  ASSUME Consistent, NEW W, Moves(W),
         \A t \in Thread, m \in Mutex :
           Waits(s.k, t, m) /\ t \notin W =>
             m \in live' /\ s'.pending[t] = s.pending[t] /\ s'.owner[m] # None /\ s'.owner[m] # t
  PROVE  HasOwner'
<1> SUFFICES ASSUME NEW t \in Thread, NEW m \in Mutex, Waits(s'.k, t, m)
             PROVE  m \in live' /\ s'.pending[t] = m /\ s'.owner[m] # None /\ s'.owner[m] # t
  BY DEF HasOwner
<1>1. Waits(s.k, t, m) /\ t \notin W
  BY Objects DEF Moves
<1>2. s.pending[t] = m
  BY <1>1, ThreadFacts
<1> QED BY <1>1, <1>2

LEMMA MovesBeingClosed ==
  ASSUME Consistent, NEW W, Moves(W),
         \A t \in Thread : Suspended(s.k, t) /\ t \notin W => s'.taken[t] \subseteq s.taken[t]
  PROVE  BeingClosed'
<1> SUFFICES ASSUME NEW t \in Thread, pc'[t] = "close"
             PROVE  /\ arg'[t] \in Thread \ {t}
                    /\ Suspended(s'.k, arg'[t]) /\ arg'[t] \notin s'.k.timer
                    /\ s'.taken[arg'[t]] = {}
                    /\ \A u \in Thread : arg'[u] = arg'[t] => u = t
  BY DEF BeingClosed
<1>1. pc[t] = "close" /\ arg'[t] = arg[t]
  BY DEF Moves, Onward
<1>2. /\ arg[t] \in Thread \ {t} /\ Suspended(s.k, arg[t]) /\ arg[t] \notin s.k.timer
      /\ s.taken[arg[t]] = {} /\ \A u \in Thread : arg[u] = arg[t] => u = t
  BY <1>1 DEF Consistent, BeingClosed
<1>3. arg[t] \notin W
  BY <1>1 DEF Moves, Closing
<1>4. Suspended(s'.k, arg[t]) /\ arg[t] \notin s'.k.timer
  BY <1>2, <1>3 DEF Moves
<1>5. s'.taken[arg[t]] = {}
  BY <1>2, <1>3
<1>6. \A u \in Thread : arg'[u] = arg[t] => u = t
  BY <1>2, Objects DEF Moves, Onward
<1> QED BY <1>1, <1>2, <1>4, <1>5, <1>6

LEMMA MovesPending ==
  ASSUME Consistent, NEW W, Moves(W), Nested => live' = Mutex,
         \A t \in Thread :
           Nested => s'.pending[t] = None \/ (s'.pending[t] = s.pending[t] /\ t \notin W)
  PROVE  PendingWaits'
<1> SUFFICES ASSUME Nested
             PROVE  /\ s'.k.timer = {} /\ live' = Mutex
                    /\ \A t \in Thread : s'.pending[t] # None
                                           => Waits(s'.k, t, s'.pending[t]) \/ Closing(t)'
  BY DEF PendingWaits
<1>1. s'.k.timer = {} /\ live' = Mutex
  BY DEF Moves, Consistent, PendingWaits
<1>2. ASSUME NEW t \in Thread, s'.pending[t] # None
      PROVE  Waits(s'.k, t, s'.pending[t]) \/ Closing(t)'
  <2>1. s'.pending[t] = s.pending[t] /\ t \notin W
    BY <1>2
  <2>2. Waits(s.k, t, s.pending[t]) \/ Closing(t)
    BY <1>2, <2>1 DEF Consistent, PendingWaits
  <2>3. s.pending[t] \in WaitObj
    BY <1>2, <2>1, InvFacts, StateFacts, Objects
  <2>4. Closing(t)' <=> Closing(t)
    BY ClosingSame DEF Moves
  <2> QED BY <2>1, <2>2, <2>3, <2>4 DEF Moves
<1> QED BY <1>1, <1>2

\* How a thread inside a take knows that it is the owner, or that it is not.
Knows(t, W) ==
  \/ s'.k.error[t] # "EOK" \/ s'.owner[arg[t]] = t
  \/ /\ t \notin W /\ s'.k.error[t] = s.k.error[t]
     /\ s.owner[arg[t]] = t => s'.owner[arg[t]] = t

LEMMA MovesWokenOwns ==
  ASSUME Consistent, NEW W, Moves(W),
         \A t \in Thread : InTake(t)' /\ t \notin Closed => Knows(t, W)
  PROVE  WokenOwns'
<1> SUFFICES ASSUME NEW t \in Thread, InTake(t)', ~Suspended(s'.k, t), t \notin Closed',
                    s'.k.error[t] = "EOK"
             PROVE  s'.owner[arg'[t]] = t
  BY DEF WokenOwns
<1>1. InTake(t) /\ arg'[t] = arg[t] /\ t \notin Closed
  BY ClosedSame DEF Moves, Onward, Typed
<1>2. CASE s'.owner[arg[t]] = t
  BY <1>1, <1>2
<1>3. CASE /\ t \notin W /\ s'.k.error[t] = s.k.error[t]
           /\ s.owner[arg[t]] = t => s'.owner[arg[t]] = t
  <2>1. ~Suspended(s.k, t)
    BY <1>3 DEF Moves
  <2>2. s.owner[arg[t]] = t
    BY <1>1, <1>3, <2>1 DEF Consistent, WokenOwns
  <2> QED BY <1>1, <1>3, <2>2
<1> QED BY <1>1, <1>2, <1>3 DEF Knows

\* All of them together.
LEMMA MovesInv ==
  ASSUME Consistent, NEW W, Moves(W), Owned', Nested => live' = Mutex,
         \A t \in Thread, m \in Mutex :
           Waits(s.k, t, m) /\ t \notin W =>
             m \in live' /\ s'.pending[t] = s.pending[t] /\ s'.owner[m] # None /\ s'.owner[m] # t,
         \A t \in Thread : Suspended(s.k, t) /\ t \notin W => s'.taken[t] \subseteq s.taken[t],
         \A t \in Thread :
           Nested => s'.pending[t] = None \/ (s'.pending[t] = s.pending[t] /\ t \notin W),
         \A t \in Thread : InTake(t)' /\ t \notin Closed => Knows(t, W)
  PROVE  Consistent'
<1>1. InPlace'
  BY MovesInPlace
<1>2. HasOwner'
  BY MovesHasOwner
<1>3. BeingClosed'
  BY MovesBeingClosed
<1>4. PendingWaits'
  BY MovesPending
<1>5. WokenOwns'
  BY MovesWokenOwns
<1>6. TypeOK' /\ InOrder(s.k, Closed)' /\ Leaves'
  BY TypedInv DEF Moves
<1> QED BY <1>1, <1>2, <1>3, <1>4, <1>5, <1>6 DEF Consistent

-----------------------------------------------------------------------------
(* The kinds of steps *)

AbsStep == Abs!Next \/ UNCHANGED Abs!vars

LEMMA WaitingAfter ==
  ASSUME Consistent, NEW W, Moves(W), NEW m \in Mutex
  PROVE  /\ ToSet(s'.k.wait[m]) = ToSet(s.k.wait[m]) \ W
         /\ ToSet(s.k.wait[m]) \subseteq Thread
<1>1. m \in WaitObj
  BY Objects
<1>2. ToSet(s'.k.wait[m]) \subseteq Thread /\ ToSet(s.k.wait[m]) \subseteq Thread
  BY <1>1, InvFacts, OrderlyFacts DEF Moves, Typed
<1> QED BY <1>1, <1>2 DEF Moves, Waits

LEMMA OwnedSame ==
  ASSUME Consistent, NEW W, Moves(W), live' = live, s'.owner = s.owner, s'.hold = s.hold,
         s'.taken = s.taken
  PROVE  Owned'
<1>1. Closed' = Closed
  BY ClosedSame DEF Moves, Typed
<1> SUFFICES ASSUME NEW m \in Mutex
             PROVE  /\ \A t \in Thread : m \in s'.taken[t] <=> m \in live' /\ s'.owner[m] = t
                    /\ m \in live' => (s'.hold[m] > 0 <=> s'.owner[m] # None)
                    /\ s'.owner[m] \notin Closed'
                    /\ s'.owner[m] # None /\ ~Nested => ~Suspended(s'.k, s'.owner[m])
  BY DEF Owned
<1>2. s.owner[m] # None /\ ~Nested => ~Suspended(s'.k, s.owner[m])
  BY OwnerFacts DEF Moves
<1> QED BY <1>1, <1>2, OwnerFacts

\* A step after which each mutex has the owner it had; one thread at most stops
\* waiting, without success where it is inside a take.
LEMMA WakeStep ==
  ASSUME Consistent, NEW W, Moves(W), live' = live, SameOwners(s', s),
         NEW u, \A t \in W : t = u,
         \A t \in Thread : InTake(t)' => \/ s'.k.error[t] # "EOK"
                                         \/ t \notin W /\ s'.k.error[t] = s.k.error[t],
         \A t \in W : Nested => s.pending[t] = None
  PROVE  Consistent' /\ AbsStep
<1>1. s'.owner = s.owner /\ s'.hold = s.hold /\ s'.taken = s.taken /\ s'.pending = s.pending
  BY DEF SameOwners
<1>2. Owned'
  BY <1>1, OwnedSame
<1>3. Nested => live' = Mutex
  BY DEF Consistent, PendingWaits
<1>4. \A t \in Thread, m \in Mutex :
        Waits(s.k, t, m) /\ t \notin W =>
          m \in live' /\ s'.pending[t] = s.pending[t] /\ s'.owner[m] # None /\ s'.owner[m] # t
  BY <1>1, ThreadFacts
<1>5. \A t \in Thread : Suspended(s.k, t) /\ t \notin W => s'.taken[t] \subseteq s.taken[t]
  BY <1>1
<1>6. \A t \in Thread :
        Nested => s'.pending[t] = None \/ (s'.pending[t] = s.pending[t] /\ t \notin W)
  BY <1>1
<1>7. \A t \in Thread : InTake(t)' /\ t \notin Closed => Knows(t, W)
  BY <1>1 DEF Knows
<1>8. Consistent'
  BY <1>2, <1>3, <1>4, <1>5, <1>6, <1>7, MovesInv
<1>9. AbsStep
  <2> DEFINE A == AnyMutex
  <2>1. A \in Mutex
    BY MutexAssumption DEF AnyMutex
  <2>2. /\ ToSet(s'.k.wait[A]) = ToSet(s.k.wait[A]) \ W /\ ToSet(s.k.wait[A]) \subseteq Thread
        /\ s'.owner[A] = s.owner[A] /\ s'.hold[A] = s.hold[A] /\ (A \in live' <=> A \in live)
    BY <1>1, <2>1, WaitingAfter
  <2>3. CASE u \in W /\ u \in ToSet(s.k.wait[A])
    <3>1. ToSet(s'.k.wait[A]) = ToSet(s.k.wait[A]) \ {u} /\ u \in Thread
      BY <2>2, <2>3
    <3>2. Abs!GiveUp(u)
      BY <2>2, <2>3, <3>1 DEF Abs!GiveUp
    <3> QED BY <3>1, <3>2 DEF Abs!Next, AbsStep
  <2>4. CASE ~(u \in W /\ u \in ToSet(s.k.wait[A]))
    <3>1. ToSet(s'.k.wait[A]) = ToSet(s.k.wait[A])
      BY <2>2, <2>4
    <3> QED BY <2>2, <3>1 DEF AbsStep, Abs!vars
  <2> QED BY <2>3, <2>4
<1> QED BY <1>8, <1>9

\* A step of the kernel, or of priorities, that wakes nobody.
LEMMA QuietStep ==
  ASSUME Consistent, Typed, \A t \in Thread : Onward(t), live' = live, SameOwners(s', s),
         Keeps(s'.k, s.k)
  PROVE  Consistent' /\ AbsStep
<1>1. Moves({})
  BY DEF Moves, Keeps, Awakened, Waits
<1>2. \A t \in Thread : s'.k.error[t] = s.k.error[t]
  BY DEF Keeps, Awakened
<1> QED BY <1>1, <1>2, WakeStep

\* A step that is about the mutex m and wakes waiters of m only: the others wait where
\* they were for mutexes that stay as they are.
LEMMA ApartStep ==
  ASSUME Consistent, NEW W, Moves(W), NEW m \in Mutex, \A t \in W : Waits(s.k, t, m),
         AnyMutex # m, s'.owner[AnyMutex] = s.owner[AnyMutex],
         s'.hold[AnyMutex] = s.hold[AnyMutex], AnyMutex \in live' <=> AnyMutex \in live
  PROVE  AbsStep
<1> DEFINE A == AnyMutex
<1>1. A \in Mutex /\ A \in WaitObj /\ m \in WaitObj
  BY MutexAssumption DEF AnyMutex
<1>2. /\ ToSet(s'.k.wait[A]) = ToSet(s.k.wait[A]) \ W /\ ToSet(s.k.wait[A]) \subseteq Thread
  BY <1>1, WaitingAfter
<1>3. \A t \in W : t \notin ToSet(s.k.wait[A])
  <2> SUFFICES ASSUME NEW t \in W, Waits(s.k, t, A) PROVE FALSE
    BY DEF Waits
  <2>1. t \in Thread /\ Waits(s.k, t, m)
    BY DEF Moves
  <2> QED BY <1>1, <2>1, ThreadFacts
<1>4. ToSet(s'.k.wait[A]) = ToSet(s.k.wait[A])
  BY <1>2, <1>3
<1> QED BY <1>4 DEF AbsStep, Abs!vars

\* A step in which the live mutex m gets the owner o, for a hold of h; the threads
\* in W, which waited for m, go on as its owner.
LEMMA GivenStep ==
  ASSUME Consistent, NEW W, Moves(W), live' = live, NEW m \in live,
         NEW o \in Thread \cup {None}, NEW h \in Nat, Given(s', s, m, o, h),
         h > 0 <=> o # None, o \notin Closed, o # None => (Suspended(s.k, o) => o \in W),
         \A t \in W : Waits(s.k, t, m) /\ t = o,
         \A t \in Thread : s'.pending[t] = IF t \in W THEN None ELSE s.pending[t],
         \A t \in Thread : Waits(s.k, t, m) /\ t \notin W => o # None /\ o # t,
         \A t \in Thread : InTake(t) => s.owner[m] # t,
         \A t \in Thread : InTake(t)' => t \in W \/ s'.k.error[t] = s.k.error[t]
  PROVE  Consistent' /\ (m # AnyMutex => AbsStep)
<1>1. m \in Mutex
  BY InvFacts
<1>2. /\ \A x \in Mutex : /\ s'.owner[x] = IF x = m THEN o ELSE s.owner[x]
                          /\ s'.hold[x] = IF x = m THEN h ELSE s.hold[x]
      /\ \A t \in Thread, x \in Mutex :
           x \in s'.taken[t] <=> IF x = m THEN t = o ELSE x \in s.taken[t]
  BY DEF Given
<1>3. Closed' = Closed
  BY ClosedSame DEF Moves, Typed
<1>4. Owned'
  <2> SUFFICES ASSUME NEW x \in Mutex
               PROVE  /\ \A t \in Thread : x \in s'.taken[t] <=> x \in live' /\ s'.owner[x] = t
                      /\ x \in live' => (s'.hold[x] > 0 <=> s'.owner[x] # None)
                      /\ s'.owner[x] \notin Closed'
                      /\ s'.owner[x] # None /\ ~Nested => ~Suspended(s'.k, s'.owner[x])
    BY DEF Owned
  <2>1. CASE x = m
    <3>1. \A t \in Thread : x \in s'.taken[t] <=> x \in live' /\ s'.owner[x] = t
      BY <1>2, <2>1
    <3>2. o # None => ~Suspended(s'.k, o)
      BY DEF Moves
    <3> QED BY <1>2, <1>3, <2>1, <3>1, <3>2
  <2>2. CASE x # m
    <3>1. \A t \in Thread : x \in s'.taken[t] <=> x \in live' /\ s'.owner[x] = t
      BY <1>2, <2>2, OwnerFacts
    <3>2. s.owner[x] # None /\ ~Nested => ~Suspended(s'.k, s.owner[x])
      BY OwnerFacts DEF Moves
    <3> QED BY <1>2, <1>3, <2>2, <3>1, <3>2, OwnerFacts
  <2> QED BY <2>1, <2>2
<1>5. Nested => live' = Mutex
  BY DEF Consistent, PendingWaits
<1>6. \A t \in Thread, x \in Mutex :
        Waits(s.k, t, x) /\ t \notin W =>
          x \in live' /\ s'.pending[t] = s.pending[t] /\ s'.owner[x] # None /\ s'.owner[x] # t
  BY <1>2, ThreadFacts
<1>7. ASSUME NEW t \in Thread, Suspended(s.k, t), t \notin W
      PROVE  s'.taken[t] \subseteq s.taken[t]
  <2>1. t # o
    BY <1>7, Objects
  <2>2. s'.taken[t] \in SUBSET Mutex
    BY StateFacts DEF Moves, Typed
  <2> QED BY <1>2, <2>1, <2>2
<1>8. \A t \in Thread :
        Nested => s'.pending[t] = None \/ (s'.pending[t] = s.pending[t] /\ t \notin W)
  OBVIOUS
<1>9. ASSUME NEW t \in Thread, InTake(t)', t \notin Closed
      PROVE  Knows(t, W)
  <2>1. InTake(t) /\ arg[t] \in Mutex
    BY <1>9, ThreadFacts DEF Moves, Onward
  <2>2. CASE t \in W
    <3>1. arg[t] = m
      BY <1>1, <2>2, ThreadFacts
    <3> QED BY <1>1, <1>2, <2>2, <3>1 DEF Knows
  <2>3. CASE t \notin W
    <3>1. s'.k.error[t] = s.k.error[t]
      BY <1>9, <2>3
    <3>2. s.owner[arg[t]] = t => s'.owner[arg[t]] = t
      BY <1>2, <2>1
    <3> QED BY <2>3, <3>1, <3>2 DEF Knows
  <2> QED BY <2>2, <2>3
<1>10. Consistent'
  BY <1>4, <1>5, <1>6, <1>7, <1>8, <1>9, MovesInv
<1>11. m # AnyMutex => AbsStep
  <2>1. AnyMutex \in Mutex
    BY MutexAssumption DEF AnyMutex
  <2> QED BY <1>1, <1>2, <2>1, ApartStep
<1> QED BY <1>10, <1>11

\* Where the threads are when none of them moves.
LEMMA OnwardSame ==
  ASSUME Consistent, UNCHANGED <<pc, arg>>
  PROVE  /\ \A u \in Thread : Onward(u)
         /\ pc' \in [Thread -> PC] /\ arg' \in [Thread -> Mutex \cup Thread \cup {None}]
BY InvFacts DEF Onward, InTake, InSem

\* Where they are when t goes to l, in the same function or at its end.
LEMMA OnwardGoto ==
  ASSUME Consistent, NEW t \in Thread, NEW l \in PC, Goto(t, l), l # "close", pc[t] # "close",
         arg' = arg \/ (arg' = [arg EXCEPT ![t] = None] /\ ~Suspended(s.k, t)),
         l \in {"takeSched", "taken"} => InTake(t) /\ arg' = arg,
         Suspended(s.k, t) => /\ InTake(t) <=> l \in {"takeSched", "taken"}
                              /\ InSem(t) <=> l \in {"semSched", "semTaken"}
  PROVE  /\ \A u \in Thread : Onward(u)
         /\ pc' \in [Thread -> PC] /\ arg' \in [Thread -> Mutex \cup Thread \cup {None}]
         /\ live' = live /\ pc'[t] = l
<1>1. /\ pc' = [pc EXCEPT ![t] = l] /\ live' = live
      /\ pc \in [Thread -> PC] /\ arg \in [Thread -> Mutex \cup Thread \cup {None}]
  BY InvFacts DEF Goto
<1>2. pc' \in [Thread -> PC] /\ arg' \in [Thread -> Mutex \cup Thread \cup {None}]
  BY <1>1
<1>3. ASSUME NEW u \in Thread, u # t
      PROVE  Onward(u)
  <2>1. pc'[u] = pc[u] /\ arg'[u] = arg[u]
    BY <1>1, <1>3
  <2> QED BY <2>1 DEF Onward, InTake, InSem
<1>4. Onward(t)
  <2>1. pc'[t] = l /\ arg'[t] \in {arg[t], None}
    BY <1>1
  <2>2. (l \in {"takeSched", "taken"} \/ Suspended(s.k, t)) => arg'[t] = arg[t]
    OBVIOUS
  <2> QED BY <2>1, <2>2 DEF Onward, InTake, InSem
<1>5. pc'[t] = l
  BY <1>1
<1> QED BY <1>1, <1>2, <1>3, <1>4, <1>5

\* the write of thread->error of t
LEMMA ErrorWritten ==
  ASSUME NEW s0, NEW C, NEW t \in Thread, NEW e \in Error, Ordered(s0, C)
  PROVE  LET n == [s0 EXCEPT !.k = SetError(s0.k, t, e)]
         IN /\ n \in MutexState /\ InOrder(n.k, C) /\ SameOwners(n, s0)
            /\ n.k.cur = s0.k.cur /\ n.k.stat = s0.k.stat /\ n.k.wait = s0.k.wait
            /\ n.k.timer = s0.k.timer
            /\ \A x \in Thread : n.k.error[x] = IF x = t THEN e ELSE s0.k.error[x]
<1> DEFINE k1 == SetError(s0.k, t, e)
           n == [s0 EXCEPT !.k = k1]
<1>1. s0 \in MutexState /\ InOrder(s0.k, C)
  BY DEF Ordered
<1>2. /\ InOrder(k1, C) /\ k1.cur = s0.k.cur /\ k1.stat = s0.k.stat /\ k1.wait = s0.k.wait
      /\ k1.timer = s0.k.timer
      /\ \A x \in Thread : k1.error[x] = IF x = t THEN e ELSE s0.k.error[x]
  BY <1>1, ErrorOrderly
<1> HIDE DEF k1
<1>3. k1 \in Kernel
  BY <1>2, OrderlyFacts
<1>4. /\ n \in MutexState /\ n.k = k1 /\ n.owner = s0.owner /\ n.hold = s0.hold
      /\ n.taken = s0.taken /\ n.pending = s0.pending
  BY <1>1, <1>3 DEF MutexState
<1> HIDE DEF n
<1>5. SameOwners(n, s0)
  BY <1>4 DEF SameOwners
<1> QED BY <1>2, <1>4, <1>5 DEF n, k1

-----------------------------------------------------------------------------
(* rt_mutex_take, rt_mutex_trytake *)

\* A step of t, which runs, that changes only its error.
LEMMA RunningMoves ==
  ASSUME Consistent, NEW t, At(t, "run"), UNCHANGED <<pc, arg>>, value' \in {0, 1},
         live' \subseteq Mutex, s' \in MutexState, InOrder(s'.k, Closed), s'.k.cur = s.k.cur,
         \A o \in WaitObj : ToSet(s'.k.wait[o]) = ToSet(s.k.wait[o]),
         \A x \in Thread : Suspended(s'.k, x) <=> Suspended(s.k, x),
         s'.k.timer \subseteq s.k.timer
  PROVE  Moves({})
<1>1. t = s.k.cur /\ t \in Thread /\ ~Suspended(s.k, t)
  BY AtFacts
<1>2. Leaves'
  BY <1>1 DEF Leaves
<1>3. Typed /\ \A u \in Thread : Onward(u)
  BY <1>2, OnwardSame DEF Typed
<1>4. \A u \in Thread, o \in WaitObj : Waits(s'.k, u, o) <=> Waits(s.k, u, o)
  BY DEF Waits
<1> QED BY <1>3, <1>4 DEF Moves

LEMMA TakeAgainStep ==
  ASSUME Consistent, NEW t \in Thread, NEW m \in Mutex, TakeAgain(t, m)
  PROVE  Consistent' /\ AbsStep
<1> DEFINE h == IF s.hold[m] < HoldMax THEN s.hold[m] + 1 ELSE s.hold[m]
           b == [s EXCEPT !.hold[m] = h]
<1>1. /\ At(t, "run") /\ m \in live /\ s.owner[m] = t
      /\ s' = [s EXCEPT !.k.error[t] = "EOK", !.hold[m] = h]
      /\ pc' = pc /\ arg' = arg /\ value' = value /\ live' = live
  BY DEF TakeAgain, Calls
<1>2. s \in MutexState /\ InOrder(s.k, Closed) /\ HoldMax \in Nat /\ HoldMax > 0
  BY InvFacts, MutexAssumption
<1>3. t = s.k.cur /\ ~Suspended(s.k, t) /\ t \notin Closed /\ pc[t] = "run" /\ t # None
  BY <1>1, AtFacts, Objects
<1>4. s.hold[m] \in 0..HoldMax /\ s.hold[m] > 0
  BY <1>1, <1>3, OwnerFacts
<1>5. h \in 0..HoldMax /\ h > 0 /\ h \in Nat
  BY <1>2, <1>4
<1> HIDE DEF h
<1>6. /\ b \in MutexState /\ b.k = s.k /\ b.owner = s.owner /\ b.taken = s.taken
      /\ b.pending = s.pending
      /\ \A x \in Mutex : b.hold[x] = IF x = m THEN h ELSE s.hold[x]
  BY <1>2, <1>5 DEF MutexState
<1>7. s' = [b EXCEPT !.k = SetError(b.k, t, "EOK")]
  BY <1>1, <1>2 DEF SetError, MutexState
<1> HIDE DEF b
<1>8. /\ s' \in MutexState /\ InOrder(s'.k, Closed) /\ SameOwners(s', b)
      /\ s'.k.cur = s.k.cur /\ s'.k.stat = s.k.stat /\ s'.k.wait = s.k.wait
      /\ s'.k.timer = s.k.timer
      /\ \A x \in Thread : s'.k.error[x] = IF x = t THEN "EOK" ELSE s.k.error[x]
  <2>1. "EOK" \in Error /\ Ordered(b, Closed)
    BY <1>2, <1>6 DEF Error, Ordered
  <2>2. LET n == [b EXCEPT !.k = SetError(b.k, t, "EOK")]
        IN /\ n \in MutexState /\ InOrder(n.k, Closed) /\ SameOwners(n, b)
           /\ n.k.cur = b.k.cur /\ n.k.stat = b.k.stat /\ n.k.wait = b.k.wait
           /\ n.k.timer = b.k.timer
           /\ \A x \in Thread : n.k.error[x] = IF x = t THEN "EOK" ELSE b.k.error[x]
    BY <2>1, ErrorWritten
  <2> QED BY <1>6, <1>7, <2>2
<1>9. Moves({})
  <2>1. \A x \in Thread : Suspended(s'.k, x) <=> Suspended(s.k, x)
    BY <1>8 DEF Suspended
  <2> QED BY <1>1, <1>8, <2>1, InvFacts, RunningMoves
<1>10. Given(s', s, m, t, h)
  <2>1. \A u \in Thread : m \in s.taken[u] <=> u = t
    BY <1>1, OwnerFacts
  <2>2. s'.owner = s.owner /\ s'.taken = s.taken
    BY <1>6, <1>8 DEF SameOwners
  <2>3. \A x \in Mutex : s'.hold[x] = IF x = m THEN h ELSE s.hold[x]
    BY <1>6, <1>8 DEF SameOwners
  <2>4. s.owner[m] = t
    BY <1>1
  <2> QED BY <2>1, <2>2, <2>3, <2>4 DEF Given
<1>11. Consistent' /\ (m # AnyMutex => AbsStep)
  <2>1. \A x \in Thread : s'.pending[x] = s.pending[x]
    BY <1>6, <1>8 DEF SameOwners
  <2>2. \A x \in Thread : Waits(s.k, x, m) => t # x
    BY <1>1, ThreadFacts
  <2>3. \A x \in Thread : InTake(x) => x # t
    BY <1>3 DEF InTake
  <2>4. \A x \in Thread : InTake(x)' => s'.k.error[x] = s.k.error[x]
    BY <1>1, <1>3, <1>8 DEF InTake
  <2> QED BY <1>1, <1>3, <1>5, <1>9, <1>10, <2>1, <2>2, <2>3, <2>4, GivenStep
<1>12. m = AnyMutex => AbsStep
  <2>1. s'.owner[m] = s.owner[m] /\ s'.hold[m] = h
    BY <1>1, <1>10 DEF Given
  <2>2. h = s.hold[m] \/ (s.hold[m] < HoldMax /\ h = s.hold[m] + 1)
    BY DEF h
  <2>3. ToSet(s'.k.wait[m]) = ToSet(s.k.wait[m])
    BY <1>8
  <2> QED BY <1>1, <1>3, <2>1, <2>2, <2>3 DEF AbsStep, Abs!Next, Abs!Again, Abs!vars
<1> QED BY <1>11, <1>12

LEMMA TakeFreeStep ==
  ASSUME Consistent, NEW t \in Thread, NEW m \in Mutex, TakeFree(t, m)
  PROVE  Consistent' /\ AbsStep
<1>1. /\ At(t, "run") /\ m \in live /\ s.owner[m] = None /\ s' = Grab(s, t, m)
      /\ pc' = pc /\ arg' = arg /\ value' = value /\ live' = live
  BY DEF TakeFree, Calls
<1>2. t = s.k.cur /\ ~Suspended(s.k, t) /\ t \notin Closed /\ pc[t] = "run" /\ t # None
  BY <1>1, AtFacts, Objects
<1>3. \A u \in Thread : m \notin s.taken[u] /\ u # None
  BY <1>1, OwnerFacts, Objects
<1>4. /\ s' \in MutexState /\ InOrder(s'.k, Closed) /\ s'.k.cur = s.k.cur
      /\ Given(s', s, m, t, 1) /\ s'.pending = s.pending
      /\ \A o \in WaitObj : ToSet(s'.k.wait[o]) = ToSet(s.k.wait[o])
      /\ \A x \in Thread : Suspended(s'.k, x) <=> Suspended(s.k, x)
      /\ \A x \in Thread : s'.k.error[x] = IF x = t THEN "EOK" ELSE s.k.error[x]
      /\ s'.k.timer \subseteq s.k.timer
  <2>1. Ordered(s, Closed) /\ SoundOwners(s) /\ \A u \in Thread : m \notin s.taken[u]
    BY <1>3, InvFacts, InvSound
  <2> QED BY <1>1, <1>2, <2>1, GrabLemma
<1>5. Moves({})
  BY <1>1, <1>4, InvFacts, RunningMoves
<1>6. Consistent' /\ (m # AnyMutex => AbsStep)
  <2>1. \A x \in Thread : s'.pending[x] = s.pending[x]
    BY <1>4
  <2>2. \A x \in Thread : ~Waits(s.k, x, m)
    BY <1>1, ThreadFacts
  <2>3. \A x \in Thread : s.owner[m] # x
    BY <1>1, <1>3
  <2>4. \A x \in Thread : InTake(x)' => s'.k.error[x] = s.k.error[x]
    BY <1>1, <1>2, <1>4 DEF InTake
  <2>5. 1 \in Nat /\ 1 > 0
    OBVIOUS
  <2> QED BY <1>1, <1>2, <1>4, <1>5, <2>1, <2>2, <2>3, <2>4, <2>5, GivenStep
<1>7. m = AnyMutex => AbsStep
  <2>1. s'.owner[m] = t /\ s'.hold[m] = 1
    BY <1>4 DEF Given
  <2>2. ToSet(s.k.wait[m]) = {}
    <3>1. \A x \in Thread : ~Waits(s.k, x, m)
      BY <1>1, ThreadFacts
    <3> QED BY <1>5, <3>1, WaitingAfter DEF Waits
  <2>3. ToSet(s'.k.wait[m]) = ToSet(s.k.wait[m])
    BY <1>4, Objects
  <2>4. m = AnyMutex => Abs!Acquire(t)
    BY <1>1, <2>1, <2>2, <2>3 DEF Abs!Acquire
  <2> QED BY <2>4 DEF AbsStep, Abs!Next
<1> QED BY <1>6, <1>7

\* rt_mutex_trytake of a mutex that is taken, and rt_mutex_release by another thread
LEMMA RefusedStep ==
  ASSUME Consistent, NEW t \in Thread, NEW m \in Mutex,
         TakeRefused(t, m) \/ ReleaseForeign(t, m)
  PROVE  Consistent' /\ AbsStep
<1>1. PICK e \in Error : /\ At(t, "run")
                         /\ s' = [s EXCEPT !.k.error[t] = e]
                         /\ pc' = pc /\ arg' = arg /\ value' = value /\ live' = live
  BY DEF TakeRefused, ReleaseForeign, Calls, Error
<1>2. ~Suspended(s.k, t) /\ pc[t] = "run"
  BY <1>1, AtFacts
<1>3. s' = [s EXCEPT !.k = SetError(s.k, t, e)]
  BY <1>1 DEF SetError
<1>4. /\ s' \in MutexState /\ InOrder(s'.k, Closed) /\ SameOwners(s', s)
      /\ s'.k.cur = s.k.cur /\ s'.k.stat = s.k.stat /\ s'.k.wait = s.k.wait
      /\ s'.k.timer = s.k.timer
      /\ \A x \in Thread : s'.k.error[x] = IF x = t THEN e ELSE s.k.error[x]
  BY <1>3, InvFacts, ErrorWritten
<1>5. Moves({})
  <2>1. \A x \in Thread : Suspended(s'.k, x) <=> Suspended(s.k, x)
    BY <1>4 DEF Suspended
  <2> QED BY <1>1, <1>4, <2>1, InvFacts, RunningMoves
<1>6. \A x \in Thread : InTake(x)' => s'.k.error[x] = s.k.error[x]
  BY <1>1, <1>2, <1>4 DEF InTake
<1> QED BY <1>1, <1>4, <1>5, <1>6, WakeStep

\* The thread t, which runs and owns nothing unless waits are nested, starts to wait
\* for o, marked as waiting for p, at l and with x in arg.
Blocks(t, o, e, p, l, x) ==
  /\ pc' = [pc EXCEPT ![t] = l] /\ arg' = [arg EXCEPT ![t] = x]
  /\ value' = value /\ live' = live
  /\ s' \in MutexState /\ InOrder(s'.k, Closed) /\ s'.k.cur = t
  /\ Sleeps(s'.k, s.k, t, o, e) /\ (Nested => s'.k.timer \subseteq s.k.timer)
  /\ s'.owner = s.owner /\ s'.hold = s.hold /\ s'.taken = s.taken
  /\ \A u \in Thread : s'.pending[u] = IF u = t THEN p ELSE s.pending[u]
  /\ \/ /\ l = "takeSched" /\ o \in live /\ x = o /\ p = o
        /\ s.owner[o] # None /\ s.owner[o] # t
     \/ l = "semSched" /\ o = Sem /\ p = s.pending[t] /\ x = arg[t]
  /\ ~Nested => \A m \in Mutex : s.owner[m] # t

LEMMA BlockStep ==
  ASSUME Consistent, NEW t, At(t, "run"), NEW o \in WaitObj, NEW e, NEW p, NEW l, NEW x,
         Blocks(t, o, e, p, l, x)
  PROVE  Consistent'
<1> USE DEF Blocks
<1>1. /\ t = s.k.cur /\ t \in Thread /\ ~Suspended(s.k, t) /\ ~Closing(t) /\ t \notin Closed
      /\ pc[t] = "run" /\ \A q \in WaitObj : ~Waits(s.k, t, q)
  BY AtFacts
<1>2. Closed' = Closed
  BY ClosedSame
<1>3. /\ \A q \in WaitObj, u \in Thread :
           Waits(s'.k, u, q) <=> Waits(s.k, u, q) \/ (u = t /\ q = o)
      /\ \A u \in Thread : Suspended(s'.k, u) <=> Suspended(s.k, u) \/ u = t
      /\ \A u \in Thread : u # t => s'.k.error[u] = s.k.error[u]
      /\ s'.k.timer \subseteq s.k.timer \cup {t}
  <2>1. \A q \in WaitObj : ToSet(s'.k.wait[q]) = IF q = o THEN ToSet(s.k.wait[q]) \cup {t}
                                                          ELSE ToSet(s.k.wait[q])
    BY DEF Sleeps
  <2>2. \A q \in WaitObj, u \in Thread :
           Waits(s'.k, u, q) <=> Waits(s.k, u, q) \/ (u = t /\ q = o)
    <3> SUFFICES ASSUME NEW q \in WaitObj, NEW u \in Thread
                 PROVE  u \in ToSet(s'.k.wait[q])
                          <=> u \in ToSet(s.k.wait[q]) \/ (u = t /\ q = o)
      BY DEF Waits
    <3>1. CASE q = o
      <4>1. ToSet(s'.k.wait[q]) = ToSet(s.k.wait[q]) \cup {t}
        BY <2>1, <3>1
      <4> QED BY <3>1, <4>1
    <3>2. CASE q # o
      <4>1. ToSet(s'.k.wait[q]) = ToSet(s.k.wait[q])
        BY <2>1, <3>2
      <4> QED BY <3>2, <4>1
    <3> QED BY <3>1, <3>2
  <2> QED BY <2>2 DEF Sleeps
<1>4. /\ pc'[t] = l /\ arg'[t] = x
      /\ \A u \in Thread : u # t => pc'[u] = pc[u] /\ arg'[u] = arg[u]
  BY <1>1, InvFacts
<1>5. /\ pc' \in [Thread -> PC] /\ arg' \in [Thread -> Mutex \cup Thread \cup {None}]
      /\ value' \in {0, 1} /\ live' \subseteq Mutex
  <2>1. l \in PC
    BY DEF PC
  <2>2. x \in Mutex \cup Thread \cup {None}
    BY <1>1, InvFacts
  <2> QED BY <2>1, <2>2, InvFacts
<1>6. \A u \in Thread : Closing(u)' <=> Closing(u)
  BY <1>1, <1>4 DEF Closing
<1>7. Leaves'
  BY <1>4 DEF Leaves
<1>8. \A u \in Thread : u # t => (InTake(u)' <=> InTake(u)) /\ (InSem(u)' <=> InSem(u))
                                 /\ Goal(u)' = Goal(u)
  BY <1>4 DEF InTake, InSem, Goal
<1>9. /\ InTake(t)' <=> l = "takeSched"
      /\ InSem(t)' <=> l = "semSched"
      /\ Goal(t)' = o
  <2>1. (InTake(t)' <=> l = "takeSched") /\ (InSem(t)' <=> l = "semSched")
    BY <1>4 DEF InTake, InSem
  <2> QED BY <1>4, <2>1 DEF Goal
<1>10. InPlace'
  <2> SUFFICES ASSUME NEW u \in Thread
               PROVE  /\ InTake(u)' => IF u \in Closed' THEN arg'[u] = None ELSE arg'[u] \in Mutex
                      /\ Suspended(s'.k, u) => InTake(u)' \/ InSem(u)'
                      /\ \A q \in WaitObj : Waits(s'.k, u, q) <=>
                           Suspended(s'.k, u) /\ ~Closing(u)' /\ Goal(u)' = q
    BY DEF InPlace
  <2>1. CASE u = t
    <3>1. InTake(u)' => arg'[u] \in Mutex
      BY <1>4, <1>9, <2>1, InvFacts
    <3>2. \A q \in WaitObj : Waits(s'.k, u, q) <=> q = o
      BY <1>1, <1>3, <2>1
    <3> QED BY <1>1, <1>2, <1>3, <1>6, <1>9, <2>1, <3>1, <3>2
  <2>2. CASE u # t
    <3>1. \A q \in WaitObj : Waits(s'.k, u, q) <=> Waits(s.k, u, q)
      BY <1>3, <2>2
    <3> QED BY <1>2, <1>3, <1>4, <1>6, <1>8, <2>2, <3>1, ThreadFacts
  <2> QED BY <2>1, <2>2
<1>11. HasOwner'
  <2> SUFFICES ASSUME NEW u \in Thread, NEW m \in Mutex, Waits(s'.k, u, m)
               PROVE  m \in live' /\ s'.pending[u] = m /\ s'.owner[m] # None /\ s'.owner[m] # u
    BY DEF HasOwner
  <2>1. Waits(s.k, u, m) \/ (u = t /\ m = o)
    BY <1>3, Objects
  <2>2. CASE u = t
    <3>1. m = o /\ l = "takeSched"
      BY <1>1, <2>1, <2>2, Objects
    <3> QED BY <2>2, <3>1
  <2>3. CASE u # t
    BY <2>1, <2>3, ThreadFacts
  <2> QED BY <2>2, <2>3
<1>12. BeingClosed'
  <2> SUFFICES ASSUME NEW u \in Thread, pc'[u] = "close"
               PROVE  /\ arg'[u] \in Thread \ {u}
                      /\ Suspended(s'.k, arg'[u]) /\ arg'[u] \notin s'.k.timer
                      /\ s'.taken[arg'[u]] = {}
                      /\ \A v \in Thread : arg'[v] = arg'[u] => v = u
    BY DEF BeingClosed
  <2>1. u # t /\ pc[u] = "close" /\ arg'[u] = arg[u]
    BY <1>4
  <2>2. /\ arg[u] \in Thread \ {u} /\ Suspended(s.k, arg[u]) /\ arg[u] \notin s.k.timer
        /\ s.taken[arg[u]] = {} /\ \A v \in Thread : arg[v] = arg[u] => v = u
    BY <2>1 DEF Consistent, BeingClosed
  <2>3. arg[u] # t
    BY <1>1, <2>2
  <2>4. \A v \in Thread : arg'[v] = arg[u] => v = u
    <3>1. arg'[t] = arg[t] \/ arg'[t] \in Mutex
      BY <1>4, InvFacts
    <3>2. arg'[t] # arg[u]
      BY <1>1, <2>1, <2>2, <3>1, Objects
    <3> QED BY <1>4, <2>2, <3>2
  <2> QED BY <1>3, <2>1, <2>2, <2>3, <2>4
<1>13. Owned'
  <2> SUFFICES ASSUME NEW m \in Mutex
               PROVE  /\ \A u \in Thread : m \in s'.taken[u] <=> m \in live' /\ s'.owner[m] = u
                      /\ m \in live' => (s'.hold[m] > 0 <=> s'.owner[m] # None)
                      /\ s'.owner[m] \notin Closed'
                      /\ s'.owner[m] # None /\ ~Nested => ~Suspended(s'.k, s'.owner[m])
    BY DEF Owned
  <2>1. s.owner[m] # None /\ ~Nested => ~Suspended(s'.k, s.owner[m])
    BY <1>3, OwnerFacts
  <2> QED BY <1>2, <2>1, OwnerFacts
<1>14. PendingWaits'
  <2> SUFFICES ASSUME Nested
               PROVE  /\ s'.k.timer = {} /\ live' = Mutex
                      /\ \A u \in Thread : s'.pending[u] # None
                                             => Waits(s'.k, u, s'.pending[u]) \/ Closing(u)'
    BY DEF PendingWaits
  <2>1. /\ s.k.timer = {} /\ live = Mutex
        /\ \A u \in Thread : s.pending[u] # None => Waits(s.k, u, s.pending[u]) \/ Closing(u)
    BY DEF Consistent, PendingWaits
  <2>2. \A u \in Thread : s.pending[u] \in Mutex \cup {None}
    BY InvFacts, StateFacts
  <2>3. ASSUME NEW u \in Thread, s'.pending[u] # None
        PROVE  Waits(s'.k, u, s'.pending[u]) \/ Closing(u)'
    <3>1. CASE u = t
      <4>1. s.pending[t] = None
        BY <1>1, <2>1, <2>2, Objects
      <4>2. l = "takeSched" /\ s'.pending[t] = o
        BY <2>3, <3>1, <4>1, <1>1
      <4> QED BY <1>1, <1>3, <3>1, <4>2
    <3>2. CASE u # t
      <4>1. s'.pending[u] = s.pending[u] /\ s.pending[u] \in WaitObj
        BY <2>2, <2>3, <3>2, Objects
      <4> QED BY <1>3, <1>6, <2>1, <2>3, <4>1
    <3> QED BY <3>1, <3>2
  <2> QED BY <2>1, <2>3
<1>15. WokenOwns'
  <2> SUFFICES ASSUME NEW u \in Thread, InTake(u)', ~Suspended(s'.k, u), u \notin Closed',
                      s'.k.error[u] = "EOK"
               PROVE  s'.owner[arg'[u]] = u
    BY DEF WokenOwns
  <2>1. u # t /\ ~Suspended(s.k, u)
    BY <1>1, <1>3
  <2>2. InTake(u) /\ s.k.error[u] = "EOK" /\ arg'[u] = arg[u] /\ u \notin Closed
    BY <1>2, <1>3, <1>4, <1>8, <2>1
  <2>3. s.owner[arg[u]] = u
    BY <2>1, <2>2 DEF Consistent, WokenOwns
  <2> QED BY <2>2, <2>3
<1>16. TypeOK' /\ InOrder(s.k, Closed)' /\ Leaves'
  BY <1>5, <1>7, TypedInv DEF Typed
<1> QED BY <1>10, <1>11, <1>12, <1>13, <1>14, <1>15, <1>16 DEF Consistent

LEMMA TakeWaitStep ==
  ASSUME Consistent, Careful, NEW t \in Thread, NEW m \in Mutex, NEW timed \in Timed,
         TakeWait(t, m, timed)
  PROVE  Consistent' /\ AbsStep
<1>1. /\ At(t, "run") /\ t # Idle /\ m \in live /\ s.owner[m] # None /\ s.owner[m] # t
      /\ Nested \/ \A x \in Mutex : s.owner[x] # t
      /\ s' = Join(s, t, m, timed) /\ pc' = [pc EXCEPT ![t] = "takeSched"]
      /\ arg' = [arg EXCEPT ![t] = m] /\ value' = value /\ live' = live
  BY DEF TakeWait, Calls, Goto, Aim
<1>2. t = s.k.cur /\ ~Suspended(s.k, t) /\ m \in WaitObj /\ \A o \in WaitObj : ~Waits(s.k, t, o)
  BY <1>1, AtFacts, Objects
<1>3. /\ s' \in MutexState /\ InOrder(s'.k, Closed) /\ s'.k.cur = t
      /\ Sleeps(s'.k, s.k, t, m, "EOK")
      /\ ~timed => s'.k.timer \subseteq s.k.timer
      /\ s'.owner = s.owner /\ s'.hold = s.hold /\ s'.taken = s.taken
      /\ \A x \in Thread : s'.pending[x] = IF x = t THEN m ELSE s.pending[x]
  <2>1. /\ Ordered(s, Closed) /\ SoundOwners(s) /\ t = s.k.cur /\ ~Suspended(s.k, t)
        /\ t # Idle /\ s.owner[m] # None
    BY <1>1, <1>2, InvFacts, InvSound
  <2>2. JoinedBy(Join(s, t, m, timed), s, t, m, timed, Closed)
    BY <2>1, JoinLemma
  <2> QED BY <1>1, <2>2 DEF JoinedBy
<1>4. Nested => s'.k.timer \subseteq s.k.timer
  BY <1>3 DEF Careful
<1>5. Consistent'
  <2>1. Blocks(t, m, "EOK", m, "takeSched", m)
    BY <1>1, <1>3, <1>4 DEF Blocks
  <2> QED BY <1>1, <1>2, <2>1, BlockStep
<1>6. AbsStep
  <2> DEFINE A == AnyMutex
  <2>1. A \in Mutex /\ A \in WaitObj
    BY MutexAssumption DEF AnyMutex
  <2>2. /\ ToSet(s'.k.wait[A]) = IF A = m THEN ToSet(s.k.wait[A]) \cup {t} ELSE ToSet(s.k.wait[A])
        /\ s'.owner[A] = s.owner[A] /\ s'.hold[A] = s.hold[A]
    BY <1>3, <2>1 DEF Sleeps
  <2>3. A = m => t \notin ToSet(s.k.wait[A])
    BY <1>2, <2>1 DEF Waits
  <2>4. A = m => Abs!Block(t)
    BY <1>1, <2>2, <2>3 DEF Abs!Block
  <2>5. A # m => UNCHANGED Abs!vars
    BY <1>1, <2>2 DEF Abs!vars
  <2> QED BY <2>4, <2>5 DEF AbsStep, Abs!Next
<1> QED BY <1>5, <1>6

\* rt_sem_take without a permit, up to its rt_schedule
SemJoin(s0, t, o) == [s0 EXCEPT !.k = SuspendOn([s0.k EXCEPT !.error[t] = "EINTR"], o)]

LEMMA SemJoinLemma ==
  ASSUME NEW s0, NEW C, NEW t, NEW o \in WaitObj, Ordered(s0, C), t = s0.k.cur,
         ~Suspended(s0.k, t), t # Idle
  PROVE  LET n == SemJoin(s0, t, o)
         IN /\ n \in MutexState /\ InOrder(n.k, C) /\ n.k.cur = t /\ SameOwners(n, s0)
            /\ Sleeps(n.k, s0.k, t, o, "EINTR") /\ n.k.timer \subseteq s0.k.timer
<1> DEFINE k1 == SuspendFor([s0.k EXCEPT !.error[t] = "EINTR"], o, FALSE)
           n == [s0 EXCEPT !.k = k1]
<1>1. s0 \in MutexState /\ InOrder(s0.k, C)
  BY DEF Ordered
<1>2. SemJoin(s0, t, o) = n
  BY DEF SemJoin, SuspendFor
<1>3. /\ InOrder(k1, C) /\ k1.cur = t /\ Sleeps(k1, s0.k, t, o, "EINTR")
      /\ ~FALSE => k1.timer \subseteq s0.k.timer
  <2> DEFINE k0 == s0.k
  <2>1. InOrder(k0, C) /\ t = k0.cur /\ ~Suspended(k0, t) /\ t # Idle /\ "EINTR" \in Error
    BY <1>1 DEF Error
  <2> HIDE DEF k0
  <2> DEFINE timeout == FALSE
  <2>2. k1 = SleepFor(k0, t, o, "EINTR", timeout)
    BY DEF k0, SleepFor
  <2> HIDE DEF k1, timeout
  <2>3. /\ InOrder(k1, C) /\ k1.cur = t /\ Sleeps(k1, k0, t, o, "EINTR")
        /\ ~timeout => k1.timer \subseteq k0.timer
    BY <2>1, <2>2, BlockOrderly
  <2> QED BY <2>3 DEF k0, timeout
<1> HIDE DEF k1
<1>4. k1 \in Kernel
  BY <1>3, OrderlyFacts
<1>5. /\ n \in MutexState /\ n.k = k1 /\ n.owner = s0.owner /\ n.hold = s0.hold
      /\ n.taken = s0.taken /\ n.pending = s0.pending
  BY <1>1, <1>4 DEF MutexState
<1> HIDE DEF n
<1> QED BY <1>2, <1>3, <1>5 DEF SameOwners

LEMMA SemWaitStep ==
  ASSUME Consistent, NEW t \in Thread, Calls(t, "sem"),
         Nested \/ \A x \in Mutex : s.owner[x] # t,
         s' = [s EXCEPT !.k = SuspendOn([s.k EXCEPT !.error[t] = "EINTR"], Sem)],
         pc' = [pc EXCEPT ![t] = "semSched"], UNCHANGED <<arg, value, live>>
  PROVE  Consistent' /\ AbsStep
<1>1. At(t, "run") /\ t # Idle
  BY DEF Calls
<1>2. t = s.k.cur /\ ~Suspended(s.k, t) /\ Sem \in WaitObj
  BY <1>1, AtFacts, Objects
<1>3. /\ s' \in MutexState /\ InOrder(s'.k, Closed) /\ s'.k.cur = t /\ SameOwners(s', s)
      /\ Sleeps(s'.k, s.k, t, Sem, "EINTR") /\ s'.k.timer \subseteq s.k.timer
  <2>1. Ordered(s, Closed) /\ t = s.k.cur /\ ~Suspended(s.k, t) /\ t # Idle
    BY <1>1, <1>2, InvFacts
  <2>2. LET n == SemJoin(s, t, Sem)
        IN /\ n \in MutexState /\ InOrder(n.k, Closed) /\ n.k.cur = t /\ SameOwners(n, s)
           /\ Sleeps(n.k, s.k, t, Sem, "EINTR") /\ n.k.timer \subseteq s.k.timer
    BY <1>2, <2>1, SemJoinLemma
  <2>3. s' = SemJoin(s, t, Sem)
    BY DEF SemJoin
  <2> QED BY <2>2, <2>3
<1>4. s'.owner = s.owner /\ s'.hold = s.hold /\ s'.taken = s.taken /\ s'.pending = s.pending
  BY <1>3 DEF SameOwners
<1>5. Consistent'
  <2>1. arg' = [arg EXCEPT ![t] = arg[t]]
    BY InvFacts
  <2>2. \A u \in Thread : s'.pending[u] = IF u = t THEN s.pending[t] ELSE s.pending[u]
    BY <1>4
  <2>3. Blocks(t, Sem, "EINTR", s.pending[t], "semSched", arg[t])
    BY <1>3, <1>4, <2>1, <2>2 DEF Blocks
  <2> QED BY <1>1, <1>2, <2>3, BlockStep
<1>6. AbsStep
  <2>1. AnyMutex \in WaitObj /\ AnyMutex # Sem
    <3>1. AnyMutex \in Mutex
      BY MutexAssumption DEF AnyMutex
    <3> QED BY <3>1, Objects
  <2>2. ToSet(s'.k.wait[AnyMutex]) = ToSet(s.k.wait[AnyMutex])
    BY <1>3, <2>1 DEF Sleeps
  <2> QED BY <1>4, <2>2 DEF AbsStep, Abs!vars
<1> QED BY <1>5, <1>6

-----------------------------------------------------------------------------
(* The steps that change priorities, or nothing but where a thread is *)

\* A step of the thread that runs, after which it runs on.
LEMMA CalmStep ==
  ASSUME Consistent, Calm(s', s, Closed), ~Suspended(s.k, s.k.cur),
         \A u \in Thread : Onward(u), pc' \in [Thread -> PC],
         arg' \in [Thread -> Mutex \cup Thread \cup {None}], value' \in {0, 1}, live' = live
  PROVE  Consistent' /\ AbsStep
<1>1. /\ s' \in MutexState /\ SameOwners(s', s) /\ InOrder(s'.k, Closed)
      /\ Keeps(s'.k, s.k) /\ s'.k.cur = s.k.cur
  BY DEF Calm
<1>2. ~Suspended(s'.k, s'.k.cur)
  BY <1>1, InvFacts DEF Keeps, Awakened
<1>3. Typed
  BY <1>1, <1>2, InvFacts DEF Typed, Leaves
<1> QED BY <1>1, <1>3, QuietStep

\* A function returns: the thread t leaves it, and the mutex it took.
LEMMA ReturnStep ==
  ASSUME Consistent, NEW t \in Thread, NEW l \in {"taken", "semTaken", "run"}, At(t, l),
         Goto(t, "run"), arg' = arg \/ Aim(t, None), Calm(s', s, Closed), value' = value
  PROVE  Consistent' /\ AbsStep
<1>1. t = s.k.cur /\ ~Suspended(s.k, t) /\ pc[t] = l
  BY AtFacts
<1>2. /\ \A u \in Thread : Onward(u)
      /\ pc' \in [Thread -> PC] /\ arg' \in [Thread -> Mutex \cup Thread \cup {None}]
      /\ live' = live
  <2>1. "run" \in PC /\ pc[t] # "close"
    BY <1>1 DEF PC
  <2>2. arg' = arg \/ (arg' = [arg EXCEPT ![t] = None] /\ ~Suspended(s.k, t))
    BY <1>1 DEF Aim
  <2> QED BY <1>1, <2>1, <2>2, OnwardGoto
<1> QED BY <1>1, <1>2, InvFacts, CalmStep

LEMMA DoneStep ==
  ASSUME Consistent, NEW t \in Thread, TakeDone(t) \/ SemReturn(t)
  PROVE  Consistent' /\ AbsStep
<1>1. s' = s
  BY DEF TakeDone, SemReturn
<1>2. Calm(s', s, Closed)
  BY <1>1, InvFacts, CalmSame
<1>3. CASE TakeDone(t)
  BY <1>2, <1>3, ReturnStep DEF TakeDone
<1>4. CASE SemReturn(t)
  BY <1>2, <1>4, ReturnStep DEF SemReturn
<1> QED BY <1>3, <1>4

LEMMA FaultCalm ==
  ASSUME NEW s0, NEW C, Ordered(s0, C)
  PROVE  Calm([s0 EXCEPT !.fault = TRUE], s0, C)
<1> DEFINE n == [s0 EXCEPT !.fault = TRUE]
<1>1. /\ n \in MutexState /\ n.k = s0.k /\ n.owner = s0.owner /\ n.hold = s0.hold
      /\ n.taken = s0.taken /\ n.pending = s0.pending
  BY DEF Ordered, MutexState
<1> HIDE DEF n
<1>2. Calm(n, s0, C)
  BY <1>1 DEF Calm, Ordered, SameOwners, Keeps, Awakened
<1> QED BY <1>2 DEF n

\* whether the mutex has an owner or not
LEMMA FailedStep ==
  ASSUME Consistent, NEW t \in Thread, TakeFailed(t)
  PROVE  Consistent' /\ AbsStep
<1> DEFINE m == arg[t]
<1>1. /\ At(t, "taken") /\ Goto(t, "run") /\ Aim(t, None) /\ value' = value
      /\ \/ s.owner[m] # None /\ s' = Leave(s, t, m)
         \/ s' = Refresh(s, m)
         \/ s' = [s EXCEPT !.fault = TRUE]
  BY DEF TakeFailed
<1>2. m \in Mutex
  <2>1. pc[t] = "taken" /\ t \notin Closed
    BY <1>1, AtFacts
  <2> QED BY <2>1, ThreadFacts DEF InTake
<1> HIDE DEF m
<1>3. Ordered(s, Closed) /\ SoundOwners(s)
  BY InvFacts, InvSound
<1>4. Calm(s', s, Closed)
  <2>1. CASE s.owner[m] # None /\ s' = Leave(s, t, m)
    BY <1>2, <1>3, <2>1, WithdrawCalm DEF Leave
  <2>2. CASE s' = Refresh(s, m)
    BY <1>2, <1>3, <2>2, RefreshCalm
  <2>3. CASE s' = [s EXCEPT !.fault = TRUE]
    BY <1>3, <2>3, FaultCalm
  <2> QED BY <1>1, <2>1, <2>2, <2>3
<1> QED BY <1>1, <1>4, ReturnStep

\* rt_mutex_setprioceiling
LEMMA CeilStep ==
  ASSUME Consistent, NEW t \in Thread, NEW m \in Mutex, NEW c \in Prio, Ceil(t, m, c)
  PROVE  Consistent' /\ AbsStep
<1>1. /\ At(t, "run") /\ s' = SetCeiling(s, m, c)
      /\ pc' = pc /\ arg' = arg /\ value' = value /\ live' = live
  BY DEF Ceil, Calls
<1>2. ~Suspended(s.k, s.k.cur)
  BY <1>1, AtFacts
<1>3. Calm(s', s, Closed)
  BY <1>1, InvFacts, InvSound, SetCeilingCalm
<1>4. /\ \A u \in Thread : Onward(u)
      /\ pc' \in [Thread -> PC] /\ arg' \in [Thread -> Mutex \cup Thread \cup {None}]
  BY <1>1, OnwardSame
<1> QED BY <1>1, <1>2, <1>3, <1>4, InvFacts, CalmStep

LEMMA SemTakeStep ==
  ASSUME Consistent, NEW t \in Thread, SemTake(t)
  PROVE  Consistent' /\ AbsStep
<1>1. CASE value > 0 /\ value' = value - 1 /\ UNCHANGED <<s, pc>>
  <2>1. At(t, "run") /\ s' = s /\ pc' = pc /\ arg' = arg /\ live' = live
    BY <1>1 DEF SemTake, Calls
  <2>2. ~Suspended(s.k, s.k.cur)
    BY <2>1, AtFacts
  <2>3. Calm(s', s, Closed)
    BY <2>1, InvFacts, CalmSame
  <2>4. /\ \A u \in Thread : Onward(u)
        /\ pc' \in [Thread -> PC] /\ arg' \in [Thread -> Mutex \cup Thread \cup {None}]
    BY <2>1, OnwardSame
  <2>5. value' \in {0, 1}
    BY <1>1, InvFacts
  <2> QED BY <2>1, <2>2, <2>3, <2>4, <2>5, CalmStep
<1>2. CASE ~(value > 0 /\ value' = value - 1 /\ UNCHANGED <<s, pc>>)
  BY <1>2, SemWaitStep DEF SemTake
<1> QED BY <1>1, <1>2

\* A step in which the scheduler may choose another thread.
LEMMA SwitchStep ==
  ASSUME Consistent, NEW k, InOrder(k, Closed), Keeps(k, s.k),
         k.cur = s.k.cur \/ ~Suspended(k, k.cur),
         s' = [s EXCEPT !.k = k],
         \A u \in Thread : Onward(u), pc' \in [Thread -> PC],
         arg' \in [Thread -> Mutex \cup Thread \cup {None}], value' = value, live' = live,
         pc'[s.k.cur] = pc[s.k.cur] \/ ~Suspended(k, k.cur)
  PROVE  Consistent' /\ AbsStep
<1>1. k \in Kernel /\ s \in MutexState /\ s.k.cur \in Thread
  BY InvFacts, OrderlyFacts
<1>2. /\ s' \in MutexState /\ s'.k = k /\ s'.owner = s.owner /\ s'.hold = s.hold
      /\ s'.taken = s.taken /\ s'.pending = s.pending
  BY <1>1 DEF MutexState
<1>3. SameOwners(s', s)
  BY <1>2 DEF SameOwners
<1>4. Leaves'
  <2>1. CASE Suspended(k, k.cur)
    <3>1. k.cur = s.k.cur /\ pc'[s.k.cur] = pc[s.k.cur]
      BY <2>1
    <3>2. Suspended(s.k, s.k.cur)
      BY <1>1, <2>1, <3>1 DEF Keeps, Awakened
    <3> QED BY <1>2, <3>1, <3>2, InvFacts DEF Leaves
  <2>2. CASE ~Suspended(k, k.cur)
    BY <1>2, <2>2 DEF Leaves
  <2> QED BY <2>1, <2>2
<1>5. Typed
  BY <1>2, <1>4, InvFacts DEF Typed
<1> QED BY <1>2, <1>3, <1>5, QuietStep

\* rt_schedule, after which the caller is one function further on when it runs again
LEMMA ScheduleStep ==
  ASSUME Consistent, NEW t \in Thread, DoSchedule(t)
  PROVE  Consistent' /\ AbsStep
<1> DEFINE k == Schedule(s.k)
<1>1. PICK l \in PC : /\ Goto(t, l) /\ l # "close" /\ pc[t] # "close"
                      /\ \/ pc[t] = "sched" /\ l = "run"
                         \/ pc[t] = "takeSched" /\ l = "taken"
                         \/ pc[t] = "semSched" /\ l = "semTaken"
  BY DEF DoSchedule, At, PC
<1>2. s' = [s EXCEPT !.k = k] /\ arg' = arg /\ value' = value
  BY DEF DoSchedule
<1>3. InOrder(k, Closed) /\ Keeps(k, s.k) /\ ~Suspended(k, k.cur)
  <2> DEFINE k0 == s.k
  <2>1. InOrder(k0, Closed)
    BY InvFacts
  <2> HIDE DEF k0
  <2>2. LET n == Schedule(k0) IN InOrder(n, Closed) /\ Keeps(n, k0) /\ ~Suspended(n, n.cur)
    BY <2>1, ScheduleOrderly
  <2> QED BY <2>2 DEF k0
<1> HIDE DEF k
<1>4. /\ \A u \in Thread : Onward(u)
      /\ pc' \in [Thread -> PC] /\ arg' \in [Thread -> Mutex \cup Thread \cup {None}]
      /\ live' = live
  <2>1. Suspended(s.k, t) => pc[t] # "sched"
    BY ThreadFacts
  <2> QED BY <1>1, <1>2, <2>1, OnwardGoto DEF InTake, InSem
<1> QED BY <1>2, <1>3, <1>4, SwitchStep

LEMMA TickStep ==
  ASSUME Consistent, Tick
  PROVE  Consistent' /\ AbsStep
<1> DEFINE k == TickSlice(s.k)
<1>1. s' = [s EXCEPT !.k = k] /\ pc' = pc /\ arg' = arg /\ value' = value /\ live' = live
  BY DEF Tick
<1>2. InOrder(k, Closed) /\ Keeps(k, s.k) /\ (k.cur = s.k.cur \/ ~Suspended(k, k.cur))
  <2> DEFINE k0 == s.k
  <2>1. InOrder(k0, Closed)
    BY InvFacts
  <2> HIDE DEF k0
  <2>2. LET n == TickSlice(k0)
        IN InOrder(n, Closed) /\ Keeps(n, k0) /\ (n.cur = k0.cur \/ ~Suspended(n, n.cur))
    BY <2>1, TickOrderly
  <2> QED BY <2>2 DEF k0
<1> HIDE DEF k
<1>3. /\ \A u \in Thread : Onward(u)
      /\ pc' \in [Thread -> PC] /\ arg' \in [Thread -> Mutex \cup Thread \cup {None}]
  BY <1>1, OnwardSame
<1> QED BY <1>1, <1>2, <1>3, SwitchStep

-----------------------------------------------------------------------------
(* Interrupts that wake a thread *)

\* An interrupt wakes u, which was waiting, with the error e.
LEMMA WokenStep ==
  ASSUME Consistent, NEW k, NEW u \in Thread, NEW e, InOrder(k, Closed),
         Awakened(k, s.k, {u}, e), ~Suspended(k, k.cur), s' = [s EXCEPT !.k = k],
         UNCHANGED <<pc, arg, value, live>>, Suspended(s.k, u), ~Closing(u),
         InTake(u) => e # "EOK", Nested => s.pending[u] = None
  PROVE  Consistent' /\ AbsStep
<1>1. k \in Kernel /\ s \in MutexState
  BY InvFacts, OrderlyFacts
<1>2. /\ s' \in MutexState /\ s'.k = k /\ s'.owner = s.owner /\ s'.hold = s.hold
      /\ s'.taken = s.taken /\ s'.pending = s.pending
  BY <1>1 DEF MutexState
<1>3. SameOwners(s', s)
  BY <1>2 DEF SameOwners
<1>4. Leaves'
  BY <1>2 DEF Leaves
<1>5. Typed /\ \A x \in Thread : Onward(x)
  BY <1>2, <1>4, InvFacts, OnwardSame DEF Typed
<1>6. /\ \A o \in WaitObj : ToSet(k.wait[o]) = ToSet(s.k.wait[o]) \ {u}
      /\ \A x \in Thread : k.error[x] = IF x \in {u} THEN e ELSE s.k.error[x]
      /\ \A x \in Thread : Suspended(k, x) <=> Suspended(s.k, x) /\ x \notin {u}
      /\ k.timer \subseteq s.k.timer
  BY DEF Awakened
<1>7. Moves({u})
  <2>1. \A x \in Thread, o \in WaitObj :
           Waits(s'.k, x, o) <=> Waits(s.k, x, o) /\ x \notin {u}
    BY <1>2, <1>6 DEF Waits
  <2> QED BY <1>2, <1>5, <1>6, <2>1 DEF Moves
<1>8. \A x \in Thread : InTake(x)' => \/ s'.k.error[x] # "EOK"
                                      \/ x \notin {u} /\ s'.k.error[x] = s.k.error[x]
  BY <1>2, <1>6 DEF InTake
<1> QED BY <1>3, <1>7, <1>8, WakeStep

\* rt_sem_release: whoever waits for the semaphore is in no take.
LEMMA IsrStep ==
  ASSUME Consistent, IsrSemRelease
  PROVE  Consistent' /\ AbsStep
<1>1. CASE HasWaiter(s.k, Sem)
  <2> DEFINE k0 == s.k
             u == Head(s.k.wait[Sem])
             r == ResumeFirst(s.k, Sem)
             k == Schedule(r)
  <2>1. s' = [s EXCEPT !.k = k] /\ UNCHANGED <<pc, arg, value, live>>
    BY <1>1 DEF IsrSemRelease
  <2>2. /\ InOrder(r, Closed) /\ Awakened(r, s.k, {u}, "EOK")
        /\ u \in Thread /\ u \in ToSet(s.k.wait[Sem]) /\ Suspended(s.k, u)
    <3>1. InOrder(k0, Closed) /\ Sem \in WaitObj /\ HasWaiter(k0, Sem)
      BY <1>1, InvFacts, Objects
    <3> HIDE DEF k0
    <3>2. LET n == ResumeFirst(k0, Sem)
              t == Head(k0.wait[Sem])
          IN /\ InOrder(n, Closed) /\ Awakened(n, k0, {t}, "EOK") /\ n.cur = k0.cur
             /\ t \in Thread /\ t \in ToSet(k0.wait[Sem]) /\ Suspended(k0, t)
      BY <3>1, ResumeFirstOrderly
    <3> QED BY <3>2 DEF k0
  <2> HIDE DEF u, r
  <2>3. InOrder(k, Closed) /\ Awakened(k, s.k, {u}, "EOK") /\ ~Suspended(k, k.cur)
    <3> DEFINE W == {u}
    <3>1. InOrder(r, Closed) /\ Awakened(r, k0, W, "EOK")
      BY <2>2
    <3> HIDE DEF k0, W
    <3>2. LET m == Schedule(r)
          IN InOrder(m, Closed) /\ Awakened(m, k0, W, "EOK") /\ ~Suspended(m, m.cur)
      BY <3>1, WokenThenScheduled
    <3> QED BY <3>2 DEF k0, W
  <2> HIDE DEF k
  <2>4. Waits(s.k, u, Sem)
    BY <2>2 DEF Waits
  <2>5. Goal(u) = Sem /\ ~Closing(u)
    BY <2>2, <2>4, Objects, ThreadFacts
  <2>6. ~InTake(u)
    <3>1. InTake(u) => arg[u] \in Mutex
      BY <2>2, ThreadFacts
    <3> QED BY <2>5, <3>1, Objects DEF Goal
  <2>7. Nested => s.pending[u] = None
    <3>1. ASSUME Nested, s.pending[u] # None PROVE FALSE
      <4>1. Waits(s.k, u, s.pending[u])
        BY <2>2, <2>5, <3>1 DEF Consistent, PendingWaits
      <4>2. s.pending[u] \in Mutex
        BY <2>2, <3>1, InvFacts, StateFacts
      <4> QED BY <2>2, <2>6, <4>1, <4>2, ThreadFacts
    <3> QED BY <3>1
  <2> QED BY <2>1, <2>2, <2>3, <2>5, <2>6, <2>7, WokenStep
<1>2. CASE ~HasWaiter(s.k, Sem)
  <2>1. s' = s /\ pc' = pc /\ arg' = arg /\ value' = 1 /\ live' = live
    BY <1>2 DEF IsrSemRelease
  <2>2. Calm(s', s, Closed)
    BY <2>1, InvFacts, CalmSame
  <2>3. /\ s' \in MutexState /\ SameOwners(s', s) /\ InOrder(s'.k, Closed)
        /\ Keeps(s'.k, s.k)
    BY <2>2 DEF Calm
  <2>4. Typed /\ \A u \in Thread : Onward(u)
    BY <2>1, InvFacts, OnwardSame DEF Typed, Leaves
  <2> QED BY <2>1, <2>3, <2>4, QuietStep
<1> QED BY <1>1, <1>2

\* The time of a wait is up.
LEMMA ExpireStep ==
  ASSUME Consistent, NEW u \in Thread, TimerExpire(u)
  PROVE  Consistent' /\ AbsStep
<1> DEFINE k == ThreadTimeout(s.k, u)
<1>1. u \in s.k.timer /\ s' = [s EXCEPT !.k = k] /\ UNCHANGED <<pc, arg, value, live>>
  BY DEF TimerExpire
<1>2. Suspended(s.k, u)
  BY <1>1, InvFacts DEF InOrder
<1>3. InOrder(k, Closed) /\ Awakened(k, s.k, {u}, "ETIMEOUT") /\ ~Suspended(k, k.cur)
  <2> DEFINE k0 == s.k
  <2>1. InOrder(k0, Closed) /\ Suspended(k0, u)
    BY <1>2, InvFacts
  <2> HIDE DEF k0
  <2>2. LET n == ThreadTimeout(k0, u)
        IN InOrder(n, Closed) /\ Awakened(n, k0, {u}, "ETIMEOUT") /\ ~Suspended(n, n.cur)
    BY <2>1, TimeoutOrderly
  <2> QED BY <2>2 DEF k0
<1> HIDE DEF k
<1>4. ~Closing(u)
  BY <1>1, ThreadFacts
<1>5. ~Nested
  BY <1>1 DEF Consistent, PendingWaits
<1> QED BY <1>1, <1>2, <1>3, <1>4, <1>5, WokenStep

-----------------------------------------------------------------------------
(* rt_mutex_release by the owner *)

\* The owner goes on to l once the threads in W no longer wait for the mutex.
LEMMA ReleaseMoves ==
  ASSUME Consistent, NEW t \in Thread, NEW m \in Mutex, ReleaseOwned(t, m),
         s' \in MutexState, InOrder(s'.k, Closed), s'.k.cur = s.k.cur,
         NEW W, NEW e, Awakened(s'.k, s.k, W, e), \A u \in W : u \in Thread /\ Waits(s.k, u, m)
  PROVE  /\ Moves(W) /\ live' = live
         /\ \A x \in Thread : InTake(x)' => x \in W \/ s'.k.error[x] = s.k.error[x]
         /\ \A x \in Thread, y \in Mutex : Waits(s.k, x, y) => x # t
         /\ \A x \in Thread : InTake(x) => x # t
<1>1. At(t, "run") /\ arg' = arg /\ value' = value
  BY DEF ReleaseOwned, Calls
<1>2. PICK l \in {"sched", "run"} : Goto(t, l)
  BY DEF ReleaseOwned
<1>3. t = s.k.cur /\ ~Suspended(s.k, t) /\ pc[t] = "run"
  BY <1>1, AtFacts
<1>4. /\ \A u \in Thread : Onward(u)
      /\ pc' \in [Thread -> PC] /\ arg' \in [Thread -> Mutex \cup Thread \cup {None}]
      /\ live' = live
  <2>1. l \in PC /\ l # "close" /\ pc[t] # "close" /\ l \notin {"takeSched", "taken"}
    BY <1>2, <1>3 DEF PC
  <2> QED BY <1>1, <1>2, <1>3, <2>1, OnwardGoto
<1>5. /\ \A o \in WaitObj : ToSet(s'.k.wait[o]) = ToSet(s.k.wait[o]) \ W
      /\ \A x \in Thread : s'.k.error[x] = IF x \in W THEN e ELSE s.k.error[x]
      /\ \A x \in Thread : Suspended(s'.k, x) <=> Suspended(s.k, x) /\ x \notin W
      /\ s'.k.timer \subseteq s.k.timer
  BY DEF Awakened
<1>6. Leaves'
  BY <1>3, <1>5 DEF Leaves
<1>7. Typed
  BY <1>1, <1>4, <1>6, InvFacts DEF Typed
<1>8. \A u \in W : u \in Thread /\ Suspended(s.k, u) /\ ~Closing(u)
  BY Objects, ThreadFacts
<1>9. \A u \in Thread, o \in WaitObj : Waits(s'.k, u, o) <=> Waits(s.k, u, o) /\ u \notin W
  BY <1>5 DEF Waits
<1>10. Moves(W)
  BY <1>4, <1>5, <1>7, <1>8, <1>9 DEF Moves
<1>11. \A x \in Thread, y \in Mutex : Waits(s.k, x, y) => x # t
  BY <1>3, Objects, ThreadFacts
<1> QED BY <1>3, <1>4, <1>5, <1>10, <1>11 DEF InTake

\* what is known when a thread calls rt_mutex_release for a mutex it owns
LEMMA ReleaseCalled ==
  ASSUME Consistent, NEW t \in Thread, NEW m \in Mutex, ReleaseOwned(t, m)
  PROVE  /\ Ordered(s, Closed) /\ m \in live /\ s.owner[m] = t /\ s' = Release(s, t, m)
         /\ \A x \in Thread : m \in s.taken[x] => x = t
         /\ s.hold[m] \in Nat /\ s.hold[m] > 0 /\ t \notin Closed /\ ~Suspended(s.k, t)
<1>1. /\ m \in live /\ s.owner[m] = t /\ s' = Release(s, t, m) /\ At(t, "run")
  BY DEF ReleaseOwned, Calls
<1>2. s.hold[m] \in 0..HoldMax /\ s.hold[m] > 0
  BY <1>1, OwnerFacts, Objects
<1>3. s.hold[m] \in Nat
  BY <1>2, MutexAssumption
<1> QED BY <1>1, <1>2, <1>3, InvFacts, OwnerFacts, AtFacts

LEMMA ReleaseLevelStep ==
  ASSUME Consistent, NEW t \in Thread, NEW m \in Mutex, ReleaseOwned(t, m), s.hold[m] > 1
  PROVE  Consistent' /\ AbsStep
<1> DEFINE h == s.hold[m] - 1
<1>1. /\ Ordered(s, Closed) /\ m \in live /\ s.owner[m] = t /\ s' = Release(s, t, m)
      /\ s.hold[m] \in Nat /\ t \notin Closed /\ ~Suspended(s.k, t)
  BY ReleaseCalled
<1>2. /\ s' \in MutexState /\ s'.k = s.k /\ s'.owner = s.owner /\ s'.taken = s.taken
      /\ s'.pending = s.pending
      /\ \A x \in Mutex : s'.hold[x] = IF x = m THEN h ELSE s.hold[x]
  BY <1>1, ReleaseLevel
<1>3. h \in Nat /\ h > 0 /\ h = s.hold[m] - 1
  BY <1>1
<1> HIDE DEF h
<1>4. Awakened(s'.k, s.k, {}, "EOK") /\ InOrder(s'.k, Closed) /\ s'.k.cur = s.k.cur
  BY <1>2, InvFacts DEF Awakened
<1>5. /\ Moves({}) /\ live' = live
      /\ \A x \in Thread : InTake(x)' => x \in {} \/ s'.k.error[x] = s.k.error[x]
      /\ \A x \in Thread, y \in Mutex : Waits(s.k, x, y) => x # t
      /\ \A x \in Thread : InTake(x) => x # t
  <2> DEFINE W == {}
  <2>1. Awakened(s'.k, s.k, W, "EOK") /\ \A u \in W : u \in Thread /\ Waits(s.k, u, m)
    BY <1>4
  <2> HIDE DEF W
  <2>2. /\ Moves(W) /\ live' = live
        /\ \A x \in Thread : InTake(x)' => x \in W \/ s'.k.error[x] = s.k.error[x]
        /\ \A x \in Thread, y \in Mutex : Waits(s.k, x, y) => x # t
        /\ \A x \in Thread : InTake(x) => x # t
    BY <1>2, <1>4, <2>1, ReleaseMoves
  <2> QED BY <2>2 DEF W
<1>6. Given(s', s, m, t, h)
  <2>1. \A u \in Thread : m \in s.taken[u] <=> u = t
    BY <1>1, OwnerFacts
  <2>2. s.owner[m] = t /\ s'.owner = s.owner /\ s'.taken = s.taken
    BY <1>1, <1>2
  <2>3. \A x \in Mutex : s'.hold[x] = IF x = m THEN h ELSE s.hold[x]
    BY <1>2
  <2> QED BY <2>1, <2>2, <2>3 DEF Given
<1>7. Consistent' /\ (m # AnyMutex => AbsStep)
  <2>1. \A x \in Thread : s'.pending[x] = s.pending[x]
    BY <1>2
  <2>2. \A x \in Thread : Waits(s.k, x, m) => t # None /\ t # x
    BY <1>5, Objects
  <2>3. \A x \in Thread : InTake(x) => s.owner[m] # x
    BY <1>1, <1>5
  <2>4. t # None
    BY Objects
  <2>5. \A x \in Thread : InTake(x)' => s'.k.error[x] = s.k.error[x]
    BY <1>5
  <2> QED BY <1>1, <1>3, <1>5, <1>6, <2>1, <2>2, <2>3, <2>4, <2>5, GivenStep
<1>8. m = AnyMutex => AbsStep
  <2>1. s'.owner[m] = s.owner[m] /\ s'.hold[m] = s.hold[m] - 1
    BY <1>2, <1>3
  <2>2. s'.k.wait = s.k.wait
    BY <1>2
  <2>3. m = AnyMutex => Abs!LetGo
    BY <1>1, <1>5, <2>1, <2>2 DEF Abs!LetGo
  <2> QED BY <2>3 DEF AbsStep, Abs!Next
<1> QED BY <1>7, <1>8

LEMMA ReleaseHandsOverStep ==
  ASSUME Consistent, NEW t \in Thread, NEW m \in Mutex, ReleaseOwned(t, m), s.hold[m] = 1,
         HasWaiter(s.k, m)
  PROVE  Consistent' /\ AbsStep
<1>1. /\ Ordered(s, Closed) /\ m \in live /\ s.owner[m] = t /\ s' = Release(s, t, m)
      /\ \A x \in Thread : m \in s.taken[x] => x = t
  BY ReleaseCalled
<1>2. PICK u \in Thread :
        /\ Waits(s.k, u, m) /\ s' \in MutexState /\ InOrder(s'.k, Closed)
        /\ s'.k.cur = s.k.cur /\ Given(s', s, m, u, 1)
        /\ \A x \in Thread : s'.pending[x] = IF x = u THEN None ELSE s.pending[x]
        /\ Awakened(s'.k, s.k, {u}, s.k.error[u])
  <2>1. \E u \in Thread : HandedOver(Release(s, t, m), s, m, u, Closed)
    BY <1>1, ReleaseHandsOver
  <2> QED BY <1>1, <2>1 DEF HandedOver
<1>3. /\ Moves({u}) /\ live' = live
      /\ \A x \in Thread : InTake(x)' => x \in {u} \/ s'.k.error[x] = s.k.error[x]
      /\ \A x \in Thread, y \in Mutex : Waits(s.k, x, y) => x # t
      /\ \A x \in Thread : InTake(x) => x # t
  <2> DEFINE W == {u}
             e == s.k.error[u]
  <2>1. Awakened(s'.k, s.k, W, e) /\ \A x \in W : x \in Thread /\ Waits(s.k, x, m)
    BY <1>2
  <2> HIDE DEF W, e
  <2>2. /\ Moves(W) /\ live' = live
        /\ \A x \in Thread : InTake(x)' => x \in W \/ s'.k.error[x] = s.k.error[x]
        /\ \A x \in Thread, y \in Mutex : Waits(s.k, x, y) => x # t
        /\ \A x \in Thread : InTake(x) => x # t
    BY <1>2, <2>1, ReleaseMoves
  <2> QED BY <2>2 DEF W
<1>4. u # None /\ u \notin Closed
  BY <1>2, Objects, ThreadFacts
<1>5. Consistent' /\ (m # AnyMutex => AbsStep)
  <2> DEFINE W == {u}
  <2>1. \A x \in W : Waits(s.k, x, m) /\ x = u
    BY <1>2
  <2>2. \A x \in Thread : s'.pending[x] = IF x \in W THEN None ELSE s.pending[x]
    BY <1>2
  <2>3. \A x \in Thread : Waits(s.k, x, m) /\ x \notin W => u # None /\ u # x
    BY <1>4
  <2>4. \A x \in Thread : InTake(x) => s.owner[m] # x
    BY <1>1, <1>3
  <2>5. Moves(W) /\ (Suspended(s.k, u) => u \in W) /\ 1 \in Nat /\ 1 > 0
    BY <1>3
  <2>6. \A x \in Thread : InTake(x)' => x \in W \/ s'.k.error[x] = s.k.error[x]
    BY <1>3
  <2> HIDE DEF W
  <2> QED BY <1>1, <1>2, <1>3, <1>4, <2>1, <2>2, <2>3, <2>4, <2>5, <2>6, GivenStep
<1>6. m = AnyMutex => AbsStep
  <2>1. s'.owner[m] = u /\ s'.hold[m] = 1
    BY <1>2 DEF Given
  <2>2. ToSet(s'.k.wait[m]) = ToSet(s.k.wait[m]) \ {u} /\ u \in ToSet(s.k.wait[m])
    BY <1>2, Objects DEF Awakened, Waits
  <2>3. m = AnyMutex => Abs!HandOver(u)
    BY <1>1, <1>3, <2>1, <2>2 DEF Abs!HandOver
  <2> QED BY <2>3 DEF AbsStep, Abs!Next
<1> QED BY <1>5, <1>6

LEMMA ReleaseFreesStep ==
  ASSUME Consistent, NEW t \in Thread, NEW m \in Mutex, ReleaseOwned(t, m), s.hold[m] = 1,
         ~HasWaiter(s.k, m)
  PROVE  Consistent' /\ AbsStep
<1>1. /\ Ordered(s, Closed) /\ m \in live /\ s.owner[m] = t /\ s' = Release(s, t, m)
      /\ \A x \in Thread : m \in s.taken[x] => x = t
  BY ReleaseCalled
<1>2. /\ s' \in MutexState /\ InOrder(s'.k, Closed) /\ s'.k.cur = s.k.cur
      /\ Given(s', s, m, None, 0) /\ s'.pending = s.pending /\ Keeps(s'.k, s.k)
  BY <1>1, ReleaseFrees
<1>3. /\ Moves({}) /\ live' = live
      /\ \A x \in Thread : InTake(x)' => s'.k.error[x] = s.k.error[x]
      /\ \A x \in Thread : InTake(x) => x # t
  <2> DEFINE W == {}
  <2>1. Awakened(s'.k, s.k, W, "EOK") /\ \A u \in W : u \in Thread /\ Waits(s.k, u, m)
    BY <1>2 DEF Keeps
  <2> HIDE DEF W
  <2>2. /\ Moves(W) /\ live' = live
        /\ \A x \in Thread : InTake(x)' => x \in W \/ s'.k.error[x] = s.k.error[x]
        /\ \A x \in Thread : InTake(x) => x # t
    BY <1>2, <2>1, ReleaseMoves
  <2> QED BY <2>2 DEF W
<1>4. ToSet(s.k.wait[m]) = {} /\ ToSet(s'.k.wait[m]) = {}
  <2>1. m \in WaitObj
    BY Objects
  <2>2. ToSet(s.k.wait[m]) = {}
    <3> DEFINE k0 == s.k
    <3>1. InOrder(k0, Closed) /\ ~HasWaiter(k0, m)
      BY InvFacts
    <3> HIDE DEF k0
    <3>2. ToSet(k0.wait[m]) = {}
      BY <2>1, <3>1, OrderlyFacts
    <3> QED BY <3>2 DEF k0
  <2> QED BY <1>2, <2>1, <2>2 DEF Keeps, Awakened
<1>5. Consistent' /\ (m # AnyMutex => AbsStep)
  <2>1. \A x \in Thread : s'.pending[x] = s.pending[x]
    BY <1>2
  <2>2. \A x \in Thread : ~Waits(s.k, x, m)
    BY <1>4 DEF Waits
  <2>3. \A x \in Thread : InTake(x) => s.owner[m] # x
    BY <1>1, <1>3
  <2>4. None \notin Closed /\ None \in Thread \cup {None} /\ 0 \in Nat /\ ~(0 > 0)
    BY MutexAssumption DEF Closed
  <2> QED BY <1>1, <1>2, <1>3, <2>1, <2>2, <2>3, <2>4, GivenStep
<1>6. m = AnyMutex => AbsStep
  <2>1. s'.owner[m] = None /\ s'.hold[m] = 0
    BY <1>2 DEF Given
  <2>2. m = AnyMutex => Abs!Free
    BY <1>1, <1>3, <1>4, <2>1 DEF Abs!Free
  <2> QED BY <2>2 DEF AbsStep, Abs!Next
<1> QED BY <1>5, <1>6

LEMMA ReleaseStep ==
  ASSUME Consistent, NEW t \in Thread, NEW m \in Mutex, ReleaseOwned(t, m)
  PROVE  Consistent' /\ AbsStep
<1>1. s.hold[m] \in Nat /\ s.hold[m] > 0
  BY ReleaseCalled
<1>2. s.hold[m] > 1 \/ s.hold[m] = 1
  BY <1>1
<1> QED BY <1>2, ReleaseLevelStep, ReleaseHandsOverStep, ReleaseFreesStep

-----------------------------------------------------------------------------
(* rt_mutex_detach and rt_mutex_init *)

LEMMA DetachStep ==
  ASSUME Consistent, Careful, NEW t \in Thread, NEW m \in Mutex, Detach(t, m)
  PROVE  Consistent' /\ AbsStep
<1> DEFINE W == ToSet(s.k.wait[m])
<1>1. /\ At(t, "run") /\ m \in live /\ s' = DetachMutex(s, m) /\ live' = live \ {m}
      /\ pc' = pc /\ arg' = arg /\ value' = value /\ ~Nested
  BY DEF Detach, Calls, Careful
<1>2. /\ s' \in MutexState /\ InOrder(s'.k, Closed) /\ s'.k.cur = s.k.cur
      /\ s'.owner = s.owner /\ s'.hold = s.hold /\ s'.pending = s.pending
      /\ \A x \in Thread, y \in Mutex : y \in s'.taken[x] <=> y # m /\ y \in s.taken[x]
      /\ Awakened(s'.k, s.k, W, "ERROR")
  BY <1>1, InvFacts, DetachLemma
<1>3. \A x \in W : x \in Thread /\ Waits(s.k, x, m)
  <2> DEFINE k0 == s.k
  <2>1. InOrder(k0, Closed) /\ m \in WaitObj
    BY InvFacts, Objects
  <2> HIDE DEF k0
  <2>2. ToSet(k0.wait[m]) \subseteq Thread
    BY <2>1, OrderlyFacts
  <2> QED BY <2>2 DEF Waits, k0
<1>4. \A x \in Thread : Waits(s.k, x, m) => x \in W
  BY DEF Waits
<1> HIDE DEF W
<1>5. /\ \A o \in WaitObj : ToSet(s'.k.wait[o]) = ToSet(s.k.wait[o]) \ W
      /\ \A x \in Thread : s'.k.error[x] = IF x \in W THEN "ERROR" ELSE s.k.error[x]
      /\ \A x \in Thread : Suspended(s'.k, x) <=> Suspended(s.k, x) /\ x \notin W
      /\ s'.k.timer \subseteq s.k.timer
  BY <1>2 DEF Awakened
<1>6. Moves(W)
  <2>1. t = s.k.cur /\ ~Suspended(s.k, t)
    BY <1>1, AtFacts
  <2>2. Leaves'
    BY <1>2, <1>5, <2>1 DEF Leaves
  <2>3. Typed /\ \A u \in Thread : Onward(u)
    BY <1>1, <1>2, <2>2, InvFacts, OnwardSame DEF Typed
  <2>4. \A u \in W : u \in Thread /\ Suspended(s.k, u) /\ ~Closing(u)
    BY <1>3, Objects, ThreadFacts
  <2>5. \A u \in Thread, o \in WaitObj : Waits(s'.k, u, o) <=> Waits(s.k, u, o) /\ u \notin W
    BY <1>5 DEF Waits
  <2> QED BY <1>5, <2>3, <2>4, <2>5 DEF Moves
<1>7. Owned'
  <2>1. Closed' = Closed
    BY <1>2, ClosedSame
  <2> SUFFICES ASSUME NEW x \in Mutex
               PROVE  /\ \A u \in Thread : x \in s'.taken[u] <=> x \in live' /\ s'.owner[x] = u
                      /\ x \in live' => (s'.hold[x] > 0 <=> s'.owner[x] # None)
                      /\ s'.owner[x] \notin Closed'
                      /\ s'.owner[x] # None /\ ~Nested => ~Suspended(s'.k, s'.owner[x])
    BY DEF Owned
  <2>2. \A u \in Thread : x \in s'.taken[u] <=> x \in live' /\ s'.owner[x] = u
    BY <1>1, <1>2, OwnerFacts
  <2>3. s.owner[x] # None => ~Suspended(s'.k, s.owner[x])
    BY <1>1, <1>5, OwnerFacts
  <2> QED BY <1>1, <1>2, <2>1, <2>2, <2>3, OwnerFacts
<1>8. Consistent'
  <2>1. \A x \in Thread, y \in Mutex :
          Waits(s.k, x, y) /\ x \notin W =>
            y \in live' /\ s'.pending[x] = s.pending[x] /\ s'.owner[y] # None /\ s'.owner[y] # x
    BY <1>1, <1>2, <1>4, ThreadFacts
  <2>2. \A x \in Thread : s'.taken[x] \subseteq s.taken[x]
    <3>1. \A x \in Thread : s'.taken[x] \in SUBSET Mutex
      BY <1>2, StateFacts
    <3> QED BY <1>2, <3>1
  <2>3. \A x \in Thread : Knows(x, W)
    BY <1>2, <1>5 DEF Knows
  <2> QED BY <1>1, <1>6, <1>7, <2>1, <2>2, <2>3, MovesInv
<1>9. m # AnyMutex => AbsStep
  <2>1. \A x \in W : Waits(s.k, x, m)
    BY <1>3
  <2>2. m # AnyMutex => (AnyMutex \in live' <=> AnyMutex \in live)
    BY <1>1
  <2> QED BY <1>2, <1>6, <2>1, <2>2, ApartStep
<1>10. m = AnyMutex => AbsStep
  <2>1. ToSet(s'.k.wait[m]) = {}
    BY <1>5, Objects DEF W
  <2>2. s'.owner[m] = s.owner[m] /\ s'.hold[m] = s.hold[m]
    BY <1>2
  <2>3. m = AnyMutex => Abs!Withdraw
    BY <1>1, <2>1, <2>2 DEF Abs!Withdraw
  <2> QED BY <2>3 DEF AbsStep, Abs!Next
<1> QED BY <1>8, <1>9, <1>10

LEMMA InitAgainStep ==
  ASSUME Consistent, Careful, NEW t \in Thread, NEW m \in Mutex, InitAgain(t, m)
  PROVE  Consistent' /\ AbsStep
<1>1. /\ At(t, "run") /\ m \notin live /\ s' = InitMutex(s, m) /\ live' = live \cup {m}
      /\ \A u \in Thread : arg[u] # m
      /\ pc' = pc /\ arg' = arg /\ value' = value /\ ~Nested
  BY DEF InitAgain, Calls, Careful
<1>2. /\ s' \in MutexState /\ s'.k = s.k /\ s'.taken = s.taken /\ s'.pending = s.pending
      /\ \A x \in Mutex : /\ s'.owner[x] = IF x = m THEN None ELSE s.owner[x]
                          /\ s'.hold[x] = IF x = m THEN 0 ELSE s.hold[x]
  BY <1>1, InvFacts, InitMutexLemma
<1>3. Moves({})
  <2>1. live' \subseteq Mutex
    BY <1>1, InvFacts
  <2> QED BY <1>1, <1>2, <2>1, InvFacts, RunningMoves
<1>4. Owned'
  <2>1. Closed' = Closed
    BY <1>2, InvFacts, ClosedSame
  <2> SUFFICES ASSUME NEW x \in Mutex
               PROVE  /\ \A u \in Thread : x \in s'.taken[u] <=> x \in live' /\ s'.owner[x] = u
                      /\ x \in live' => (s'.hold[x] > 0 <=> s'.owner[x] # None)
                      /\ s'.owner[x] \notin Closed'
                      /\ s'.owner[x] # None /\ ~Nested => ~Suspended(s'.k, s'.owner[x])
    BY DEF Owned
  <2>2. CASE x = m
    <3>1. \A u \in Thread : x \notin s'.taken[u] /\ u # None
      BY <1>1, <1>2, <2>2, OwnerFacts, Objects
    <3>2. s'.owner[x] = None /\ s'.hold[x] = 0 /\ None \notin Closed
      BY <1>2, <2>2, MutexAssumption DEF Closed
    <3> QED BY <2>1, <3>1, <3>2
  <2>3. CASE x # m
    BY <1>1, <1>2, <2>1, <2>3, OwnerFacts
  <2> QED BY <2>2, <2>3
<1>5. Consistent'
  <2>1. \A x \in Thread, y \in Mutex :
          Waits(s.k, x, y) =>
            y \in live' /\ s'.pending[x] = s.pending[x] /\ s'.owner[y] # None /\ s'.owner[y] # x
    BY <1>1, <1>2, ThreadFacts
  <2>2. \A x \in Thread : InTake(x)' /\ x \notin Closed => Knows(x, {})
    <3> SUFFICES ASSUME NEW x \in Thread, InTake(x)', x \notin Closed PROVE Knows(x, {})
      OBVIOUS
    <3>1. arg[x] \in Mutex /\ arg[x] # m
      BY <1>1, ThreadFacts DEF InTake
    <3> QED BY <1>2, <3>1 DEF Knows
  <2>3. \A x \in Thread : s'.taken[x] \subseteq s.taken[x]
    BY <1>2
  <2> QED BY <1>1, <1>3, <1>4, <2>1, <2>2, <2>3, MovesInv
<1>6. AbsStep
  <2> DEFINE A == AnyMutex
  <2>1. A \in Mutex
    BY MutexAssumption DEF AnyMutex
  <2>2. CASE A = m
    <3>1. Abs!Renew
      BY <1>1, <1>2, <2>1, <2>2 DEF Abs!Renew
    <3> QED BY <3>1 DEF AbsStep, Abs!Next
  <2>3. CASE A # m
    <3>1. /\ s'.owner[A] = s.owner[A] /\ s'.hold[A] = s.hold[A] /\ s'.k = s.k
          /\ (A \in live') = (A \in live)
      BY <1>1, <1>2, <2>1, <2>3
    <3> QED BY <3>1 DEF AbsStep, Abs!vars
  <2> QED BY <2>2, <2>3
<1> QED BY <1>5, <1>6

-----------------------------------------------------------------------------
(* rt_thread_detach of a thread that waits *)

\* The first section: u, still suspended, leaves the list it waits in.
LEMMA CloseStep ==
  ASSUME Consistent, NEW t \in Thread, NEW u \in App \ {t}, Close(t, u)
  PROVE  Consistent' /\ AbsStep
<1> DEFINE k == RemoveThread(s.k, u)
<1>1. /\ At(t, "run") /\ Suspended(s.k, u) /\ u \notin s.k.timer /\ s.taken[u] = {}
      /\ \A v \in Thread : arg[v] # u
      /\ s' = [s EXCEPT !.k = k] /\ pc' = [pc EXCEPT ![t] = "close"]
      /\ arg' = [arg EXCEPT ![t] = u] /\ value' = value /\ live' = live
  BY DEF Close, Calls, Goto, Aim
<1>2. /\ u \in Thread /\ u # t /\ t = s.k.cur /\ ~Suspended(s.k, t) /\ pc[t] = "run"
      /\ t \notin Closed
  BY <1>1, AtFacts DEF App
<1>3. InOrder(k, Closed) /\ Unlinked(k, s.k, u)
  <2> DEFINE k0 == s.k
  <2>1. InOrder(k0, Closed) /\ Suspended(k0, u)
    BY <1>1, InvFacts
  <2> HIDE DEF k0
  <2>2. LET n == RemoveThread(k0, u) IN InOrder(n, Closed) /\ Unlinked(n, k0, u)
    BY <1>2, <2>1, RemoveOrderly
  <2> QED BY <2>2 DEF k0
<1> HIDE DEF k
<1>4. /\ s' \in MutexState /\ s'.k = k /\ s'.owner = s.owner /\ s'.hold = s.hold
      /\ s'.taken = s.taken /\ s'.pending = s.pending
  <2>1. k \in Kernel /\ s \in MutexState
    BY <1>3, InvFacts, OrderlyFacts
  <2> QED BY <1>1, <2>1 DEF MutexState
<1>5. /\ \A o \in WaitObj, x \in Thread : Waits(s'.k, x, o) <=> Waits(s.k, x, o) /\ x # u
      /\ \A x : Suspended(s'.k, x) <=> Suspended(s.k, x)
      /\ s'.k.error = s.k.error /\ s'.k.timer = s.k.timer /\ s'.k.cur = t
  BY <1>2, <1>3, <1>4 DEF Unlinked, Waits, Suspended
<1>6. /\ pc'[t] = "close" /\ arg'[t] = u
      /\ \A x \in Thread : x # t => pc'[x] = pc[x] /\ arg'[x] = arg[x]
      /\ pc' \in [Thread -> PC] /\ arg' \in [Thread -> Mutex \cup Thread \cup {None}]
  BY <1>1, <1>2, InvFacts DEF PC
<1>7. /\ InOrder(s'.k, Closed) /\ Closed' = Closed
  BY <1>3, <1>4, ClosedSame
<1>8. \A x \in Thread : Closing(x)' <=> Closing(x) \/ x = u
  BY <1>2, <1>6 DEF Closing
<1>9. \A x \in Thread : x # t => (InTake(x)' <=> InTake(x)) /\ (InSem(x)' <=> InSem(x))
                                 /\ Goal(x)' = Goal(x)
  BY <1>6 DEF InTake, InSem, Goal
<1>10. ~InTake(t)'
  BY <1>6 DEF InTake
<1>11. InPlace'
  <2> SUFFICES ASSUME NEW x \in Thread
               PROVE  /\ InTake(x)' => IF x \in Closed' THEN arg'[x] = None ELSE arg'[x] \in Mutex
                      /\ Suspended(s'.k, x) => InTake(x)' \/ InSem(x)'
                      /\ \A o \in WaitObj : Waits(s'.k, x, o) <=>
                           Suspended(s'.k, x) /\ ~Closing(x)' /\ Goal(x)' = o
    BY DEF InPlace
  <2>1. CASE x = t
    <3>1. \A o \in WaitObj : ~Waits(s.k, x, o)
      BY <1>2, <2>1, ThreadFacts
    <3> QED BY <1>2, <1>5, <1>10, <2>1, <3>1
  <2>2. CASE x # t
    BY <1>5, <1>6, <1>7, <1>8, <1>9, <2>2, ThreadFacts
  <2> QED BY <2>1, <2>2
<1>12. HasOwner'
  <2> SUFFICES ASSUME NEW x \in Thread, NEW m \in Mutex, Waits(s'.k, x, m)
               PROVE  m \in live' /\ s'.pending[x] = m /\ s'.owner[m] # None /\ s'.owner[m] # x
    BY DEF HasOwner
  <2>1. Waits(s.k, x, m)
    BY <1>5, Objects
  <2> QED BY <1>1, <1>4, <2>1, ThreadFacts
<1>13. BeingClosed'
  <2> SUFFICES ASSUME NEW x \in Thread, pc'[x] = "close"
               PROVE  /\ arg'[x] \in Thread \ {x}
                      /\ Suspended(s'.k, arg'[x]) /\ arg'[x] \notin s'.k.timer
                      /\ s'.taken[arg'[x]] = {}
                      /\ \A v \in Thread : arg'[v] = arg'[x] => v = x
    BY DEF BeingClosed
  <2>1. CASE x = t
    BY <1>1, <1>2, <1>4, <1>5, <1>6, <2>1
  <2>2. CASE x # t
    <3>1. /\ arg[x] \in Thread \ {x} /\ Suspended(s.k, arg[x]) /\ arg[x] \notin s.k.timer
          /\ s.taken[arg[x]] = {} /\ \A v \in Thread : arg[v] = arg[x] => v = x
      BY <1>6, <2>2 DEF Consistent, BeingClosed
    <3>2. arg'[x] = arg[x] /\ arg[x] # u
      BY <1>1, <1>6, <2>2
    <3>3. \A v \in Thread : arg'[v] = arg[x] => v = x
      BY <1>6, <3>1, <3>2
    <3> QED BY <1>4, <1>5, <3>1, <3>2, <3>3
  <2> QED BY <2>1, <2>2
<1>14. Owned'
  <2> SUFFICES ASSUME NEW m \in Mutex
               PROVE  /\ \A x \in Thread : m \in s'.taken[x] <=> m \in live' /\ s'.owner[m] = x
                      /\ m \in live' => (s'.hold[m] > 0 <=> s'.owner[m] # None)
                      /\ s'.owner[m] \notin Closed'
                      /\ s'.owner[m] # None /\ ~Nested => ~Suspended(s'.k, s'.owner[m])
    BY DEF Owned
  <2> QED BY <1>1, <1>4, <1>5, <1>7, OwnerFacts
<1>15. PendingWaits'
  <2> SUFFICES ASSUME Nested
               PROVE  /\ s'.k.timer = {} /\ live' = Mutex
                      /\ \A x \in Thread : s'.pending[x] # None
                                             => Waits(s'.k, x, s'.pending[x]) \/ Closing(x)'
    BY DEF PendingWaits
  <2>1. /\ s.k.timer = {} /\ live = Mutex
        /\ \A x \in Thread : s.pending[x] # None => Waits(s.k, x, s.pending[x]) \/ Closing(x)
    BY DEF Consistent, PendingWaits
  <2>2. \A x \in Thread : s.pending[x] # None => s.pending[x] \in WaitObj
    BY InvFacts, StateFacts
  <2> QED BY <1>1, <1>4, <1>5, <1>8, <2>1, <2>2
<1>16. WokenOwns'
  <2> SUFFICES ASSUME NEW x \in Thread, InTake(x)', ~Suspended(s'.k, x), x \notin Closed',
                      s'.k.error[x] = "EOK"
               PROVE  s'.owner[arg'[x]] = x
    BY DEF WokenOwns
  <2>1. x # t /\ InTake(x) /\ arg'[x] = arg[x]
    BY <1>6, <1>9, <1>10
  <2>2. s.owner[arg[x]] = x
    BY <1>5, <1>7, <2>1 DEF Consistent, WokenOwns
  <2> QED BY <1>4, <2>1, <2>2
<1>17. Consistent'
  <2>1. Leaves'
    BY <1>2, <1>5 DEF Leaves
  <2>2. Typed
    BY <1>1, <1>4, <1>6, <1>7, <2>1, InvFacts DEF Typed
  <2>3. TypeOK' /\ InOrder(s.k, Closed)' /\ Leaves'
    BY <2>2, TypedInv
  <2> QED BY <1>11, <1>12, <1>13, <1>14, <1>15, <1>16, <2>3 DEF Consistent
<1>18. AbsStep
  <2> DEFINE A == AnyMutex
  <2>1. A \in Mutex /\ A \in WaitObj
    BY MutexAssumption DEF AnyMutex
  <2>2. /\ ToSet(s'.k.wait[A]) = ToSet(s.k.wait[A]) \ {u}
        /\ s'.owner[A] = s.owner[A] /\ s'.hold[A] = s.hold[A]
    BY <1>3, <1>4, <2>1 DEF Unlinked
  <2>3. CASE u \in ToSet(s.k.wait[A])
    <3>1. Abs!GiveUp(u)
      BY <1>1, <2>2, <2>3 DEF Abs!GiveUp
    <3> QED BY <1>2, <3>1 DEF AbsStep, Abs!Next
  <2>4. CASE u \notin ToSet(s.k.wait[A])
    <3>1. ToSet(s'.k.wait[A]) = ToSet(s.k.wait[A])
      BY <2>2, <2>4
    <3> QED BY <1>1, <2>2, <3>1 DEF AbsStep, Abs!vars
  <2> QED BY <2>3, <2>4
<1> QED BY <1>17, <1>18

\* The second section, when it comes to its end: the closed thread owns nothing and
\* was in no list of waiters any more.
CloseEnds(t, u, D) ==
  /\ t = s.k.cur /\ pc[t] = "close" /\ arg[t] = u /\ Joined(D, Closed, u)
  /\ Ends(s', s, u, D) /\ value' = value /\ live' = live
  /\ \E l \in {"sched", "run"} : pc' = [pc EXCEPT ![t] = l]
  /\ arg' = [arg EXCEPT ![t] = None, ![u] = None]

LEMMA CloseEndsStep ==
  ASSUME Consistent, NEW t \in Thread, NEW u, NEW D \in SUBSET Thread, CloseEnds(t, u, D)
  PROVE  Consistent' /\ AbsStep
<1>0. PICK l \in {"sched", "run"} : pc' = [pc EXCEPT ![t] = l]
  BY DEF CloseEnds
<1>1. /\ t = s.k.cur /\ pc[t] = "close" /\ arg[t] = u /\ value' = value /\ live' = live
      /\ pc' = [pc EXCEPT ![t] = l] /\ arg' = [arg EXCEPT ![t] = None, ![u] = None]
  BY <1>0 DEF CloseEnds
<1>2. /\ u \in Thread \ {t} /\ Suspended(s.k, u) /\ s.taken[u] = {}
      /\ \A v \in Thread : arg[v] = u => v = t
  BY <1>1 DEF Consistent, BeingClosed
<1>3. ~Suspended(s.k, t) /\ ~Closing(t) /\ t \notin Closed
  BY <1>1, AtFacts DEF At
<1>4. pc[u] # "close" /\ Closing(u) /\ \A o \in WaitObj : ~Waits(s.k, u, o)
  BY <1>1, <1>2, ThreadFacts DEF Closing
<1>5. /\ s' \in MutexState /\ InOrder(s'.k, D) /\ s'.k.cur = s.k.cur
      /\ s'.owner = s.owner /\ s'.hold = s.hold /\ s'.taken = s.taken
      /\ \A x \in Thread : s'.pending[x] = IF x = u THEN None ELSE s.pending[x]
      /\ \A x \in Thread : s'.k.error[x] = s.k.error[x]
      /\ \A x \in Thread : Suspended(s'.k, x) <=> Suspended(s.k, x) /\ x # u
      /\ s'.k.timer \subseteq s.k.timer
  BY DEF CloseEnds, Ends
<1>6. /\ \A o \in WaitObj : ToSet(s'.k.wait[o]) = ToSet(s.k.wait[o])
      /\ \A o \in WaitObj, x \in Thread : Waits(s'.k, x, o) <=> Waits(s.k, x, o)
  BY DEF CloseEnds, Ends, Waits
<1>7. Closed' = D
  <2>1. OnlyClosed(s'.k, D)
    BY <1>5, OrderlyFacts
  <2> QED BY <2>1 DEF OnlyClosed, Closed
<1>8. \A x \in Thread : x \in Closed' <=> x \in Closed \/ x = u
  BY <1>7 DEF CloseEnds, Joined
<1>9. /\ pc'[t] = l /\ arg'[t] = None /\ arg'[u] = None /\ pc'[u] = pc[u]
      /\ \A x \in Thread : x # t => pc'[x] = pc[x]
      /\ \A x \in Thread : x # t /\ x # u => arg'[x] = arg[x]
      /\ pc' \in [Thread -> PC] /\ arg' \in [Thread -> Mutex \cup Thread \cup {None}]
  BY <1>1, <1>2, InvFacts DEF PC
<1>10. ~InTake(t)' /\ ~InSem(t)'
  BY <1>9 DEF InTake, InSem
<1>11. \A x \in Thread : x # t /\ x # u =>
         (InTake(x)' <=> InTake(x)) /\ (InSem(x)' <=> InSem(x)) /\ Goal(x)' = Goal(x)
  BY <1>9 DEF InTake, InSem, Goal
<1>12. \A x \in Thread : x # u => (Closing(x)' <=> Closing(x))
  <2> TAKE x \in Thread
  <2>1. ASSUME x # u, NEW v \in Thread, pc'[v] = "close", arg'[v] = x
        PROVE  Closing(x)
    BY <1>4, <1>9, <2>1 DEF Closing
  <2>2. ASSUME x # u, NEW v \in Thread, pc[v] = "close", arg[v] = x
        PROVE  pc'[v] = "close" /\ arg'[v] = x
    BY <1>1, <1>4, <1>9, <2>2
  <2> QED BY <2>1, <2>2 DEF Closing
<1>13. InPlace'
  <2> SUFFICES ASSUME NEW x \in Thread
               PROVE  /\ InTake(x)' => IF x \in Closed' THEN arg'[x] = None ELSE arg'[x] \in Mutex
                      /\ Suspended(s'.k, x) => InTake(x)' \/ InSem(x)'
                      /\ \A o \in WaitObj : Waits(s'.k, x, o) <=>
                           Suspended(s'.k, x) /\ ~Closing(x)' /\ Goal(x)' = o
    BY DEF InPlace
  <2>1. CASE x = t
    <3>1. \A o \in WaitObj : ~Waits(s.k, x, o)
      BY <1>3, <2>1, ThreadFacts
    <3> QED BY <1>3, <1>5, <1>6, <1>10, <2>1, <3>1
  <2>2. CASE x = u
    BY <1>4, <1>5, <1>6, <1>8, <1>9, <2>2
  <2>3. CASE x # t /\ x # u
    BY <1>5, <1>6, <1>8, <1>9, <1>11, <1>12, <2>3, ThreadFacts
  <2> QED BY <2>1, <2>2, <2>3
<1>14. HasOwner'
  <2> SUFFICES ASSUME NEW x \in Thread, NEW m \in Mutex, Waits(s'.k, x, m)
               PROVE  m \in live' /\ s'.pending[x] = m /\ s'.owner[m] # None /\ s'.owner[m] # x
    BY DEF HasOwner
  <2>1. Waits(s.k, x, m) /\ x # u
    BY <1>4, <1>6, Objects
  <2> QED BY <1>1, <1>5, <2>1, ThreadFacts
<1>15. BeingClosed'
  <2> SUFFICES ASSUME NEW x \in Thread, pc'[x] = "close"
               PROVE  /\ arg'[x] \in Thread \ {x}
                      /\ Suspended(s'.k, arg'[x]) /\ arg'[x] \notin s'.k.timer
                      /\ s'.taken[arg'[x]] = {}
                      /\ \A v \in Thread : arg'[v] = arg'[x] => v = x
    BY DEF BeingClosed
  <2>1. x # t /\ x # u /\ pc[x] = "close" /\ arg'[x] = arg[x]
    BY <1>4, <1>9
  <2>2. /\ arg[x] \in Thread \ {x} /\ Suspended(s.k, arg[x]) /\ arg[x] \notin s.k.timer
        /\ s.taken[arg[x]] = {} /\ \A v \in Thread : arg[v] = arg[x] => v = x
    BY <2>1 DEF Consistent, BeingClosed
  <2>3. arg[x] # u /\ arg[x] # None
    BY <1>2, <2>1, <2>2, Objects
  <2>4. \A v \in Thread : arg'[v] = arg[x] => v = x
    BY <1>9, <2>2, <2>3
  <2> QED BY <1>5, <2>1, <2>2, <2>3, <2>4
<1>16. Owned'
  <2> SUFFICES ASSUME NEW m \in Mutex
               PROVE  /\ \A x \in Thread : m \in s'.taken[x] <=> m \in live' /\ s'.owner[m] = x
                      /\ m \in live' => (s'.hold[m] > 0 <=> s'.owner[m] # None)
                      /\ s'.owner[m] \notin Closed'
                      /\ s'.owner[m] # None /\ ~Nested => ~Suspended(s'.k, s'.owner[m])
    BY DEF Owned
  <2>1. s.owner[m] # u
    <3>1. CASE Nested
      <4>1. m \in live
        BY <3>1 DEF Consistent, PendingWaits
      <4> QED BY <1>2, <4>1, OwnerFacts
    <3>2. CASE ~Nested
      BY <1>2, <3>2, OwnerFacts, Objects
    <3> QED BY <3>1, <3>2
  <2>2. s.owner[m] \notin Closed'
    <3>1. Closed' \subseteq Thread
      BY <1>7
    <3> QED BY <1>8, <2>1, <3>1, OwnerFacts
  <2>3. s.owner[m] # None /\ ~Nested => ~Suspended(s'.k, s.owner[m])
    BY <1>5, OwnerFacts
  <2> QED BY <1>1, <1>5, <2>2, <2>3, OwnerFacts
<1>17. PendingWaits'
  <2> SUFFICES ASSUME Nested
               PROVE  /\ s'.k.timer = {} /\ live' = Mutex
                      /\ \A x \in Thread : s'.pending[x] # None
                                             => Waits(s'.k, x, s'.pending[x]) \/ Closing(x)'
    BY DEF PendingWaits
  <2>1. /\ s.k.timer = {} /\ live = Mutex
        /\ \A x \in Thread : s.pending[x] # None => Waits(s.k, x, s.pending[x]) \/ Closing(x)
    BY DEF Consistent, PendingWaits
  <2>2. \A x \in Thread : s.pending[x] # None => s.pending[x] \in WaitObj
    BY InvFacts, StateFacts
  <2>3. s'.k.timer = {}
    BY <1>5, <2>1
  <2>4. ASSUME NEW x \in Thread, s'.pending[x] # None
        PROVE  Waits(s'.k, x, s'.pending[x]) \/ Closing(x)'
    <3>1. x # u /\ s'.pending[x] = s.pending[x]
      BY <1>5, <2>4
    <3> QED BY <1>6, <1>12, <2>1, <2>2, <2>4, <3>1
  <2> QED BY <1>1, <2>1, <2>3, <2>4
<1>18. WokenOwns'
  <2> SUFFICES ASSUME NEW x \in Thread, InTake(x)', ~Suspended(s'.k, x), x \notin Closed',
                      s'.k.error[x] = "EOK"
               PROVE  s'.owner[arg'[x]] = x
    BY DEF WokenOwns
  <2>1. x # t /\ x # u
    BY <1>8, <1>10
  <2>2. InTake(x) /\ arg'[x] = arg[x] /\ ~Suspended(s.k, x) /\ x \notin Closed
        /\ s.k.error[x] = "EOK"
    BY <1>5, <1>8, <1>9, <1>11, <2>1
  <2>3. s.owner[arg[x]] = x
    BY <2>2 DEF Consistent, WokenOwns
  <2> QED BY <1>5, <2>2, <2>3
<1>19. Consistent'
  <2>1. Leaves'
    BY <1>1, <1>3, <1>5 DEF Leaves
  <2>2. TypeOK'
    BY <1>1, <1>5, <1>9, InvFacts DEF TypeOK
  <2>3. InOrder(s.k, Closed)'
    BY <1>5, <1>7
  <2> QED BY <1>13, <1>14, <1>15, <1>16, <1>17, <1>18, <2>1, <2>2, <2>3 DEF Consistent
<1>20. AbsStep
  <2>1. AnyMutex \in WaitObj
    BY MutexAssumption DEF AnyMutex
  <2> QED BY <1>1, <1>5, <1>6, <2>1 DEF AbsStep, Abs!vars
<1> QED BY <1>19, <1>20

LEMMA CloseDropStep ==
  ASSUME Consistent, NEW t \in Thread, CloseDrop(t)
  PROVE  Consistent' /\ AbsStep
<1> DEFINE u == arg[t]
           m == s.pending[u]
           D == Closed \cup {u}
<1>1. /\ At(t, "close") /\ value' = value
      /\ \/ /\ Shuts(s', s, u, m) /\ (\E l \in {"sched", "run"} : Goto(t, l))
            /\ arg' = [arg EXCEPT ![t] = None, ![u] = None]
         \/ s' = [s EXCEPT !.fault = TRUE] /\ UNCHANGED <<pc, arg, live>>
  BY DEF CloseDrop, Shuts
<1>2. /\ t = s.k.cur /\ pc[t] = "close" /\ ~Suspended(s.k, t)
  BY <1>1, AtFacts
<1>3. /\ u \in Thread \ {t} /\ Suspended(s.k, u)
  BY <1>2 DEF Consistent, BeingClosed
<1>4. Waitless(s.k, u)
  <2>1. \A o \in WaitObj : ~Waits(s.k, u, o)
    BY <1>2, <1>3, ThreadFacts DEF Closing
  <2> QED BY <2>1 DEF Waits, Waitless
<1>5. arg[t] = u
  OBVIOUS
<1> HIDE DEF u
<1>6. CASE /\ Shuts(s', s, u, m) /\ (\E l \in {"sched", "run"} : Goto(t, l))
           /\ arg' = [arg EXCEPT ![t] = None, ![u] = None]
  <2>1. u # Idle /\ u # s.k.cur
    BY <1>2, <1>3, InvFacts DEF InOrder
  <2>2. Joined(D, Closed, u) /\ D \in SUBSET Thread
    BY <1>3 DEF Joined, Closed
  <2>3. m = s.pending[u]
    OBVIOUS
  <2> HIDE DEF m, D
  <2>4. Ends(s', s, u, D)
    BY <1>3, <1>4, <1>6, <2>1, <2>2, <2>3, InvFacts, InvSound, CloseDropLemma
  <2>5. CloseEnds(t, u, D)
    BY <1>1, <1>2, <1>5, <1>6, <2>2, <2>4 DEF CloseEnds, Goto
  <2> QED BY <2>2, <2>5, CloseEndsStep
<1>7. CASE s' = [s EXCEPT !.fault = TRUE] /\ UNCHANGED <<pc, arg, live>>
  <2>1. Calm(s', s, Closed)
    BY <1>7, InvFacts, FaultCalm
  <2>2. /\ \A x \in Thread : Onward(x)
        /\ pc' \in [Thread -> PC] /\ arg' \in [Thread -> Mutex \cup Thread \cup {None}]
    BY <1>7, OnwardSame
  <2>3. ~Suspended(s.k, s.k.cur)
    BY <1>2
  <2> QED BY <1>1, <1>7, <2>1, <2>2, <2>3, InvFacts, CalmStep
<1> QED BY <1>1, <1>6, <1>7

-----------------------------------------------------------------------------
(* The specification *)

LEMMA InitInv == Init => Consistent /\ Abs!Init
<1> SUFFICES ASSUME Init PROVE Consistent /\ Abs!Init
  OBVIOUS
<1>1. /\ InOrder(StartedKernel, {}) /\ StartedKernel \in Kernel
      /\ \A t \in Thread : ~Suspended(StartedKernel, t)
      /\ \A o \in WaitObj : ToSet(StartedKernel.wait[o]) = {}
  BY StartedLemma DEF Orderly
<1> DEFINE k0 == StartedKernel
<1>2. /\ s.k = k0 /\ s.owner = [m \in Mutex |-> None] /\ s.hold = [m \in Mutex |-> 0]
      /\ s.urgency = [m \in Mutex |-> Lowest] /\ s.ceiling = [m \in Mutex |-> Lowest]
      /\ s.taken = [t \in Thread |-> {}] /\ s.pending = [t \in Thread |-> None]
      /\ s.fault = FALSE
      /\ s = [k |-> s.k, owner |-> s.owner, hold |-> s.hold, urgency |-> s.urgency,
              ceiling |-> s.ceiling, taken |-> s.taken, pending |-> s.pending,
              fault |-> s.fault]
      /\ pc = [t \in Thread |-> "run"] /\ arg = [t \in Thread |-> None]
      /\ value = 0 /\ live = Mutex
  BY DEF Init
<1> HIDE DEF k0
<1>3. s \in MutexState
  <2>1. s.k \in Kernel
    BY <1>1, <1>2 DEF k0
  <2>2. s.owner \in [Mutex -> Thread \cup {None}] /\ s.taken \in [Thread -> SUBSET Mutex]
    BY <1>2
  <2>3. s.hold \in [Mutex -> 0..HoldMax]
    <3>1. 0 \in 0..HoldMax
      BY MutexAssumption
    <3> QED BY <1>2, <3>1
  <2>4. /\ s.urgency \in [Mutex -> Prio \cup {Lowest}]
        /\ s.ceiling \in [Mutex -> Prio \cup {Lowest}]
        /\ s.pending \in [Thread -> Mutex \cup {None}] /\ s.fault \in BOOLEAN
    BY <1>2
  <2> QED BY <1>2, <2>1, <2>2, <2>3, <2>4 DEF MutexState
<1>4. TypeOK
  BY <1>2, <1>3 DEF TypeOK, PC
<1>5. /\ \A t \in Thread : ~Suspended(s.k, t) /\ \A o \in WaitObj : ~Waits(s.k, t, o)
      /\ \A o \in WaitObj : ToSet(s.k.wait[o]) = {}
      /\ InOrder(s.k, {})
  BY <1>1, <1>2 DEF Waits, k0
<1>6. Closed = {}
  <2>1. OnlyClosed(s.k, {})
    BY <1>5, OrderlyFacts
  <2> QED BY <2>1 DEF OnlyClosed, Closed
<1>7. InOrder(s.k, Closed) /\ s.k.cur \in Thread
  BY <1>5, <1>6, OrderlyFacts
<1>8. \A t \in Thread : ~InTake(t) /\ ~InSem(t) /\ pc[t] # "close" /\ ~Closing(t)
  BY <1>2 DEF InTake, InSem, Closing
<1>9. Leaves /\ InPlace /\ HasOwner /\ BeingClosed /\ WokenOwns
  <2>1. Leaves
    BY <1>5, <1>7 DEF Leaves
  <2>2. InPlace
    BY <1>5, <1>8 DEF InPlace
  <2>3. HasOwner
    BY <1>5, Objects DEF HasOwner
  <2>4. BeingClosed /\ WokenOwns
    BY <1>8 DEF BeingClosed, WokenOwns
  <2> QED BY <2>1, <2>2, <2>3, <2>4
<1>10. Owned
  BY <1>2, <1>6, Objects DEF Owned
<1>11. PendingWaits
  <2>1. s.k.timer = {}
    BY <1>2 DEF k0, StartedKernel
  <2> QED BY <1>2, <2>1 DEF PendingWaits
<1>12. Abs!Init
  <2>1. AnyMutex \in Mutex /\ AnyMutex \in WaitObj
    BY MutexAssumption DEF AnyMutex
  <2> QED BY <1>2, <1>5, <2>1 DEF Abs!Init
<1> QED BY <1>4, <1>7, <1>9, <1>10, <1>11, <1>12 DEF Consistent

LEMMA NextStep ==
  ASSUME Careful
  PROVE  Consistent /\ [Next]_vars => Consistent' /\ [Abs!Next]_(Abs!vars)
<1> SUFFICES ASSUME Consistent, [Next]_vars PROVE Consistent' /\ AbsStep
  BY DEF AbsStep
<1>1. ASSUME NEW t \in Thread, ThreadStep(t)
      PROVE  Consistent' /\ AbsStep
  <2>1. CASE TakeDone(t) \/ SemReturn(t)
    BY <2>1, DoneStep
  <2>2. CASE TakeFailed(t)
    BY <2>2, FailedStep
  <2>3. CASE DoSchedule(t)
    BY <2>3, ScheduleStep
  <2>4. CASE SemTake(t)
    BY <2>4, SemTakeStep
  <2>5. CASE CloseDrop(t)
    BY <2>5, CloseDropStep
  <2>6. CASE \E u \in App \ {t} : Close(t, u)
    BY <2>6, CloseStep
  <2>7. ASSUME NEW m \in Mutex,
               \/ TakeAgain(t, m) \/ TakeFree(t, m) \/ TakeRefused(t, m)
               \/ ReleaseOwned(t, m) \/ ReleaseForeign(t, m)
               \/ Detach(t, m) \/ InitAgain(t, m)
               \/ \E timed \in Timed : TakeWait(t, m, timed)
               \/ \E c \in Prio : Ceil(t, m, c)
        PROVE  Consistent' /\ AbsStep
    BY <2>7, TakeAgainStep, TakeFreeStep, RefusedStep, ReleaseStep, DetachStep,
       InitAgainStep, TakeWaitStep, CeilStep
  <2> QED BY <1>1, <2>1, <2>2, <2>3, <2>4, <2>5, <2>6, <2>7 DEF ThreadStep
<1>2. CASE IsrSemRelease
  BY <1>2, IsrStep
<1>3. CASE Tick
  BY <1>3, TickStep
<1>4. CASE \E u \in Thread : TimerExpire(u)
  BY <1>4, ExpireStep
<1>5. CASE UNCHANGED vars
  <2>1. s' = s /\ pc' = pc /\ arg' = arg /\ value' = value /\ live' = live
    BY <1>5 DEF vars
  <2>2. Consistent'
    BY <2>1 DEF Consistent, TypeOK, Closed, Leaves, InPlace, InTake, InSem, Closing, Goal,
                HasOwner, BeingClosed, Owned, PendingWaits, WokenOwns
  <2> QED BY <2>1, <2>2 DEF AbsStep, Abs!vars
<1> QED BY <1>1, <1>2, <1>3, <1>4, <1>5 DEF Next

\* The kernel's lists stay in order through every change of a priority that runs along
\* a chain of owners, and the lists of waiters, the owners and the functions the threads
\* are in agree: whoever waits for a mutex has somebody else to wait for, a mutex is on
\* the list of its owner only, and a wait that ends, by a hand-over, an error, a timeout
\* or the close of the thread, leaves no trace.
THEOREM MutexConsistent == ASSUME Careful PROVE Spec => []Consistent
<1>1. Init => Consistent
  BY InitInv
<1>2. Consistent /\ [Next]_vars => Consistent'
  BY NextStep
<1> QED BY <1>1, <1>2, PTL DEF Spec

\* rt_mutex_take returns RT_EOK to the owner only, however long the thread was ready
\* without running.
THEOREM MutexSuccessOwns == ASSUME Careful PROVE Spec => []SuccessOwns
<1>1. Consistent => SuccessOwns
  <2> SUFFICES ASSUME Consistent, NEW t \in Thread, pc[t] = "taken", ~Suspended(s.k, t),
                      s.k.error[t] = "EOK", arg[t] \in live
               PROVE  s.owner[arg[t]] = t
    BY DEF SuccessOwns
  <2>1. InTake(t) /\ arg[t] # None
    BY InvFacts, Objects DEF InTake
  <2>2. t \notin Closed
    BY <2>1, ThreadFacts
  <2> QED BY <2>1, <2>2 DEF Consistent, WokenOwns
<1>2. Spec => []Consistent
  BY MutexConsistent
<1> QED BY <1>1, <1>2, PTL

\* A mutex is the one AbstractMutex describes: an owner that lets go hands it to a thread
\* that waits, if any, and no newcomer comes before.
THEOREM MutexImplements == ASSUME Careful PROVE Spec => Implements
<1>1. Init => Abs!Init
  BY InitInv
<1>2. Consistent /\ [Next]_vars => [Abs!Next]_(Abs!vars)
  BY NextStep
<1>3. Spec => []Consistent
  BY MutexConsistent
<1> QED BY <1>1, <1>2, <1>3, PTL DEF Spec, Implements, Abs!Spec

-----------------------------------------------------------------------------
(* Priority inheritance: the lists of waiters stand in the order of their     *)
(* priorities                                                                 *)

SortedBy(f, l) == \A i, j \in DOMAIN l : i < j => f[l[i]] <= f[l[j]]

\* The first one is the most urgent.
LEMMA SortedHead ==
  ASSUME NEW f \in [Thread -> Prio], NEW l \in Seq(Thread), SortedBy(f, l), NEW t \in ToSet(l)
  PROVE  l # <<>> /\ Head(l) \in Thread /\ f[Head(l)] <= f[t]
<1>1. PICK i \in DOMAIN l : t = l[i]
  BY DEF ToSet
<1>2. i \in 1..Len(l) /\ Len(l) \in Nat /\ l # <<>> /\ Head(l) = l[1] /\ 1 \in DOMAIN l
      /\ l[1] \in Thread
  BY <1>1
<1>3. CASE i = 1
  <2>1. f[l[1]] \in Nat
    BY <1>2, PrioAssumption
  <2> QED BY <1>1, <1>2, <1>3, <2>1
<1>4. CASE i # 1
  <2>1. 1 < i
    BY <1>2, <1>4
  <2> QED BY <1>1, <1>2, <2>1 DEF SortedBy
<1> QED BY <1>3, <1>4

\* Another order of the priorities of threads that are not in the list.
LEMMA SortedOther ==
  ASSUME NEW f, NEW g, NEW l \in Seq(Thread), SortedBy(f, l), \A t \in ToSet(l) : g[t] = f[t]
  PROVE  SortedBy(g, l)
<1>1. \A i \in DOMAIN l : l[i] \in ToSet(l)
  BY DEF ToSet
<1> QED BY <1>1 DEF SortedBy

LEMMA RemoveAtElements ==
  ASSUME NEW T, NEW l \in Seq(T), NEW n \in 1..Len(l)
  PROVE  LET r == RemoveAt(l, n)
         IN /\ r \in Seq(T) /\ Len(r) = Len(l) - 1
            /\ \A i \in 1..(Len(l) - 1) : r[i] = IF i < n THEN l[i] ELSE l[i + 1]
<1> DEFINE r == RemoveAt(l, n)
           front == SubSeq(l, 1, n - 1)
           back == SubSeq(l, n + 1, Len(l))
<1>0. Len(l) \in Nat /\ n \in Int /\ 1 <= n /\ n <= Len(l) /\ \A i \in 1..Len(l) : l[i] \in T
  OBVIOUS
<1>1. front \in Seq(T) /\ Len(front) = n - 1 /\ \A i \in 1..(n - 1) : front[i] = l[i]
  <2>1. \A i \in 1..(n - 1) : l[i] \in T
    BY <1>0
  <2> QED BY <1>0, <2>1, SubSeqProperties
<1>2. back \in Seq(T) /\ Len(back) = Len(l) - n /\ \A i \in 1..(Len(l) - n) : back[i] = l[n + i]
  <2>1. \A i \in (n + 1)..Len(l) : l[i] \in T
    BY <1>0
  <2>2. /\ back \in Seq(T)
        /\ Len(back) = IF n + 1 <= Len(l) THEN Len(l) - (n + 1) + 1 ELSE 0
        /\ \A i \in 1..(Len(l) - (n + 1) + 1) : back[i] = l[n + 1 + i - 1]
    BY <1>0, <2>1, SubSeqProperties
  <2>3. Len(l) - (n + 1) + 1 = Len(l) - n
    BY <1>0
  <2>4. (IF n + 1 <= Len(l) THEN Len(l) - (n + 1) + 1 ELSE 0) = Len(l) - n
    BY <1>0
  <2>5. ASSUME NEW i \in 1..(Len(l) - n) PROVE back[i] = l[n + i]
    <3>1. n + 1 + i - 1 = n + i
      BY <1>0
    <3>2. i \in 1..(Len(l) - (n + 1) + 1)
      BY <2>3
    <3> HIDE DEF back
    <3>3. back[i] = l[n + 1 + i - 1]
      BY <2>2, <3>2
    <3> QED BY <3>1, <3>3
  <2> HIDE DEF back
  <2> QED BY <2>2, <2>4, <2>5
<1>3. r = front \o back
  BY DEF RemoveAt
<1> HIDE DEF front, back
<1>4. /\ r \in Seq(T) /\ Len(r) = Len(l) - 1
      /\ \A i \in 1..(Len(l) - 1) : r[i] = IF i <= n - 1 THEN front[i] ELSE back[i - (n - 1)]
  <2>1. /\ front \o back \in Seq(T)
        /\ Len(front \o back) = Len(front) + Len(back)
        /\ \A i \in 1..(Len(front) + Len(back)) : (front \o back)[i] =
              IF i <= Len(front) THEN front[i] ELSE back[i - Len(front)]
    BY <1>1, <1>2, ConcatProperties
  <2>2. Len(front) + Len(back) = Len(l) - 1
    BY <1>0, <1>1, <1>2
  <2> QED BY <1>1, <1>3, <2>1, <2>2
<1> HIDE DEF r
<1>5. ASSUME NEW i \in 1..(Len(l) - 1)
      PROVE  r[i] = IF i < n THEN l[i] ELSE l[i + 1]
  <2>1. CASE i < n
    <3>1. i \in 1..(n - 1) /\ i <= n - 1
      BY <1>0, <2>1
    <3> QED BY <1>1, <1>4, <2>1, <3>1
  <2>2. CASE ~(i < n)
    <3>1. ~(i <= n - 1) /\ i - (n - 1) \in 1..(Len(l) - n) /\ n + (i - (n - 1)) = i + 1
      BY <1>0, <2>2
    <3> QED BY <1>2, <1>4, <2>2, <3>1
  <2> QED BY <2>1, <2>2
<1> QED BY <1>4, <1>5 DEF r

\* A node that is unlinked leaves the others in their order.
LEMMA SortedUnlink ==
  ASSUME NEW f, NEW l \in Seq(Thread), NEW t, SortedBy(f, l)
  PROVE  SortedBy(f, Unlink(l, t))
<1>1. CASE t \notin ToSet(l)
  BY <1>1 DEF Unlink
<1>2. CASE t \in ToSet(l)
  <2> DEFINE n == CHOOSE i \in DOMAIN l : l[i] = t
             r == RemoveAt(l, n)
  <2>1. n \in 1..Len(l) /\ DOMAIN l = 1..Len(l) /\ Len(l) \in Nat
    BY <1>2 DEF ToSet
  <2>2. Unlink(l, t) = r
    BY <1>2 DEF Unlink
  <2> HIDE DEF n
  <2>3. /\ r \in Seq(Thread) /\ Len(r) = Len(l) - 1
        /\ \A i \in 1..(Len(l) - 1) : r[i] = IF i < n THEN l[i] ELSE l[i + 1]
    <3>1. l \in Seq(Thread) /\ n \in 1..Len(l)
      BY <2>1
    <3> QED BY <3>1, RemoveAtElements, Zenon
  <2> HIDE DEF r
  <2>4. ASSUME NEW i \in DOMAIN r, NEW j \in DOMAIN r, i < j
        PROVE  f[r[i]] <= f[r[j]]
    <3>1. i \in 1..(Len(l) - 1) /\ j \in 1..(Len(l) - 1)
      BY <2>3
    <3> DEFINE a == IF i < n THEN i ELSE i + 1
               b == IF j < n THEN j ELSE j + 1
    <3>2. a \in DOMAIN l /\ b \in DOMAIN l /\ a < b
      BY <2>1, <2>4, <3>1
    <3>3. r[i] = l[a] /\ r[j] = l[b]
      BY <2>3, <3>1
    <3> QED BY <3>2, <3>3 DEF SortedBy
  <2> QED BY <2>2, <2>4 DEF SortedBy
<1> QED BY <1>1, <1>2

\* Nor does a node that is inserted before the first one less urgent than it.
LEMMA SortedInsert ==
  ASSUME NEW k, NEW l \in Seq(Thread), NEW t \in Thread, k.prio \in [Thread -> Prio],
         SortedBy(k.prio, l)
  PROVE  SortedBy(k.prio, InsertByPrio(k, l, t))
<1> DEFINE f == k.prio
           less == {i \in DOMAIN l : f[t] < f[l[i]]}
           at == IF less = {} THEN Len(l) + 1 ELSE Min(less)
           r == InsertAt(l, at, t)
<1>1. InsertByPrio(k, l, t) = r /\ f \in [Thread -> Prio]
  BY DEF InsertByPrio
<1>2. SortedBy(f, l)
  OBVIOUS
<1> HIDE DEF f
<1>0. /\ Len(l) \in Nat /\ DOMAIN l = 1..Len(l) /\ \A i \in 1..Len(l) : l[i] \in Thread
      /\ \A x \in Thread : f[x] \in Nat /\ f[x] \in Int
  <2>1. \A x \in Thread : f[x] \in Nat
    BY <1>1, PrioAssumption
  <2> QED BY <2>1
<1>3. /\ at \in 1..(Len(l) + 1)
      /\ \A i \in 1..Len(l) : i < at => f[l[i]] <= f[t]
      /\ \A i \in 1..Len(l) : at <= i => f[t] <= f[l[i]]
  <2>1. CASE less = {}
    <3>1. at = Len(l) + 1
      BY <2>1
    <3>2. \A i \in 1..Len(l) : ~(f[t] < f[l[i]])
      BY <1>0, <2>1
    <3>3. ASSUME NEW i \in 1..Len(l) PROVE f[l[i]] <= f[t]
      BY <1>0, <3>2
    <3>4. \A i \in 1..Len(l) : ~(Len(l) + 1 <= i)
      BY <1>0
    <3> HIDE DEF at
    <3> QED BY <1>0, <3>1, <3>3, <3>4
  <2>2. CASE less # {}
    <3> DEFINE n == Min(less)
    <3>1. less \in SUBSET Nat /\ less \subseteq 1..Len(l)
      BY <1>0
    <3>2. \A i \in less : f[t] < f[l[i]]
      OBVIOUS
    <3>3. \A i \in 1..Len(l) : i \notin less => ~(f[t] < f[l[i]])
      BY <1>0
    <3>31. at = n
      BY <2>2
    <3> HIDE DEF less, at
    <3>4. n \in less /\ \A i \in less : n <= i
      <4>1. PICK x \in less : \A i \in less : x <= i
        BY <2>2, <3>1, LeastNatural
      <4> QED BY <4>1 DEF Min
    <3> HIDE DEF n
    <3>5. n \in 1..Len(l) /\ f[t] < f[l[n]]
      BY <3>1, <3>2, <3>4
    <3>6. ASSUME NEW i \in 1..Len(l), i < n PROVE f[l[i]] <= f[t]
      <4>1. i \notin less
        BY <3>4, <3>5, <3>6, <1>0
      <4>2. ~(f[t] < f[l[i]])
        BY <3>3, <4>1
      <4>3. f[l[i]] \in Int /\ f[t] \in Int
        BY <1>0
      <4> QED BY <4>2, <4>3
    <3>7. ASSUME NEW i \in 1..Len(l), n <= i PROVE f[t] <= f[l[i]]
      <4>1. f[t] \in Int /\ f[l[n]] \in Int /\ f[l[i]] \in Int
        BY <1>0, <3>5
      <4>2. CASE i = n
        BY <3>5, <4>1, <4>2
      <4>3. CASE i # n
        <5>1. n < i
          BY <3>5, <3>7, <4>3, <1>0
        <5>2. f[l[n]] <= f[l[i]]
          BY <1>0, <1>2, <3>5, <5>1 DEF SortedBy
        <5> QED BY <3>5, <4>1, <5>2
      <4> QED BY <4>2, <4>3
    <3> QED BY <1>0, <3>31, <3>5, <3>6, <3>7
  <2> QED BY <2>1, <2>2
<1> HIDE DEF at
<1>4. /\ r \in Seq(Thread) /\ Len(r) = Len(l) + 1
      /\ \A i \in 1..(Len(l) + 1) :
           r[i] = IF i < at THEN l[i] ELSE IF i = at THEN t ELSE l[i - 1]
  <2>1. at \in 1..(Len(l) + 1)
    BY <1>3
  <2> HIDE DEF less, f
  <2>2. LET v == InsertAt(l, at, t)
        IN /\ v \in Seq(Thread) /\ Len(v) = Len(l) + 1
           /\ \A i \in 1..(Len(l) + 1) :
                v[i] = IF i < at THEN l[i] ELSE IF i = at THEN t ELSE l[i - 1]
    BY <2>1, InsertAtLemma
  <2> QED BY <2>2
<1> HIDE DEF r
<1>5. ASSUME NEW i \in DOMAIN r, NEW j \in DOMAIN r, i < j
      PROVE  f[r[i]] <= f[r[j]]
  <2>1. i \in 1..(Len(l) + 1) /\ j \in 1..(Len(l) + 1) /\ at \in Int /\ i \in Int /\ j \in Int
    BY <1>0, <1>3, <1>4
  <2>2. CASE j < at
    <3>1. i \in DOMAIN l /\ j \in DOMAIN l /\ i < at
      BY <1>0, <1>3, <1>5, <2>1, <2>2
    <3>2. r[i] = l[i] /\ r[j] = l[j]
      BY <1>4, <2>1, <2>2, <3>1
    <3> QED BY <1>2, <1>5, <3>1, <3>2 DEF SortedBy
  <2>3. CASE j = at
    <3>1. i \in 1..Len(l) /\ i < at /\ ~(j < at)
      BY <1>0, <1>3, <1>5, <2>1, <2>3
    <3>2. r[i] = l[i] /\ r[j] = t
      BY <1>4, <2>1, <2>3, <3>1
    <3> QED BY <1>3, <3>1, <3>2
  <2>4. CASE at < j /\ i = at
    <3>1. j - 1 \in 1..Len(l) /\ at <= j - 1 /\ ~(i < at) /\ ~(j < at) /\ j # at
      BY <1>0, <1>3, <2>1, <2>4
    <3>2. r[i] = t /\ r[j] = l[j - 1]
      BY <1>4, <2>1, <2>4, <3>1
    <3> QED BY <1>3, <3>1, <3>2
  <2>5. CASE at < j /\ i # at
    <3> DEFINE a == IF i < at THEN i ELSE i - 1
    <3>1. a \in DOMAIN l /\ j - 1 \in DOMAIN l /\ a < j - 1 /\ ~(j < at) /\ j # at
      BY <1>0, <1>3, <1>5, <2>1, <2>5
    <3>2. r[i] = l[a] /\ r[j] = l[j - 1]
      BY <1>4, <2>1, <2>5, <3>1
    <3> QED BY <1>2, <3>1, <3>2 DEF SortedBy
  <2> QED BY <2>1, <2>2, <2>3, <2>4, <2>5
<1> QED BY <1>1, <1>5 DEF SortedBy, f

\* Threads leave the lists in the step from k to n, and the priorities stay as they are.
Thins(n, k) == /\ n.prio = k.prio
               /\ \A o \in WaitObj : SortedBy(k.prio, k.wait[o]) => SortedBy(n.prio, n.wait[o])

LEMMA ThinsSame ==
  ASSUME NEW k, NEW n, n.prio = k.prio, n.wait = k.wait
  PROVE  Thins(n, k)
BY DEF Thins

LEMMA ThinsThen ==
  ASSUME NEW k, NEW m, NEW n, Thins(m, k), Thins(n, m)
  PROVE  Thins(n, k)
BY DEF Thins

LEMMA ThinsUnlink ==
  ASSUME NEW k \in Kernel, NEW t, NEW n, n.prio = k.prio,
         n.wait = [o \in WaitObj |-> Unlink(k.wait[o], t)]
  PROVE  Thins(n, k)
<1>1. \A o \in WaitObj : k.wait[o] \in Seq(Thread) /\ n.wait[o] = Unlink(k.wait[o], t)
  BY DEF Kernel
<1> QED BY <1>1, SortedUnlink DEF Thins

\* rt_list_remove and rt_schedule_remove_thread
LEMMA RemoveThins ==
  ASSUME NEW k, NEW C, NEW t \in Thread, InOrder(k, C)
  PROVE  Thins(ListRemove(k, t), k) /\ Thins(RemoveThread(k, t), k)
<1> DEFINE l == ListRemove(k, t)
           r == RemoveThread(k, t)
<1>1. k \in Kernel /\ NoRepeats(k)
  BY OrderlyFacts DEF QueueLists
<1>2. l.prio = k.prio /\ l.wait = [o \in WaitObj |-> Unlink(k.wait[o], t)] /\ l \in Kernel
  <2>1. l.prio = k.prio /\ l \in Kernel
    BY <1>1, ListRemoveFields
  <2>2. l.wait = [o \in WaitObj |-> Unlink(k.wait[o], t)]
    BY <1>1 DEF ListRemove, Kernel
  <2> QED BY <2>1, <2>2
<1>3. r.wait = [o \in WaitObj |-> Unlink(k.wait[o], t)]
  BY <1>1, RemoveWait
<1>4. r.prio = k.prio
  <2>1. r \in {l, [l EXCEPT !.group = @ \ {k.prio[t]}]}
    BY DEF RemoveThread
  <2> HIDE DEF l, r
  <2> QED BY <1>2, <2>1 DEF Kernel
<1> HIDE DEF l, r
<1>5. Thins(l, k) /\ Thins(r, k)
  BY <1>1, <1>2, <1>3, <1>4, ThinsUnlink
<1> QED BY <1>5 DEF l, r

\* rt_schedule_insert_thread
LEMMA InsertThins ==
  ASSUME NEW k \in Kernel, NEW t \in Thread
  PROVE  Thins(InsertThread(k, t), k)
<1> DEFINE n == InsertThread(k, t)
<1>1. n.prio = k.prio
  BY DEF InsertThread, Kernel
<1>2. n.wait = k.wait
  BY InsertKeeps
<1> HIDE DEF n
<1>3. Thins(n, k)
  BY <1>1, <1>2, ThinsSame
<1> QED BY <1>3 DEF n

\* rt_schedule
LEMMA ScheduleThins ==
  ASSUME NEW k, QueueInv(k, {})
  PROVE  Thins(Schedule(k), k)
<1> DEFINE n == Schedule(k)
<1>1. n.wait = k.wait
  BY ScheduleFields
<1>2. n.prio = k.prio
  BY ScheduleLemma DEF Scheduled
<1> HIDE DEF n
<1>3. Thins(n, k)
  BY <1>1, <1>2, ThinsSame
<1> QED BY <1>3 DEF n

\* the end of a time slice
LEMMA TickThins ==
  ASSUME NEW k, NEW C, InOrder(k, C)
  PROVE  Thins(TickSlice(k), k)
<1> DEFINE n == TickSlice(k)
           over == Yield(k, k.cur)
<1>1. k \in Kernel /\ k.cur \in Thread /\ QueueInv(k, {})
  BY OrderlyFacts
<1>2. CASE k.left[k.cur] > 1
  <2>1. n.prio = k.prio /\ n.wait = k.wait
    BY <1>1, <1>2 DEF TickSlice, Kernel
  <2> HIDE DEF n
  <2>2. Thins(n, k)
    BY <2>1, ThinsSame
  <2> QED BY <2>2 DEF n
<1>3. CASE ~(k.left[k.cur] > 1)
  <2>1. n = Schedule(over)
    BY <1>3 DEF TickSlice
  <2>2. /\ over \in Kernel /\ SameLists(over, k) /\ over.stat = k.stat
        /\ over.cur = k.cur
    <3>1. Slice \in 1..Slice
      BY SliceAssumption
    <3> QED BY <1>1, <3>1 DEF Yield, Kernel, SameLists
  <2> HIDE DEF over, n
  <2>3. QueueInv(over, {})
    BY <1>1, <2>2, FrameInv
  <2>4. Thins(over, k)
    BY <2>2, ThinsSame DEF SameLists
  <2>5. Thins(n, over)
    BY <2>1, <2>3, ScheduleThins
  <2>6. Thins(n, k)
    BY <2>4, <2>5, ThinsThen
  <2> QED BY <2>6 DEF n
<1> QED BY <1>2, <1>3

\* a write of thread->error
LEMMA ErrorThins ==
  ASSUME NEW k \in Kernel, NEW t, NEW e
  PROVE  Thins(SetError(k, t, e), k)
BY ThinsSame DEF SetError, Kernel

\* rt_thread_resume
LEMMA ResumeThins ==
  ASSUME NEW k, NEW C, NEW t \in Thread, InOrder(k, C)
  PROVE  Thins(Resume(k, t), k)
<1> DEFINE l == ListRemove(k, t)
           u == [l EXCEPT !.timer = @ \ {t}]
           n == InsertThread(u, t)
<1>1. l \in Kernel /\ Thins(l, k)
  <2>1. k \in Kernel /\ NoRepeats(k)
    BY OrderlyFacts DEF QueueLists
  <2> QED BY <2>1, ListRemoveFields, RemoveThins
<1>2. Resume(k, t) = n \/ Resume(k, t) = k
  BY DEF Resume, ResumeUnlink
<1> HIDE DEF l
<1>3. u \in Kernel /\ u.prio = l.prio /\ u.wait = l.wait
  BY <1>1 DEF Kernel
<1> HIDE DEF u
<1>4. Thins(n, u)
  BY <1>3, InsertThins
<1> HIDE DEF n
<1>5. Thins(u, l)
  BY <1>3, ThinsSame
<1>6. Thins(n, l)
  BY <1>4, <1>5, ThinsThen
<1>7. Thins(n, k)
  BY <1>1, <1>6, ThinsThen
<1>8. Thins(k, k)
  BY ThinsSame
<1> QED BY <1>2, <1>7, <1>8

LEMMA WakeThins ==
  ASSUME NEW k, NEW C, NEW t \in Thread, NEW e \in Error, InOrder(k, C)
  PROVE  Thins(ResumeWith(k, t, e), k)
<1> DEFINE m == SetError(k, t, e)
           n == Resume(m, t)
<1>1. ResumeWith(k, t, e) = n
  BY DEF ResumeWith, SetError
<1>2. InOrder(m, C)
  BY ErrorOrderly
<1>3. Thins(m, k)
  BY ErrorThins, OrderlyFacts
<1> HIDE DEF m
<1>4. Thins(n, m)
  BY <1>2, ResumeThins
<1> HIDE DEF n
<1> QED BY <1>1, <1>3, <1>4, ThinsThen

\* _thread_timeout
LEMMA TimeoutThins ==
  ASSUME NEW k, NEW C, NEW t \in Thread, InOrder(k, C), Suspended(k, t)
  PROVE  Thins(ThreadTimeout(k, t), k)
<1> DEFINE l == ListRemove(k, t)
           e == [l EXCEPT !.timer = @ \ {t}, !.error[t] = "ETIMEOUT"]
           r == InsertThread(e, t)
           n == Schedule(r)
<1>1. QueueInv(k, {}) /\ k.stat[t] = "SUSPEND" /\ k \in Kernel /\ NoRepeats(k)
  BY OrderlyFacts DEF QueueLists, Suspended
<1>2. QueueInv(r, {})
  <2>1. QueueInv(Expired(k, t), {})
    BY <1>1, ExpiredLemma
  <2> QED BY <2>1 DEF Expired
<1>3. ThreadTimeout(k, t) = n
  BY DEF ThreadTimeout
<1>4. l \in Kernel /\ Thins(l, k)
  BY <1>1, ListRemoveFields, RemoveThins
<1> HIDE DEF l
<1>5. e \in Kernel /\ e.prio = l.prio /\ e.wait = l.wait
  BY <1>4 DEF Kernel, Error
<1> HIDE DEF e
<1>6. Thins(r, e)
  BY <1>5, InsertThins
<1> HIDE DEF r
<1>7. Thins(n, r)
  BY <1>2, ScheduleThins
<1> HIDE DEF n
<1>8. Thins(e, l)
  BY <1>5, ThinsSame
<1>9. Thins(e, k)
  BY <1>4, <1>8, ThinsThen
<1>10. Thins(r, k)
  BY <1>6, <1>9, ThinsThen
<1> QED BY <1>3, <1>7, <1>10, ThinsThen

\* _ipc_list_resume_all
LEMMA ResumeAllThins ==
  ASSUME NEW k, NEW C, NEW o \in WaitObj, InOrder(k, C)
  PROVE  Thins(ResumeAll(k, o), k)
<1> DEFINE l == k.wait[o]
           W == ToSet(k.wait[o])
           after == CHOOSE f : Turns(f, k, l, W, "ERROR", Len(l))
           Good(n) == InOrder(after[n], C) /\ Thins(after[n], k)
           bad == {n \in 0..Len(l) : ~Good(n)}
<1>1. /\ Len(l) \in Nat /\ \A i \in 1..Len(l) : l[i] \in Thread /\ l[i] \in W
      /\ \A t \in W : Suspended(k, t)
  <2>1. l \in Seq(Thread) /\ \A t \in W : Suspended(k, t)
    BY OrderlyFacts DEF Suspended
  <2>2. Len(l) \in Nat /\ \A i \in 1..Len(l) : l[i] \in Thread /\ i \in DOMAIN l
    BY <2>1
  <2> QED BY <2>1, <2>2 DEF ToSet
<1>2. ResumeAll(k, o) = after[Len(l)]
  BY DEF ResumeAll, ResumeSome, Turns, Turn
<1>3. \A n \in 0..Len(l) :
        after[n] = IF n = 0 THEN k ELSE Turn(after[n - 1], l[n], W, "ERROR")
  <2>1. \E f : Turns(f, k, l, W, "ERROR", Len(l))
    BY <1>1, TurnsExist
  <2>2. Turns(after, k, l, W, "ERROR", Len(l))
    BY <2>1
  <2> HIDE DEF after
  <2> QED BY <2>2 DEF Turns
<1> HIDE DEF l, W, after
<1>4. bad = {}
  <2> SUFFICES ASSUME bad # {} PROVE FALSE
    OBVIOUS
  <2>1. PICK n \in bad : \A i \in bad : n <= i
    <3>1. bad \in SUBSET Nat
      BY <1>1
    <3> HIDE DEF bad
    <3> QED BY <3>1, LeastNatural
  <2>2. n \in 0..Len(l) /\ n \in Nat /\ ~Good(n)
    BY <2>1, <1>1
  <2>3. \A i \in 0..Len(l) : ~(n <= i) => Good(i)
    BY <2>1
  <2> HIDE DEF Good, bad
  <2>4. CASE n = 0
    <3>1. after[n] = k
      BY <1>3, <2>2, <2>4
    <3>2. Thins(k, k)
      BY ThinsSame
    <3> QED BY <2>2, <3>1, <3>2 DEF Good
  <2>5. CASE n # 0
    <3>1. n - 1 \in 0..Len(l) /\ n \in 1..Len(l) /\ ~(n <= n - 1)
      BY <2>2, <2>5, <1>1
    <3> DEFINE t == l[n]
               m == after[n - 1]
               v == after[n]
    <3>2. InOrder(m, C) /\ Thins(m, k)
      BY <2>3, <3>1 DEF Good
    <3>3. t \in Thread /\ "ERROR" \in Error
      BY <1>1, <3>1 DEF Error
    <3>4. v = ResumeWith(m, t, "ERROR")
      BY <1>1, <1>3, <2>2, <2>5, <3>1 DEF Turn
    <3>5. InOrder(v, C)
      <4>1. CASE Suspended(m, t)
        <5> HIDE DEF m, t, v
        <5> QED BY <3>2, <3>3, <3>4, <4>1, WakeOrderly
      <4>2. CASE ~Suspended(m, t)
        <5> HIDE DEF m, t, v
        <5> DEFINE w == SetError(m, t, "ERROR")
        <5>1. InOrder(w, C) /\ w.stat = m.stat
          BY <3>2, <3>3, ErrorOrderly
        <5>2. v = Resume(w, t)
          BY <3>4 DEF ResumeWith, SetError
        <5> HIDE DEF w
        <5>3. v = w
          BY <4>2, <5>1, <5>2 DEF Resume, Suspended
        <5> QED BY <5>1, <5>3
      <4> QED BY <4>1, <4>2
    <3> HIDE DEF t, m
    <3>6. Thins(v, m)
      BY <3>2, <3>3, <3>4, WakeThins
    <3>7. Thins(v, k)
      BY <3>2, <3>6, ThinsThen
    <3> QED BY <2>2, <3>5, <3>7 DEF Good
  <2> QED BY <2>4, <2>5
<1>5. Good(Len(l))
  <2>1. Len(l) \in 0..Len(l)
    BY <1>1
  <2> HIDE DEF Good
  <2> QED BY <1>4, <2>1
<1> QED BY <1>2, <1>5

\* _ipc_list_suspend of a thread that is in no list, for an object with waiters by
\* priority
LEMMA EnqueueThins ==
  ASSUME NEW k, NEW C, NEW o \in WaitObj, NEW t \in Thread, InOrder(k, C), Suspended(k, t),
         \A q \in WaitObj : t \notin ToSet(k.wait[q])
  PROVE  Thins(Enqueue(k, o, t), k)
<1> DEFINE l == k.wait[o]
           n == Enqueue(k, o, t)
<1>1. /\ k \in Kernel /\ l \in Seq(Thread) /\ k.prio \in [Thread -> Prio] /\ o \notin Fifo
  <2>1. k \in Kernel /\ l \in Seq(Thread)
    BY OrderlyFacts
  <2> QED BY <2>1, MutexAssumption DEF Kernel
<1>2. /\ n.prio = k.prio /\ n.wait = [k.wait EXCEPT ![o] = InsertByPrio(k, l, t)]
  BY <1>1 DEF Enqueue, Kernel
<1>3. k.wait \in [WaitObj -> Seq(Thread)]
  BY <1>1 DEF Kernel
<1> HIDE DEF n
<1>4. SortedBy(k.prio, l) => SortedBy(k.prio, n.wait[o])
  <2>1. n.wait[o] = InsertByPrio(k, l, t)
    BY <1>2, <1>3
  <2> HIDE DEF l
  <2> QED BY <1>1, <2>1, SortedInsert
<1>5. \A q \in WaitObj : q # o => n.wait[q] = k.wait[q]
  BY <1>2, <1>3
<1>6. Thins(n, k)
  BY <1>2, <1>4, <1>5 DEF Thins
<1> QED BY <1>6 DEF n

\* the current thread waits for o
LEMMA SleepThins ==
  ASSUME NEW k, NEW C, NEW t, NEW o \in WaitObj, NEW e \in Error,
         InOrder(k, C), t = k.cur, ~Suspended(k, t), t # Idle,
         NEW n, n = SleepFor(k, t, o, e, FALSE)
  PROVE  Thins(n, k)
<1> DEFINE m == SetError(k, t, e)
           r == RemoveThread(m, t)
           u == SuspendSelf(m)
<1>1. t \in Thread /\ k \in Kernel
  BY OrderlyFacts
<1>2. InOrder(m, C) /\ m.cur = k.cur /\ m.stat = k.stat
  BY <1>1, ErrorOrderly
<1>3. Thins(m, k)
  BY <1>1, ErrorThins
<1>4. n = Enqueue(u, o, t)
  <2>1. n = SuspendFor(m, o, FALSE)
    BY DEF SetError, SleepFor
  <2>2. n = SuspendOn(m, o)
    BY <2>1 DEF SuspendFor
  <2> QED BY <1>2, <2>2 DEF SuspendOn
<1> HIDE DEF m
<1>5. Thins(r, m) /\ r \in Kernel
  <2>1. Thins(r, m)
    BY <1>1, <1>2, RemoveThins
  <2>2. m \in Kernel /\ NoRepeats(m) /\ QueueLists(m, {})
    BY <1>2, OrderlyFacts DEF QueueLists
  <2>3. QueueLists(r, {} \cup {t})
    BY <1>1, <2>2, RemoveLemma
  <2> QED BY <2>1, <2>3 DEF QueueLists
<1>6. /\ InOrder(u, C) /\ Suspended(u, t) /\ u.wait = m.wait
      /\ \A q \in WaitObj : t \notin ToSet(u.wait[q])
  <2>1. InOrder(u, C) /\ Blocked(u, m, m.cur, {})
    <3>1. ~Suspended(m, m.cur) /\ m.cur # Idle
      BY <1>2 DEF Suspended
    <3> QED BY <1>2, <3>1, SuspendSelfOrderly
  <2>2. \A q \in WaitObj : t \notin ToSet(m.wait[q])
    BY <1>2, OrderlyFacts DEF Suspended
  <2>3. u.wait = r.wait
    BY <1>2, <1>5 DEF SuspendSelf, Kernel
  <2>4. r.wait = m.wait
    <3>1. m \in Kernel /\ NoRepeats(m)
      BY <1>2, OrderlyFacts DEF QueueLists
    <3>2. t \notin WaitSet(m)
      BY <2>2 DEF WaitSet
    <3> QED BY <1>1, <3>1, <3>2, RemoveKeeps
  <2> QED BY <1>1, <1>2, <2>1, <2>2, <2>3, <2>4 DEF Blocked
<1>7. Thins(u, m)
  <2>1. u.prio = r.prio /\ u.wait = r.wait
    BY <1>2, <1>5 DEF SuspendSelf, Kernel
  <2> HIDE DEF u, r
  <2>2. Thins(u, r)
    BY <2>1, ThinsSame
  <2> QED BY <1>5, <2>2, ThinsThen
<1> HIDE DEF u
<1>8. Thins(n, u)
  BY <1>1, <1>4, <1>6, EnqueueThins
<1>9. Thins(u, k)
  BY <1>3, <1>7, ThinsThen
<1> QED BY <1>8, <1>9, ThinsThen

\* rt_thread_control(RT_THREAD_CTRL_CHANGE_PRIORITY) moves no waiter.
Repriced(n, k, t, p, C) == /\ InOrder(n, C) /\ Keeps(n, k)
                           /\ n.wait = k.wait /\ n.prio = [k.prio EXCEPT ![t] = p]

LEMMA ChangePriorityFields ==
  ASSUME NEW k, NEW C, NEW t \in Thread, NEW p \in Prio, InOrder(k, C)
  PROVE  Repriced(ChangePriority(k, t, p), k, t, p, C)
<1> DEFINE n == ChangePriority(k, t, p)
           u == RemoveThread(k, t)
           c == [u EXCEPT !.prio[t] = p]
<1>1. k \in Kernel /\ QueueLists(k, {}) /\ NoRepeats(k)
  BY OrderlyFacts DEF QueueLists
<1>2. InOrder(n, C) /\ Keeps(n, k)
  BY ChangePriorityOrderly
<1>3. n = IF k.stat[t] = "READY" THEN InsertThread(c, t) ELSE [k EXCEPT !.prio[t] = p]
  BY DEF ChangePriority
<1> SUFFICES Repriced(n, k, t, p, C)
  OBVIOUS
<1> HIDE DEF n
<1>4. CASE k.stat[t] = "READY"
  <2>1. t \notin WaitSet(k)
    BY <1>1, <1>4 DEF QueueLists, OtherLists
  <2>2. u.wait = k.wait
    BY <1>1, <2>1, RemoveKeeps
  <2>3. QueueLists(u, {} \cup {t})
    BY <1>1, RemoveLemma
  <2>4. Thins(u, k)
    BY RemoveThins
  <2> HIDE DEF u
  <2>5. u \in Kernel
    BY <2>3 DEF QueueLists
  <2>6. c \in Kernel /\ c.wait = u.wait /\ c.prio = [k.prio EXCEPT ![t] = p]
    BY <2>4, <2>5 DEF Kernel, Thins
  <2> HIDE DEF c
  <2>7. n.wait = c.wait
    BY <1>3, <1>4, <2>6, InsertKeeps
  <2>8. n.prio = c.prio
    <3>1. Thins(InsertThread(c, t), c)
      BY <2>6, InsertThins
    <3> QED BY <1>3, <1>4, <3>1 DEF Thins
  <2>9. n.wait = k.wait /\ n.prio = [k.prio EXCEPT ![t] = p]
    BY <2>2, <2>6, <2>7, <2>8
  <2> QED BY <1>2, <2>9 DEF Repriced
<1>5. CASE k.stat[t] # "READY"
  <2>1. n.wait = k.wait /\ n.prio = [k.prio EXCEPT ![t] = p]
    BY <1>1, <1>3, <1>5 DEF Kernel
  <2> QED BY <1>2, <2>1 DEF Repriced
<1> QED BY <1>4, <1>5

-----------------------------------------------------------------------------
(* Priority inheritance: what a chain of changes of priority does             *)

Placed(k) == \A m \in Mutex : SortedBy(k.prio, k.wait[m])

\* A mutex knows a priority at least as urgent as that of each thread that waits for it.
Urgent(s0) == \A m \in Mutex, t \in Thread : Waits(s0.k, t, m) => s0.urgency[m] <= s0.k.prio[t]

\* Every thread, x left aside, is as urgent as the mutexes it owns.
LentBut(s0, x) == \A t \in Thread \ {x}, m \in Mutex :
                    m \in s0.taken[t] => s0.k.prio[t] <= s0.urgency[m]

Lends(s0) == Placed(s0.k) /\ Urgent(s0) /\ LentBut(s0, None)

\* A thread waits for its pending mutex only, which is on the list of its owner and on
\* no other.
Coherent(s0) ==
  \A t \in Thread, m \in Mutex :
    /\ Waits(s0.k, t, m) =>
         s0.pending[t] = m /\ (s0.owner[m] # None => m \in s0.taken[s0.owner[m]])
    /\ m \in s0.taken[t] => s0.owner[m] = t

LEMMA Numbers ==
  /\ \A p \in Prio \cup {Lowest} : p \in Nat /\ p \in Int /\ p <= Lowest
  /\ \A p \in Prio : p \in Nat /\ p \in Int
BY MutexAssumption DEF Lowest

\* The priority of the first waiter is that of the most urgent one.
LEMMA FirstLemma ==
  ASSUME NEW k, NEW C, NEW m \in Mutex, InOrder(k, C), SortedBy(k.prio, k.wait[m])
  PROVE  /\ FirstUrgency(k, m) \in Prio \cup {Lowest}
         /\ \A t \in Thread : Waits(k, t, m) => FirstUrgency(k, m) <= k.prio[t]
         /\ \/ FirstUrgency(k, m) = Lowest /\ \A t \in Thread : ~Waits(k, t, m)
            \/ \E t \in Thread : Waits(k, t, m) /\ k.prio[t] = FirstUrgency(k, m)
<1> DEFINE l == k.wait[m]
           f == k.prio
<1>1. /\ m \in WaitObj /\ l \in Seq(Thread) /\ k \in Kernel
      /\ HasWaiter(k, m) <=> ToSet(l) # {}
      /\ HasWaiter(k, m) => Head(l) \in ToSet(l)
      /\ ToSet(l) \subseteq Thread
  <2>1. m \in WaitObj
    BY MutexAssumption
  <2> QED BY <2>1, OrderlyFacts
<1>2. f \in [Thread -> Prio]
  BY <1>1 DEF Kernel
<1>3. \A t \in Thread : Waits(k, t, m) <=> t \in ToSet(l)
  BY DEF Waits
<1>4. FirstUrgency(k, m) = IF HasWaiter(k, m) THEN f[Head(l)] ELSE Lowest
  BY DEF FirstUrgency
<1>5. SortedBy(f, l)
  OBVIOUS
<1> HIDE DEF l, f
<1>6. \A t \in ToSet(l) : f[Head(l)] <= f[t]
  BY <1>1, <1>2, <1>5, SortedHead
<1>7. CASE HasWaiter(k, m)
  <2>1. Head(l) \in Thread /\ Waits(k, Head(l), m) /\ f[Head(l)] \in Prio
    BY <1>1, <1>2, <1>3, <1>7
  <2> QED BY <1>3, <1>4, <1>6, <1>7, <2>1 DEF f
<1>8. CASE ~HasWaiter(k, m)
  <2>1. \A t \in Thread : ~Waits(k, t, m)
    BY <1>1, <1>3, <1>8
  <2> QED BY <1>4, <1>8, <2>1
<1> QED BY <1>7, <1>8

\* What a thread is due is its own priority, or that of a mutex it owns, whichever is
\* the most urgent.
LEMMA DueLemma ==
  ASSUME NEW s0 \in MutexState, NEW t \in Thread, NEW p, p = DuePrio(s0, t)
  PROVE  /\ p \in Prio /\ p <= InitPrio[t]
         /\ \A m \in s0.taken[t] : p <= s0.urgency[m] /\ p <= s0.ceiling[m]
         /\ \/ p = InitPrio[t]
            \/ \E m \in s0.taken[t] : p = s0.urgency[m] \/ p = s0.ceiling[m]
<1> DEFINE S == {InitPrio[t]} \cup {s0.urgency[m] : m \in s0.taken[t]}
                              \cup {s0.ceiling[m] : m \in s0.taken[t]}
<1>1. S \subseteq Prio \cup {Lowest} /\ S # {}
  BY StateFacts
<1>2. p = Min(S)
  BY DEF DuePrio
<1>3. /\ InitPrio[t] \in S
      /\ \A m \in s0.taken[t] : s0.urgency[m] \in S /\ s0.ceiling[m] \in S
      /\ \A x \in S : \/ x = InitPrio[t]
                      \/ \E m \in s0.taken[t] : x = s0.urgency[m] \/ x = s0.ceiling[m]
  OBVIOUS
<1> HIDE DEF S
<1>4. p \in S /\ \A x \in S : p <= x
  <2>1. S \in SUBSET Nat
    BY <1>1, Numbers
  <2>2. PICK y \in S : \A x \in S : y <= x
    BY <1>1, <2>1, LeastNatural
  <2> QED BY <1>2, <2>2 DEF Min
<1>5. p \in Prio
  BY DuePrioType
<1> QED BY <1>3, <1>4, <1>5

\* A waiter whose priority changes is put back where it belongs, and the others stay.
LEMMA MovePlaced ==
  ASSUME NEW k, NEW C, NEW t \in Thread, NEW m \in Mutex, NEW p \in Prio, InOrder(k, C),
         Placed(k), Suspended(k, t), NEW n, n = ChangePriority(k, t, p)
  PROVE  Placed(Enqueue(ListRemove(n, t), m, t))
         /\ Enqueue(ListRemove(n, t), m, t).prio = n.prio
<1> DEFINE l == ListRemove(n, t)
           r == Enqueue(l, m, t)
<1>1. InOrder(n, C) /\ Keeps(n, k) /\ n.wait = k.wait /\ n.prio = [k.prio EXCEPT ![t] = p]
  BY ChangePriorityFields DEF Repriced
<1>2. Suspended(n, t)
  BY <1>1 DEF Keeps, Awakened
<1>3. InOrder(l, C) /\ Unlinked(l, n, t)
  BY <1>1, <1>2, UnlinkOrderly
<1>4. l.wait = [o \in WaitObj |-> Unlink(k.wait[o], t)]
  <2>1. n \in Kernel
    BY <1>1, OrderlyFacts
  <2> QED BY <1>1, <2>1 DEF ListRemove, Kernel
<1> HIDE DEF l
<1>5. l.prio = n.prio /\ \A o \in WaitObj : t \notin ToSet(l.wait[o])
  BY <1>3 DEF Unlinked
<1>6. Placed(l)
  <2> SUFFICES ASSUME NEW q \in Mutex
               PROVE  SortedBy(l.prio, l.wait[q])
    BY DEF Placed
  <2>1. q \in WaitObj
    BY MutexAssumption
  <2>2. k.wait[q] \in Seq(Thread) /\ l.wait[q] \in Seq(Thread) /\ ToSet(l.wait[q]) \subseteq Thread
    BY <1>3, <2>1, OrderlyFacts
  <2>3. SortedBy(k.prio, l.wait[q])
    <3>1. SortedBy(k.prio, k.wait[q])
      BY DEF Placed
    <3>2. SortedBy(k.prio, Unlink(k.wait[q], t))
      BY <2>2, <3>1, SortedUnlink
    <3> QED BY <1>4, <2>1, <3>2
  <2>4. \A x \in ToSet(l.wait[q]) : l.prio[x] = k.prio[x]
    <3>1. k.prio \in [Thread -> Prio]
      BY OrderlyFacts DEF Kernel
    <3> QED BY <1>1, <1>5, <2>1, <2>2, <3>1
  <2> QED BY <2>2, <2>3, <2>4, SortedOther
<1>7. Thins(r, l)
  <2>1. Suspended(l, t) /\ m \in WaitObj
    BY <1>2, <1>3, MutexAssumption DEF Unlinked, Suspended
  <2> QED BY <1>3, <1>5, <2>1, EnqueueThins
<1> HIDE DEF r
<1>8. Placed(r) /\ r.prio = n.prio
  BY <1>5, <1>6, <1>7, MutexAssumption DEF Thins, Placed
<1> QED BY <1>8 DEF r, l

\* One call of _thread_update_priority: t gets the priority p; if it waits for a mutex m
\* it moves to the place that is due to it there, m learns of it, and the owner of m is
\* next unless it has the priority that is due to it.
Called(u, s0, t, p) ==
  /\ u.s.k.prio = [s0.k.prio EXCEPT ![t] = p]
  /\ u.s.ceiling = s0.ceiling
  /\ Placed(u.s.k)
  /\ \/ u.s.urgency = s0.urgency /\ u.t = None /\ \A m \in Mutex : ~Waits(s0.k, t, m)
     \/ \E m \in Mutex :
          /\ Waits(s0.k, t, m)
          /\ u.s.urgency = [s0.urgency EXCEPT ![m] = FirstUrgency(u.s.k, m)]
          /\ \/ s0.owner[m] = None /\ u.t = None
             \/ /\ s0.owner[m] \in Thread /\ u.t = None
                /\ DuePrio(u.s, s0.owner[m]) = u.s.k.prio[s0.owner[m]]
             \/ /\ s0.owner[m] \in Thread /\ u.t = s0.owner[m]
                /\ u.p = DuePrio(u.s, u.t) /\ u.p # u.s.k.prio[u.t]

LEMMA CalledLemma ==
  ASSUME NEW C, NEW c, Ordered(c.s, C), c.t \in Thread, c.p \in Prio, Movable(c.s, c.t),
         Coherent(c.s), Placed(c.s.k)
  PROVE  Called(UpdateOne(c), c.s, c.t, c.p)
<1> DEFINE s0 == c.s
           t == c.t
           p == c.p
           k1 == ChangePriority(s0.k, t, p)
           s1 == [s0 EXCEPT !.k = k1]
           m == s1.pending[t]
           k2 == Enqueue(ListRemove(s1.k, t), m, t)
           s2 == [s1 EXCEPT !.k = k2]
           r == Refresh(s2, m)
           o == r.owner[m]
           f == [r EXCEPT !.fault = TRUE]
           u == UpdateOne(c)
<1>0. t # None
  BY MutexAssumption
<1>1. u = IF ~Suspended(s1.k, t) \/ m = None
          THEN [s |-> s1, t |-> None, p |-> Lowest]
          ELSE IF o = None THEN [s |-> f, t |-> None, p |-> Lowest]
          ELSE IF DuePrio(r, o) = r.k.prio[o] THEN [s |-> r, t |-> None, p |-> Lowest]
          ELSE [s |-> r, t |-> o, p |-> DuePrio(r, o)]
  BY <1>0 DEF UpdateOne
<1>2. /\ s0 \in MutexState /\ InOrder(s0.k, C) /\ t \in Thread /\ p \in Prio
      /\ Movable(s0, t) /\ Coherent(s0) /\ Placed(s0.k)
  BY DEF Ordered
<1> HIDE DEF u, s0, t, p
<1>3. InOrder(k1, C) /\ Keeps(k1, s0.k) /\ k1.wait = s0.k.wait /\ k1 \in Kernel
      /\ k1.prio = [s0.k.prio EXCEPT ![t] = p]
  <2>1. k1 = ChangePriority(s0.k, t, p)
    OBVIOUS
  <2> HIDE DEF k1
  <2>2. Repriced(k1, s0.k, t, p, C)
    BY <1>2, <2>1, ChangePriorityFields
  <2>3. k1 \in Kernel
    BY <2>2, OrderlyFacts DEF Repriced
  <2> QED BY <2>2, <2>3 DEF Repriced
<1>4. \A x \in Mutex : Suspended(s0.k, t) =>
        /\ Placed(Enqueue(ListRemove(k1, t), x, t))
        /\ Enqueue(ListRemove(k1, t), x, t).prio = k1.prio
  BY <1>2, MovePlaced
<1> HIDE DEF k1
<1>5. /\ s1 \in MutexState /\ s1.k = k1 /\ s1.urgency = s0.urgency /\ s1.ceiling = s0.ceiling
      /\ s1.owner = s0.owner /\ s1.taken = s0.taken /\ s1.pending = s0.pending
  BY <1>2, <1>3 DEF MutexState
<1> HIDE DEF s1
<1>6. /\ m = s0.pending[t] /\ m \in Mutex \cup {None}
      /\ Suspended(s1.k, t) <=> Suspended(s0.k, t)
  BY <1>2, <1>3, <1>5, StateFacts DEF Keeps, Awakened
<1>7. CASE ~Suspended(s1.k, t) \/ m = None
  <2>1. u.s = s1 /\ u.t = None
    BY <1>1, <1>7
  <2>2. \A x \in Mutex : ~Waits(s0.k, t, x)
    <3> SUFFICES ASSUME NEW x \in Mutex, Waits(s0.k, t, x) PROVE FALSE
      OBVIOUS
    <3>1. x \in WaitObj /\ x # None
      BY MutexAssumption
    <3>2. Suspended(s0.k, t)
      BY <1>2, <3>1, OrderlyFacts DEF Waits, Suspended
    <3>3. s0.pending[t] = x
      BY <1>2 DEF Coherent
    <3> QED BY <1>6, <1>7, <3>1, <3>2, <3>3
  <2>3. Placed(k1)
    <3> SUFFICES ASSUME NEW q \in Mutex
                 PROVE  SortedBy(k1.prio, k1.wait[q])
      BY DEF Placed
    <3>1. q \in WaitObj
      BY MutexAssumption
    <3>2. s0.k.wait[q] \in Seq(Thread) /\ ToSet(s0.k.wait[q]) \subseteq Thread
      BY <1>2, <3>1, OrderlyFacts
    <3>3. t \notin ToSet(s0.k.wait[q])
      BY <2>2 DEF Waits
    <3>4. \A x \in ToSet(s0.k.wait[q]) : k1.prio[x] = s0.k.prio[x]
      <4>1. s0.k.prio \in [Thread -> Prio]
        BY <1>2, StateFacts
      <4> QED BY <1>3, <3>2, <3>3, <4>1
    <3>5. SortedBy(s0.k.prio, s0.k.wait[q])
      BY <1>2 DEF Placed
    <3>6. SortedBy(k1.prio, s0.k.wait[q])
      BY <3>2, <3>4, <3>5, SortedOther
    <3>7. k1.wait = s0.k.wait
      BY <1>3
    <3> QED BY <3>6, <3>7
  <2>4. Called(u, s0, t, p)
    BY <1>3, <1>5, <2>1, <2>2, <2>3 DEF Called
  <2> QED BY <2>4 DEF u, s0, t, p
<1>8. CASE ~(~Suspended(s1.k, t) \/ m = None)
  <2>1. m \in Mutex /\ Suspended(s0.k, t) /\ Waits(s0.k, t, m)
    BY <1>2, <1>6, <1>8 DEF Movable
  <2> HIDE DEF m
  <2>2. k2 = Enqueue(ListRemove(k1, t), m, t)
    BY <1>5
  <2>3. Placed(k2) /\ k2.prio = [s0.k.prio EXCEPT ![t] = p]
    BY <1>3, <1>4, <2>1, <2>2
  <2>4. InOrder(k2, C) /\ k2 \in Kernel
    <3>1. t \in ToSet(k1.wait[m]) /\ m \in WaitObj
      BY <1>3, <2>1, MutexAssumption DEF Waits
    <3>2. InOrder(k2, C)
      BY <1>2, <1>3, <2>2, <3>1, MoveOrderly
    <3> QED BY <3>2, OrderlyFacts
  <2> HIDE DEF k2
  <2>5. /\ s2 \in MutexState /\ s2.k = k2 /\ s2.urgency = s0.urgency /\ s2.ceiling = s0.ceiling
        /\ s2.owner = s0.owner
    BY <1>5, <2>4 DEF MutexState
  <2> HIDE DEF s2
  <2>6. /\ r.k = k2 /\ r.urgency = [s0.urgency EXCEPT ![m] = FirstUrgency(k2, m)]
        /\ r.ceiling = s0.ceiling /\ r.owner = s0.owner
    BY <2>5 DEF Refresh, MutexState
  <2>7. r \in MutexState
    <3>1. Ordered(s2, C)
      BY <2>4, <2>5 DEF Ordered
    <3>2. Calm(r, s2, C)
      BY <2>1, <3>1, RefreshCalm
    <3> QED BY <3>2 DEF Calm
  <2> HIDE DEF r
  <2>8. o = s0.owner[m] /\ o \in Thread \cup {None}
    BY <1>2, <2>1, <2>6, StateFacts
  <2>9. CASE o = None
    <3>1. f.k = r.k /\ f.urgency = r.urgency /\ f.ceiling = r.ceiling
      BY <2>7 DEF MutexState
    <3>2. u.s = f /\ u.t = None
      BY <1>1, <1>8, <2>9
    <3> HIDE DEF f, o
    <3>3. Called(u, s0, t, p)
      BY <2>1, <2>3, <2>6, <2>8, <2>9, <3>1, <3>2 DEF Called
    <3> QED BY <3>3 DEF u, s0, t, p
  <2>10. CASE o # None
    <3>1. \/ u.s = r /\ u.t = None /\ DuePrio(r, o) = r.k.prio[o]
          \/ u.s = r /\ u.t = o /\ u.p = DuePrio(r, o) /\ DuePrio(r, o) # r.k.prio[o]
      BY <1>1, <1>8, <2>10
    <3> HIDE DEF o
    <3>2. u.s = r /\ o \in Thread
      BY <2>8, <2>10, <3>1
    <3>3. u.s.urgency = [s0.urgency EXCEPT ![m] = FirstUrgency(u.s.k, m)]
      BY <2>6, <3>2
    <3>4. \/ s0.owner[m] \in Thread /\ u.t = None
             /\ DuePrio(u.s, s0.owner[m]) = u.s.k.prio[s0.owner[m]]
          \/ s0.owner[m] \in Thread /\ u.t = s0.owner[m]
             /\ u.p = DuePrio(u.s, u.t) /\ u.p # u.s.k.prio[u.t]
      BY <2>8, <3>1, <3>2
    <3>5. u.s.k.prio = [s0.k.prio EXCEPT ![t] = p] /\ u.s.ceiling = s0.ceiling /\ Placed(u.s.k)
      BY <2>3, <2>6, <3>2
    <3>6. Called(u, s0, t, p)
      BY <2>1, <3>3, <3>4, <3>5 DEF Called
    <3> QED BY <3>6 DEF u, s0, t, p
  <2> QED BY <2>9, <2>10
<1> QED BY <1>7, <1>8

\* No call of a chain changes any of this.
LEMMA CalmCoherent ==
  ASSUME NEW s0, NEW n, NEW C, Calm(n, s0, C), Coherent(s0)
  PROVE  /\ Coherent(n)
         /\ \A t \in Thread, m \in Mutex : Waits(n.k, t, m) <=> Waits(s0.k, t, m)
<1>1. \A t \in Thread, m \in Mutex : Waits(n.k, t, m) <=> Waits(s0.k, t, m)
  BY MutexAssumption DEF Calm, Keeps, Awakened, Waits
<1> QED BY <1>1 DEF Calm, SameOwners, Coherent

\* What a call finds: every thread but the one it is about is as urgent as the mutexes
\* it owns, and the priority it gives is as urgent as those of this one.
Boost(c, s0) ==
  /\ Placed(c.s.k) /\ Urgent(c.s) /\ LentBut(c.s, c.t)
  /\ c.t # None => \A m \in c.s.taken[c.t] : c.p <= c.s.urgency[m]
  /\ \A m \in Mutex : (\A t \in Thread : ~Waits(s0.k, t, m)) => c.s.urgency[m] = s0.urgency[m]

LEMMA BoostStep ==
  ASSUME NEW s0 \in MutexState, NEW C, SoundOwners(s0), Coherent(s0),
         NEW c, Link(c, s0, C), Boost(c, s0)
  PROVE  Boost(UpdateOne(c), s0)
<1> DEFINE u == UpdateOne(c)
           t == c.t
           p == c.p
           s1 == c.s
<1>1. CASE t = None
  BY <1>1 DEF UpdateOne
<1>2. CASE t # None
  <2>1. /\ s1 \in MutexState /\ InOrder(s1.k, C) /\ t \in Thread /\ p \in Prio
        /\ Movable(s1, t) /\ Calm(s1, s0, C) /\ Ordered(s1, C)
    BY <1>2 DEF Link, Calm, Ordered
  <2>2. /\ Coherent(s1)
        /\ \A x \in Thread, m \in Mutex : Waits(s1.k, x, m) <=> Waits(s0.k, x, m)
    BY <2>1, CalmCoherent
  <2>3. /\ Placed(s1.k) /\ Urgent(s1) /\ LentBut(s1, t)
        /\ \A m \in s1.taken[t] : p <= s1.urgency[m]
        /\ \A m \in Mutex : (\A x \in Thread : ~Waits(s0.k, x, m))
                              => s1.urgency[m] = s0.urgency[m]
    BY <1>2 DEF Boost
  <2>4. Called(u, s1, t, p)
    BY <2>1, <2>2, <2>3, CalledLemma
  <2>5. Link(u, s0, C)
    BY UpdateOneLink
  <2> HIDE DEF u, t, p, s1
  <2>6. Calm(u.s, s0, C) /\ u.s \in MutexState /\ InOrder(u.s.k, C)
    BY <2>5 DEF Link, Calm
  <2>7. /\ \A x \in Thread, m \in Mutex : Waits(u.s.k, x, m) <=> Waits(s1.k, x, m)
        /\ u.s.taken = s1.taken /\ u.s.owner = s1.owner
    <3>1. \A x \in Thread, m \in Mutex : Waits(u.s.k, x, m) <=> Waits(s0.k, x, m)
      BY <2>6, CalmCoherent
    <3> QED BY <2>1, <2>2, <2>6, <3>1 DEF Calm, SameOwners
  <2>8. /\ u.s.k.prio = [s1.k.prio EXCEPT ![t] = p] /\ Placed(u.s.k)
        /\ s1.k.prio \in [Thread -> Prio] /\ s1.urgency \in [Mutex -> Prio \cup {Lowest}]
        /\ s1.taken \in [Thread -> SUBSET Mutex] /\ s1.owner \in [Mutex -> Thread \cup {None}]
    BY <2>1, <2>4, StateFacts DEF Called
  <2>9. CASE /\ u.s.urgency = s1.urgency /\ u.t = None
             /\ \A m \in Mutex : ~Waits(s1.k, t, m)
    <3>1. Urgent(u.s)
      BY <2>3, <2>7, <2>8, <2>9 DEF Urgent
    <3>2. LentBut(u.s, None)
      <4> SUFFICES ASSUME NEW x \in Thread \ {None}, NEW m \in Mutex, m \in u.s.taken[x]
                   PROVE  u.s.k.prio[x] <= u.s.urgency[m]
        BY DEF LentBut
      <4>1. CASE x = t
        BY <2>3, <2>7, <2>8, <2>9, <4>1
      <4>2. CASE x # t
        BY <2>3, <2>7, <2>8, <2>9, <4>2 DEF LentBut
      <4> QED BY <4>1, <4>2
    <3> QED BY <2>3, <2>8, <2>9, <3>1, <3>2 DEF Boost, u
  <2>10. CASE ~(/\ u.s.urgency = s1.urgency /\ u.t = None
                /\ \A m \in Mutex : ~Waits(s1.k, t, m))
    <3>1. PICK m \in Mutex :
            /\ Waits(s1.k, t, m)
            /\ u.s.urgency = [s1.urgency EXCEPT ![m] = FirstUrgency(u.s.k, m)]
            /\ \/ s1.owner[m] = None /\ u.t = None
               \/ /\ s1.owner[m] \in Thread /\ u.t = None
                  /\ DuePrio(u.s, s1.owner[m]) = u.s.k.prio[s1.owner[m]]
               \/ /\ s1.owner[m] \in Thread /\ u.t = s1.owner[m]
                  /\ u.p = DuePrio(u.s, u.t) /\ u.p # u.s.k.prio[u.t]
      BY <2>4, <2>10 DEF Called
    <3> DEFINE o == s1.owner[m]
    <3>2. \A x \in Thread : Waits(u.s.k, x, m) => FirstUrgency(u.s.k, m) <= u.s.k.prio[x]
      <4>1. SortedBy(u.s.k.prio, u.s.k.wait[m])
        BY <2>8 DEF Placed
      <4> QED BY <2>6, <4>1, FirstLemma
    <3>3. Urgent(u.s)
      <4> SUFFICES ASSUME NEW q \in Mutex, NEW x \in Thread, Waits(u.s.k, x, q)
                   PROVE  u.s.urgency[q] <= u.s.k.prio[x]
        BY DEF Urgent
      <4>1. CASE q = m
        BY <2>8, <3>1, <3>2, <4>1
      <4>2. CASE q # m
        <5>1. x # t
          BY <2>2, <2>7, <3>1, <4>2 DEF Coherent
        <5>2. u.s.urgency[q] = s1.urgency[q] /\ u.s.k.prio[x] = s1.k.prio[x]
          BY <2>8, <3>1, <4>2, <5>1
        <5> QED BY <2>3, <2>7, <5>2 DEF Urgent
      <4> QED BY <4>1, <4>2
    <3>4. ASSUME NEW x \in Thread, NEW q \in Mutex, q \in u.s.taken[x], q # m \/ x # o
          PROVE  u.s.k.prio[x] <= u.s.urgency[q]
      <4>1. q # m
        BY <2>2, <2>7, <3>4 DEF Coherent
      <4>2. u.s.urgency[q] = s1.urgency[q] /\ q \in s1.taken[x]
        BY <2>7, <2>8, <3>1, <3>4, <4>1
      <4>3. CASE x = t
        BY <2>3, <2>8, <4>2, <4>3
      <4>4. CASE x # t
        BY <2>3, <2>8, <4>2, <4>4 DEF LentBut
      <4> QED BY <4>3, <4>4
    <3>5. \A x \in Thread : \A q \in u.s.taken[x] : DuePrio(u.s, x) <= u.s.urgency[q]
      BY <2>6, DueLemma
    <3>6. LentBut(u.s, u.t)
      <4> SUFFICES ASSUME NEW x \in Thread \ {u.t}, NEW q \in Mutex, q \in u.s.taken[x]
                   PROVE  u.s.k.prio[x] <= u.s.urgency[q]
        BY DEF LentBut
      <4>1. CASE x = o
        <5>1. o \in Thread /\ u.t = None /\ DuePrio(u.s, o) = u.s.k.prio[o]
          BY <3>1, <4>1, MutexAssumption
        <5> QED BY <3>5, <4>1, <5>1
      <4>2. CASE x # o
        BY <3>4, <4>2
      <4> QED BY <4>1, <4>2
    <3>7. u.t # None => \A q \in u.s.taken[u.t] : u.p <= u.s.urgency[q]
      <4>1. u.t # None => u.t \in Thread /\ u.p = DuePrio(u.s, u.t)
        BY <3>1
      <4> QED BY <3>5, <4>1
    <3>8. \A q \in Mutex : (\A x \in Thread : ~Waits(s0.k, x, q)) => u.s.urgency[q] = s0.urgency[q]
      BY <2>1, <2>2, <2>3, <2>8, <3>1
    <3> QED BY <2>8, <3>3, <3>6, <3>7, <3>8 DEF Boost, u
  <2> QED BY <2>9, <2>10
<1> QED BY <1>1, <1>2

-----------------------------------------------------------------------------
(* Priority inheritance: what is given back                                   *)

\* The priority p of t is called for: t was created with one as urgent, or it owns a
\* mutex that has one as urgent.
Earned(s0, t, p) == \/ InitPrio[t] <= p
                    \/ \E m \in s0.taken[t] : s0.urgency[m] <= p \/ s0.ceiling[m] <= p

\* A mutex knows the priority of its most urgent waiter.
Level(s0) == \A m \in Mutex : s0.urgency[m] = FirstUrgency(s0.k, m)

\* The priority of every thread, x left aside, is called for.
EarnedBut(s0, x) == \A t \in Thread \ {x} : Earned(s0, t, s0.k.prio[t])

Gives(s0) == Level(s0) /\ EarnedBut(s0, None)

\* What a call of a chain finds; the first one is for t and p.
Owes(s0, t, p) == Level(s0) /\ EarnedBut(s0, t) /\ Earned(s0, t, p)
Owing(c) == /\ Level(c.s) /\ EarnedBut(c.s, c.t)
            /\ c.t # None => Earned(c.s, c.t, c.p)

LEMMA EarnedDue ==
  ASSUME NEW s0 \in MutexState, NEW t \in Thread, NEW p \in Prio
  PROVE  Earned(s0, t, p) <=> DuePrio(s0, t) <= p
<1> DEFINE d == DuePrio(s0, t)
<1>1. /\ d \in Prio /\ d <= InitPrio[t]
      /\ \A m \in s0.taken[t] : d <= s0.urgency[m] /\ d <= s0.ceiling[m]
      /\ \/ d = InitPrio[t]
         \/ \E m \in s0.taken[t] : d = s0.urgency[m] \/ d = s0.ceiling[m]
  BY DueLemma
<1> HIDE DEF d
<1>2. \A m \in s0.taken[t] : s0.urgency[m] \in Int /\ s0.ceiling[m] \in Int
  BY StateFacts, Numbers
<1>3. d \in Int /\ p \in Int /\ InitPrio[t] \in Int
  BY <1>1, Numbers
<1>4. Earned(s0, t, p) => d <= p
  BY <1>1, <1>2, <1>3 DEF Earned
<1>5. d <= p => Earned(s0, t, p)
  BY <1>1 DEF Earned
<1> QED BY <1>4, <1>5 DEF d

LEMMA DueEarned ==
  ASSUME NEW s0 \in MutexState, NEW t \in Thread
  PROVE  Earned(s0, t, DuePrio(s0, t))
<1> DEFINE d == DuePrio(s0, t)
<1>1. d \in Prio /\ d = DuePrio(s0, t)
  BY DuePrioType
<1> HIDE DEF d
<1>2. d <= d
  BY <1>1, Numbers
<1>3. Earned(s0, t, d)
  BY <1>1, <1>2, EarnedDue
<1> QED BY <1>1, <1>3

\* The same threads wait for m, with the same priorities.
SameWaiters(n, k, m) == \A t \in Thread : /\ Waits(n, t, m) <=> Waits(k, t, m)
                                          /\ Waits(k, t, m) => n.prio[t] = k.prio[t]

\* The first waiter has the same priority as long as the waiters and their priorities
\* are the same.
LEMMA FirstSame ==
  ASSUME NEW k, NEW n, NEW C, NEW D, NEW m \in Mutex, InOrder(k, C), InOrder(n, D),
         SortedBy(k.prio, k.wait[m]), SortedBy(n.prio, n.wait[m]), SameWaiters(n, k, m)
  PROVE  FirstUrgency(n, m) = FirstUrgency(k, m)
<1> DEFINE f == FirstUrgency(k, m)
           g == FirstUrgency(n, m)
<1>1. /\ f \in Prio \cup {Lowest}
      /\ \A t \in Thread : Waits(k, t, m) => f <= k.prio[t]
      /\ \/ f = Lowest /\ \A t \in Thread : ~Waits(k, t, m)
         \/ \E t \in Thread : Waits(k, t, m) /\ k.prio[t] = f
  BY FirstLemma
<1>2. /\ g \in Prio \cup {Lowest}
      /\ \A t \in Thread : Waits(n, t, m) => g <= n.prio[t]
      /\ \/ g = Lowest /\ \A t \in Thread : ~Waits(n, t, m)
         \/ \E t \in Thread : Waits(n, t, m) /\ n.prio[t] = g
  BY FirstLemma
<1> HIDE DEF f, g
<1>3. f \in Int /\ g \in Int
  BY <1>1, <1>2, Numbers
<1>4. CASE \A t \in Thread : ~Waits(k, t, m)
  BY <1>1, <1>2, <1>4 DEF f, g, SameWaiters
<1>5. CASE ~(\A t \in Thread : ~Waits(k, t, m))
  <2>1. g <= f
    BY <1>1, <1>2, <1>5 DEF SameWaiters
  <2>2. f <= g
    BY <1>1, <1>2, <1>5 DEF SameWaiters
  <2>3. f = g
    BY <1>3, <2>1, <2>2
  <2> QED BY <2>3 DEF f, g
<1> QED BY <1>4, <1>5

\* Mutexes that the step from s0 to n leaves as they are, with their waiters.
LEMMA LevelSame ==
  ASSUME NEW s0, NEW n, NEW C, NEW D, InOrder(s0.k, C), InOrder(n.k, D),
         Placed(s0.k), Placed(n.k), Level(s0), NEW m \in Mutex,
         n.urgency[m] = s0.urgency[m], SameWaiters(n.k, s0.k, m)
  PROVE  n.urgency[m] = FirstUrgency(n.k, m)
<1>1. SortedBy(s0.k.prio, s0.k.wait[m]) /\ SortedBy(n.k.prio, n.k.wait[m])
  BY DEF Placed
<1>2. FirstUrgency(n.k, m) = FirstUrgency(s0.k, m)
  BY <1>1, FirstSame
<1> QED BY <1>2 DEF Level

\* The mutexes of x are the same, and so is what they know.
LEMMA EarnedSame ==
  ASSUME NEW s0, NEW n, NEW t, NEW p, Earned(s0, t, p), n.ceiling = s0.ceiling,
         \A m \in s0.taken[t] : m \in n.taken[t] /\ n.urgency[m] = s0.urgency[m]
  PROVE  Earned(n, t, p)
BY DEF Earned

LEMMA OwingStep ==
  ASSUME NEW s0 \in MutexState, NEW C, SoundOwners(s0), Coherent(s0),
         NEW c, Link(c, s0, C), Boost(c, s0), Owing(c)
  PROVE  Owing(UpdateOne(c))
<1> DEFINE u == UpdateOne(c)
           t == c.t
           p == c.p
           s1 == c.s
<1>1. CASE t = None
  BY <1>1 DEF UpdateOne
<1>2. CASE t # None
  <2>1. /\ s1 \in MutexState /\ InOrder(s1.k, C) /\ t \in Thread /\ p \in Prio
        /\ Movable(s1, t) /\ Calm(s1, s0, C) /\ Ordered(s1, C)
    BY <1>2 DEF Link, Calm, Ordered
  <2>2. /\ Coherent(s1)
        /\ \A x \in Thread, m \in Mutex : Waits(s1.k, x, m) <=> Waits(s0.k, x, m)
    BY <2>1, CalmCoherent
  <2>3. /\ Placed(s1.k) /\ Level(s1) /\ EarnedBut(s1, t) /\ Earned(s1, t, p)
    BY <1>2 DEF Boost, Owing
  <2>4. Called(u, s1, t, p)
    BY <2>1, <2>2, <2>3, CalledLemma
  <2>5. Link(u, s0, C)
    BY UpdateOneLink
  <2> HIDE DEF u, t, p, s1
  <2>6. Calm(u.s, s0, C) /\ u.s \in MutexState /\ InOrder(u.s.k, C)
    BY <2>5 DEF Link, Calm
  <2>7. /\ \A x \in Thread, m \in Mutex : Waits(u.s.k, x, m) <=> Waits(s1.k, x, m)
        /\ u.s.taken = s1.taken /\ u.s.owner = s1.owner
    <3>1. \A x \in Thread, m \in Mutex : Waits(u.s.k, x, m) <=> Waits(s0.k, x, m)
      BY <2>6, CalmCoherent
    <3> QED BY <2>1, <2>2, <2>6, <3>1 DEF Calm, SameOwners
  <2>8. /\ u.s.k.prio = [s1.k.prio EXCEPT ![t] = p] /\ Placed(u.s.k) /\ u.s.ceiling = s1.ceiling
        /\ s1.k.prio \in [Thread -> Prio] /\ s1.urgency \in [Mutex -> Prio \cup {Lowest}]
        /\ s1.taken \in [Thread -> SUBSET Mutex] /\ s1.owner \in [Mutex -> Thread \cup {None}]
    BY <2>1, <2>4, StateFacts DEF Called
  <2>9. /\ u.s.k.prio[t] = p /\ \A x \in Thread : x # t => u.s.k.prio[x] = s1.k.prio[x]
    BY <2>1, <2>8
  <2>10. \A x \in Thread : Earned(s1, x, u.s.k.prio[x])
    BY <2>3, <2>9 DEF EarnedBut
  <2>11. \A q \in Mutex : ~Waits(s1.k, t, q) /\ u.s.urgency[q] = s1.urgency[q]
                            => u.s.urgency[q] = FirstUrgency(u.s.k, q)
    <3> SUFFICES ASSUME NEW q \in Mutex, ~Waits(s1.k, t, q), u.s.urgency[q] = s1.urgency[q]
                 PROVE  u.s.urgency[q] = FirstUrgency(u.s.k, q)
      OBVIOUS
    <3>1. SameWaiters(u.s.k, s1.k, q)
      BY <2>7, <2>9 DEF SameWaiters
    <3> DEFINE r == u.s
    <3>2. /\ InOrder(r.k, C) /\ Placed(r.k) /\ r.urgency[q] = s1.urgency[q]
          /\ SameWaiters(r.k, s1.k, q)
      BY <2>6, <2>8, <3>1
    <3> HIDE DEF r
    <3>3. r.urgency[q] = FirstUrgency(r.k, q)
      BY <2>1, <2>3, <3>2, LevelSame
    <3> QED BY <3>3 DEF r
  <2>12. CASE /\ u.s.urgency = s1.urgency /\ u.t = None
              /\ \A m \in Mutex : ~Waits(s1.k, t, m)
    <3>1. Level(u.s)
      BY <2>11, <2>12 DEF Level
    <3>2. EarnedBut(u.s, None)
      BY <2>7, <2>8, <2>10, <2>12 DEF EarnedBut, Earned
    <3> QED BY <2>12, <3>1, <3>2 DEF Owing, u
  <2>13. CASE ~(/\ u.s.urgency = s1.urgency /\ u.t = None
                /\ \A m \in Mutex : ~Waits(s1.k, t, m))
    <3>1. PICK m \in Mutex :
            /\ Waits(s1.k, t, m)
            /\ u.s.urgency = [s1.urgency EXCEPT ![m] = FirstUrgency(u.s.k, m)]
            /\ \/ s1.owner[m] = None /\ u.t = None
               \/ /\ s1.owner[m] \in Thread /\ u.t = None
                  /\ DuePrio(u.s, s1.owner[m]) = u.s.k.prio[s1.owner[m]]
               \/ /\ s1.owner[m] \in Thread /\ u.t = s1.owner[m]
                  /\ u.p = DuePrio(u.s, u.t) /\ u.p # u.s.k.prio[u.t]
      BY <2>4, <2>13 DEF Called
    <3> DEFINE o == s1.owner[m]
    <3>2. Level(u.s)
      <4> SUFFICES ASSUME NEW q \in Mutex
                   PROVE  u.s.urgency[q] = FirstUrgency(u.s.k, q)
        BY DEF Level
      <4>1. CASE q = m
        BY <2>8, <3>1, <4>1
      <4>2. CASE q # m
        <5>1. ~Waits(s1.k, t, q)
          BY <2>1, <2>2, <3>1, <4>2 DEF Coherent
        <5> QED BY <2>8, <2>11, <3>1, <4>2, <5>1
      <4> QED BY <4>1, <4>2
    <3>3. ASSUME NEW x \in Thread, x # o
          PROVE  Earned(u.s, x, u.s.k.prio[x])
      <4>1. m \notin s1.taken[x]
        BY <2>2, <3>3 DEF Coherent
      <4>2. \A q \in s1.taken[x] : q \in u.s.taken[x] /\ u.s.urgency[q] = s1.urgency[q]
        BY <2>7, <2>8, <3>1, <4>1
      <4> DEFINE y == u.s.k.prio[x]
                 r == u.s
      <4>3. Earned(s1, x, y) /\ r.ceiling = s1.ceiling
        BY <2>8, <2>10
      <4>4. \A q \in s1.taken[x] : q \in r.taken[x] /\ r.urgency[q] = s1.urgency[q]
        BY <4>2
      <4> HIDE DEF y, r
      <4>5. Earned(r, x, y)
        BY <4>3, <4>4, EarnedSame
      <4> QED BY <4>5 DEF y, r
    <3>4. \A x \in Thread : Earned(u.s, x, DuePrio(u.s, x))
      BY <2>6, DueEarned
    <3>5. EarnedBut(u.s, u.t)
      <4> SUFFICES ASSUME NEW x \in Thread \ {u.t}
                   PROVE  Earned(u.s, x, u.s.k.prio[x])
        BY DEF EarnedBut
      <4>1. CASE x = o
        <5>1. o \in Thread /\ DuePrio(u.s, o) = u.s.k.prio[o]
          BY <3>1, <4>1, MutexAssumption
        <5> QED BY <3>4, <4>1, <5>1
      <4>2. CASE x # o
        BY <3>3, <4>2
      <4> QED BY <4>1, <4>2
    <3>6. u.t # None => Earned(u.s, u.t, u.p)
      <4>1. u.t # None => u.t \in Thread /\ u.p = DuePrio(u.s, u.t)
        BY <3>1
      <4> QED BY <3>4, <4>1
    <3> QED BY <3>2, <3>5, <3>6 DEF Owing, u
  <2> QED BY <2>12, <2>13
<1> QED BY <1>1, <1>2

-----------------------------------------------------------------------------
(* Priority inheritance: why a chain ends                                     *)

\* The threads that earlier calls of a chain were about are not more urgent than the
\* priority the next call gives, and that call does not leave its thread as it is.
Trail(c, V) == /\ V \subseteq Thread
               /\ \A y \in V : c.p <= c.s.k.prio[y] /\ (y = c.t => c.p # c.s.k.prio[y])

\* the priorities that those threads will not be given again
Behind(k, V) == {z \in Thread \X Prio : z[1] \in V /\ k.prio[z[1]] <= z[2]}

LEMMA TrailStep ==
  ASSUME NEW s0 \in MutexState, NEW C, SoundOwners(s0), Coherent(s0),
         NEW c, Link(c, s0, C), Boost(c, s0), NEW V, Trail(c, V),
         NEW u, u = UpdateOne(c), u.t # None
  PROVE  /\ c.t \in Thread /\ c.p \in Prio /\ Trail(u, V \cup {c.t})
         /\ <<c.t, c.p>> \notin Behind(c.s.k, V)
         /\ Behind(c.s.k, V) \cup {<<c.t, c.p>>} \subseteq Behind(u.s.k, V \cup {c.t})
<1> DEFINE t == c.t
           p == c.p
           s1 == c.s
<1>1. t # None
  <2>1. t = None => UpdateOne(c) = c
    BY DEF UpdateOne
  <2> QED BY <2>1
<1>2. /\ s1 \in MutexState /\ InOrder(s1.k, C) /\ t \in Thread /\ p \in Prio
      /\ Movable(s1, t) /\ Calm(s1, s0, C) /\ Ordered(s1, C) /\ Placed(s1.k)
  BY <1>1 DEF Link, Calm, Ordered, Boost
<1>3. Coherent(s1)
  BY <1>2, CalmCoherent
<1>4. Called(u, s1, t, p)
  BY <1>2, <1>3, CalledLemma
<1>5. Calm(u.s, s0, C)
  BY UpdateOneLink DEF Link
<1>6. V \subseteq Thread /\ \A y \in V : p <= s1.k.prio[y] /\ (y = t => p # s1.k.prio[y])
  BY DEF Trail
<1> HIDE DEF t, p, s1
<1>7. u.s \in MutexState /\ InOrder(u.s.k, C)
  BY <1>5 DEF Calm
<1>8. /\ \A x \in Thread, m \in Mutex : Waits(u.s.k, x, m) <=> Waits(s1.k, x, m)
      /\ u.s.taken = s1.taken
  <2>1. \A x \in Thread, m \in Mutex : Waits(u.s.k, x, m) <=> Waits(s0.k, x, m)
    BY <1>5, CalmCoherent
  <2>2. \A x \in Thread, m \in Mutex : Waits(s1.k, x, m) <=> Waits(s0.k, x, m)
    BY <1>2, CalmCoherent
  <2> QED BY <1>2, <1>5, <2>1, <2>2 DEF Calm, SameOwners
<1>9. /\ u.s.k.prio = [s1.k.prio EXCEPT ![t] = p] /\ Placed(u.s.k)
      /\ s1.k.prio \in [Thread -> Prio] /\ \A x \in Thread : s1.k.prio[x] \in Int
  BY <1>2, <1>4, StateFacts, Numbers DEF Called
<1>10. PICK m \in Mutex :
         /\ Waits(s1.k, t, m)
         /\ u.s.urgency = [s1.urgency EXCEPT ![m] = FirstUrgency(u.s.k, m)]
         /\ s1.owner[m] \in Thread /\ u.t = s1.owner[m]
         /\ u.p = DuePrio(u.s, u.t) /\ u.p # u.s.k.prio[u.t]
  BY <1>4 DEF Called
<1>11. u.p <= p /\ u.p \in Int /\ p \in Int
  <2>1. m \in u.s.taken[u.t]
    <3>1. s1.owner[m] # None
      BY <1>10, MutexAssumption
    <3>2. m \in s1.taken[s1.owner[m]]
      BY <1>2, <1>3, <1>10, <3>1 DEF Coherent
    <3> QED BY <1>8, <1>10, <3>2
  <2>2. u.p <= u.s.urgency[m] /\ u.p \in Prio
    BY <1>7, <1>10, <2>1, DueLemma
  <2>3. u.s.urgency[m] = FirstUrgency(u.s.k, m)
    BY <1>2, <1>10, StateFacts
  <2>4. /\ FirstUrgency(u.s.k, m) \in Prio \cup {Lowest}
        /\ \A x \in Thread : Waits(u.s.k, x, m) => FirstUrgency(u.s.k, m) <= u.s.k.prio[x]
    <3>1. SortedBy(u.s.k.prio, u.s.k.wait[m])
      BY <1>9 DEF Placed
    <3> QED BY <1>7, <3>1, FirstLemma
  <2>5. FirstUrgency(u.s.k, m) <= p
    <3>1. u.s.k.prio[t] = p /\ Waits(u.s.k, t, m)
      BY <1>2, <1>8, <1>9, <1>10
    <3> QED BY <1>2, <2>4, <3>1
  <2>6. u.p \in Int /\ p \in Int /\ FirstUrgency(u.s.k, m) \in Int
    BY <1>2, <2>2, <2>4, Numbers
  <2> QED BY <2>2, <2>3, <2>5, <2>6
<1>12. Trail(u, V \cup {t})
  <2> SUFFICES ASSUME NEW y \in V \cup {t}
               PROVE  u.p <= u.s.k.prio[y] /\ (y = u.t => u.p # u.s.k.prio[y])
    BY <1>2, <1>6 DEF Trail
  <2>1. y = u.t => u.p # u.s.k.prio[y]
    BY <1>10
  <2>2. CASE y = t
    BY <1>2, <1>9, <1>11, <2>1, <2>2
  <2>3. CASE y # t
    <3>1. u.s.k.prio[y] = s1.k.prio[y] /\ p <= s1.k.prio[y] /\ s1.k.prio[y] \in Int
      BY <1>6, <1>9, <2>3
    <3> QED BY <1>11, <2>1, <3>1
  <2> QED BY <2>2, <2>3
<1>13. <<t, p>> \notin Behind(s1.k, V)
  <2> SUFFICES ASSUME t \in V, s1.k.prio[t] <= p PROVE FALSE
    BY DEF Behind
  <2> QED BY <1>2, <1>6, <1>9, <1>11
<1>14. ASSUME NEW z \in Behind(s1.k, V) \cup {<<t, p>>}
       PROVE  z \in Behind(u.s.k, V \cup {t})
  <2>1. CASE z = <<t, p>>
    <3>1. u.s.k.prio[t] = p /\ p <= p /\ z \in Thread \X Prio /\ z[1] = t /\ z[2] = p
      BY <1>2, <1>9, <1>11, <2>1
    <3> QED BY <3>1 DEF Behind
  <2>2. CASE z \in Behind(s1.k, V)
    <3>1. z \in Thread \X Prio /\ z[1] \in V /\ s1.k.prio[z[1]] <= z[2] /\ z[2] \in Prio
      BY <2>2 DEF Behind
    <3>2. CASE z[1] # t
      BY <1>6, <1>9, <3>1, <3>2 DEF Behind
    <3>3. CASE z[1] = t
      <4>1. u.s.k.prio[z[1]] = p /\ p <= s1.k.prio[z[1]] /\ s1.k.prio[z[1]] \in Int
        BY <1>2, <1>6, <1>9, <3>1, <3>3
      <4>2. z[2] \in Int
        BY <3>1, Numbers
      <4>3. u.s.k.prio[z[1]] <= z[2]
        BY <1>11, <3>1, <4>1, <4>2
      <4> QED BY <3>1, <4>3 DEF Behind
    <3> QED BY <3>2, <3>3
  <2> QED BY <1>14, <2>1, <2>2
<1> QED BY <1>2, <1>12, <1>13, <1>14 DEF t, p, s1

\* The call of _thread_update_priority comes to an end before the pairs of a thread and
\* a priority are used up, even along owners that wait for each other, and afterwards
\* every thread is as urgent as what it owns.
Ready(s0, C, t, p) ==
  /\ Ordered(s0, C) /\ SoundOwners(s0) /\ Coherent(s0)
  /\ t \in Thread /\ p \in Prio /\ Movable(s0, t)
  /\ Placed(s0.k) /\ Urgent(s0) /\ LentBut(s0, t)
  /\ \A m \in s0.taken[t] : p <= s0.urgency[m]

LEMMA CallsEnd ==
  ASSUME NEW s0, NEW C, NEW t, NEW p, Ready(s0, C, t, p), NEW d, d = LastCall(s0, t, p)
  PROVE  /\ Link(d, s0, C) /\ Boost(d, s0) /\ d.t = None
         /\ Owes(s0, t, p) => Owing(d)
<1> DEFINE c == [s |-> s0, t |-> t, p |-> p]
           N == Most
           all == Thread \X Prio
<1>1. N \in Nat /\ IsFiniteSet(all) /\ N = Cardinality(all)
  BY CallsLemma DEF Most
<1>2. PICK f : CallsFrom(f, s0, t, p)
  BY CallsLemma
<1>3. /\ s0 \in MutexState /\ Ordered(s0, C) /\ SoundOwners(s0) /\ Coherent(s0)
  BY DEF Ready, Ordered
<1>4. c.s = s0 /\ c.t = t /\ c.p = p /\ f[0] = c
  BY <1>2 DEF CallsFrom
<1> HIDE DEF c
<1>5. Link(c, s0, C) /\ Boost(c, s0) /\ Trail(c, {}) /\ (Owes(s0, t, p) => Owing(c))
  <2>1. Calm(s0, s0, C)
    BY <1>3, CalmSame
  <2>2. Link(c, s0, C) /\ Boost(c, s0) /\ Trail(c, {})
    BY <1>4, <2>1 DEF Link, Boost, Trail, Ready
  <2>3. Owes(s0, t, p) => Owing(c)
    BY <1>4 DEF Owes, Owing
  <2> QED BY <2>2, <2>3
<1> DEFINE Far(n) == f[n].t # None
                       => \E V : Trail(f[n], V) /\ n <= Cardinality(Behind(f[n].s.k, V))
           good == {n \in 0..N : /\ Link(f[n], s0, C) /\ Boost(f[n], s0) /\ Far(n)
                                 /\ Owes(s0, t, p) => Owing(f[n])}
<1>6. \A V, k : Behind(k, V) \subseteq all /\ IsFiniteSet(Behind(k, V))
                  /\ Cardinality(Behind(k, V)) \in Nat
  <2> TAKE V, k
  <2>1. Behind(k, V) \subseteq all
    BY DEF Behind
  <2>2. IsFiniteSet(Behind(k, V))
    BY <1>1, <2>1, FS_Subset
  <2> QED BY <2>1, <2>2, FS_CardinalityType
<1> HIDE DEF all
<1>7. 0 \in good
  <2>1. 0 <= Cardinality(Behind(c.s.k, {}))
    BY <1>6
  <2> QED BY <1>1, <1>4, <1>5, <2>1
<1>8. ASSUME NEW n \in 1..N, n - 1 \in good
      PROVE  n \in good
  <2> DEFINE b == f[n - 1]
             u == f[n]
  <2>1. /\ Link(b, s0, C) /\ Boost(b, s0) /\ Far(n - 1) /\ u = UpdateOne(b)
        /\ n \in 0..N /\ n \in Int /\ (Owes(s0, t, p) => Owing(b))
    BY <1>1, <1>2, <1>8 DEF CallsFrom
  <2>2. Link(u, s0, C) /\ Boost(u, s0)
    BY <1>3, <2>1, UpdateOneLink, BoostStep
  <2>4. Owes(s0, t, p) => Owing(u)
    BY <1>3, <2>1, OwingStep
  <2>3. Far(n)
    <3> SUFFICES ASSUME u.t # None
                 PROVE  \E V : Trail(u, V) /\ n <= Cardinality(Behind(u.s.k, V))
      OBVIOUS
    <3>1. b.t # None
      <4>1. b.t = None => UpdateOne(b) = b
        BY DEF UpdateOne
      <4> QED BY <2>1, <4>1
    <3>2. PICK V : Trail(b, V) /\ n - 1 <= Cardinality(Behind(b.s.k, V))
      BY <2>1, <3>1
    <3> HIDE DEF b, u
    <3> DEFINE S == Behind(b.s.k, V)
               T == Behind(u.s.k, V \cup {b.t})
    <3>3. /\ Trail(u, V \cup {b.t})
          /\ <<b.t, b.p>> \notin S /\ S \cup {<<b.t, b.p>>} \subseteq T
      BY <1>3, <2>1, <3>2, TrailStep
    <3>4. IsFiniteSet(S) /\ IsFiniteSet(T) /\ Cardinality(S) \in Nat /\ Cardinality(T) \in Nat
      BY <1>6
    <3> HIDE DEF S, T
    <3>5. Cardinality(S) <= Cardinality(T) /\ Cardinality(S) # Cardinality(T)
      <4>1. S \in SUBSET T /\ S # T
        BY <3>3
      <4> QED BY <3>4, <4>1, FS_Subset
    <3>6. n <= Cardinality(T)
      BY <2>1, <3>2, <3>4, <3>5 DEF S
    <3> QED BY <3>3, <3>6 DEF T
  <2> QED BY <2>1, <2>2, <2>3, <2>4
<1> HIDE DEF good
<1>9. N \in good
  <2>1. N \in 0..N
    BY <1>1
  <2> QED BY <1>1, <1>7, <1>8, <2>1, CountUp
<1>10. /\ Link(d, s0, C) /\ Boost(d, s0) /\ f[N] = d
       /\ Owes(s0, t, p) => Owing(d)
  BY <1>2, <1>9 DEF good, CallsFrom
<1>11. d.t = None
  <2> SUFFICES ASSUME d.t # None PROVE FALSE
    OBVIOUS
  <2>1. PICK V : Trail(d, V) /\ N <= Cardinality(Behind(d.s.k, V))
    BY <1>9, <1>10 DEF good
  <2> DEFINE S == Behind(d.s.k, V)
  <2>2. S \subseteq all /\ Cardinality(S) \in Nat
    BY <1>6
  <2>3. S = all
    <3> HIDE DEF S
    <3>1. Cardinality(S) <= Cardinality(all) /\ (Cardinality(all) = Cardinality(S) => all = S)
      BY <1>1, <2>2, FS_Subset
    <3> QED BY <1>1, <2>1, <2>2, <3>1 DEF S
  <2>4. d.t \in Thread /\ d.p \in Prio /\ d.s.k.prio[d.t] \in Prio
    <3>1. d.t \in Thread /\ d.p \in Prio /\ d.s \in MutexState
      BY <1>10 DEF Link, Calm
    <3> QED BY <3>1, StateFacts
  <2>5. d.t \in V /\ d.s.k.prio[d.t] <= d.p
    <3>1. <<d.t, d.p>> \in S
      BY <2>3, <2>4 DEF all
    <3> QED BY <3>1 DEF Behind
  <2>6. d.p <= d.s.k.prio[d.t] /\ d.p # d.s.k.prio[d.t]
    BY <2>1, <2>5 DEF Trail
  <2>7. d.p \in Int /\ d.s.k.prio[d.t] \in Int
    BY <2>4, Numbers
  <2> QED BY <2>5, <2>6, <2>7
<1> QED BY <1>10, <1>11

LEMMA UpdatePriorityLends ==
  ASSUME NEW s0, NEW C, NEW t, NEW p, Ready(s0, C, t, p), NEW n, n = UpdatePriority(s0, t, p)
  PROVE  /\ Calm(n, s0, C) /\ Lends(n) /\ Coherent(n)
         /\ \A m \in Mutex : (\A x \in Thread : ~Waits(s0.k, x, m)) => n.urgency[m] = s0.urgency[m]
         /\ Owes(s0, t, p) => Gives(n)
<1> DEFINE d == LastCall(s0, t, p)
<1>1. /\ Link(d, s0, C) /\ Boost(d, s0) /\ d.t = None
      /\ Owes(s0, t, p) => Owing(d)
  BY CallsEnd
<1>2. n = d.s
  BY DEF UpdatePriority
<1> HIDE DEF d
<1>3. Calm(n, s0, C) /\ Lends(n)
  BY <1>1, <1>2 DEF Link, Boost, Lends
<1>4. Coherent(n)
  BY <1>3, CalmCoherent DEF Ready
<1>5. Owes(s0, t, p) => Gives(n)
  BY <1>1, <1>2 DEF Owing, Gives
<1> QED BY <1>1, <1>2, <1>3, <1>4, <1>5 DEF Boost

\* A thread that waits for nothing is the only one whose priority changes.
LEMMA UpdatePriorityAlone ==
  ASSUME NEW s0, NEW C, NEW t \in Thread, NEW p \in Prio, Ordered(s0, C), ~Suspended(s0.k, t)
  PROVE  UpdatePriority(s0, t, p) = [s0 EXCEPT !.k = ChangePriority(s0.k, t, p)]
<1> DEFINE k1 == ChangePriority(s0.k, t, p)
           c == [s |-> s0, t |-> t, p |-> p]
           d == [s |-> [s0 EXCEPT !.k = k1], t |-> None, p |-> Lowest]
           N == Most
<1>1. PICK f : CallsFrom(f, s0, t, p)
  BY CallsLemma
<1>2. /\ N \in Nat /\ f[0] = c /\ f[N] = LastCall(s0, t, p)
      /\ \A n \in 1..N : f[n] = UpdateOne(f[n - 1])
  BY <1>1, CallsLemma DEF CallsFrom, Most
<1>3. s0 \in MutexState /\ InOrder(s0.k, C)
  BY DEF Ordered
<1>4. ~Suspended(k1, t)
  <2>1. k1 = ChangePriority(s0.k, t, p)
    OBVIOUS
  <2> HIDE DEF k1
  <2>2. Repriced(k1, s0.k, t, p, C)
    BY <1>3, <2>1, ChangePriorityFields
  <2> QED BY <2>2 DEF Repriced, Keeps, Awakened
<1>5. UpdateOne(c) = d
  <2> DEFINE s1 == [s0 EXCEPT !.k = k1]
  <2>1. s1.k = k1
    BY <1>3 DEF MutexState
  <2>2. t # None
    BY MutexAssumption
  <2>3. UpdateOne(c) = IF c.t = None THEN c ELSE d
    BY <1>4, <2>1 DEF UpdateOne
  <2> QED BY <2>2, <2>3
<1>6. UpdateOne(d) = d
  BY DEF UpdateOne
<1> HIDE DEF c, d
<1> DEFINE good == {n \in 0..N : n > 0 => f[n] = d}
<1>7. 0 \in good
  BY <1>2
<1>8. ASSUME NEW n \in 1..N, n - 1 \in good
      PROVE  n \in good
  <2>1. n \in 0..N /\ f[n] = UpdateOne(f[n - 1])
    BY <1>2, <1>8
  <2>2. CASE n = 1
    BY <1>2, <1>5, <2>1, <2>2
  <2>3. CASE n # 1
    <3>1. n - 1 > 0
      BY <1>8, <2>3, <1>2
    <3> QED BY <1>6, <1>8, <2>1, <3>1
  <2> QED BY <2>2, <2>3
<1> HIDE DEF good
<1>9. N \in good
  BY <1>2, <1>7, <1>8, CountUp
<1>10. N > 0
  <2> DEFINE all == Thread \X Prio
  <2>1. IsFiniteSet(all) /\ N = Cardinality(all) /\ all # {}
    <3>1. <<t, p>> \in all
      OBVIOUS
    <3> QED BY <3>1, CallsLemma DEF Most
  <2> HIDE DEF all, N
  <2>2. Cardinality(all) # 0
    BY <2>1, FS_EmptySet
  <2> QED BY <1>2, <2>1, <2>2
<1>11. f[N] = d
  BY <1>9, <1>10 DEF good
<1> QED BY <1>2, <1>11 DEF UpdatePriority, d

-----------------------------------------------------------------------------
(* Priority inheritance: what the functions do                                *)

LEMMA LentWeaker ==
  ASSUME NEW s0, LentBut(s0, None), NEW x
  PROVE  LentBut(s0, x)
<1>1. \A t \in Thread : t \in Thread \ {None}
  BY MutexAssumption
<1> QED BY <1>1 DEF LentBut

\* Waits end, and mutexes leave the lists of their owners.
LEMMA LendsShrinks ==
  ASSUME NEW s0, NEW n, Lends(s0), Thins(n.k, s0.k), n.urgency = s0.urgency,
         \A t \in Thread, m \in Mutex : /\ Waits(n.k, t, m) => Waits(s0.k, t, m)
                                        /\ m \in n.taken[t] => m \in s0.taken[t]
  PROVE  Lends(n)
<1>1. Placed(n.k)
  BY MutexAssumption DEF Lends, Placed, Thins
<1>2. n.k.prio = s0.k.prio
  BY DEF Thins
<1> QED BY <1>1, <1>2 DEF Lends, Urgent, LentBut

\* _mutex_update_priority
LEMMA RefreshLends ==
  ASSUME NEW s0, NEW C, NEW m \in Mutex, Ordered(s0, C), Placed(s0.k), NEW n, n = Refresh(s0, m)
  PROVE  /\ n.k = s0.k /\ n.taken = s0.taken
         /\ n.urgency = [s0.urgency EXCEPT ![m] = FirstUrgency(s0.k, m)]
         /\ \A t \in Thread : Waits(n.k, t, m) => n.urgency[m] <= n.k.prio[t]
         /\ \A q \in Mutex : q # m => n.urgency[q] = s0.urgency[q]
         /\ Lends(s0) => Lends(n)
<1> DEFINE p == FirstUrgency(s0.k, m)
<1>1. s0 \in MutexState /\ InOrder(s0.k, C)
  BY DEF Ordered
<1>2. /\ n.k = s0.k /\ n.taken = s0.taken /\ n.urgency = [s0.urgency EXCEPT ![m] = p]
      /\ s0.urgency \in [Mutex -> Prio \cup {Lowest}]
  BY <1>1 DEF Refresh, MutexState
<1>3. /\ p \in Prio \cup {Lowest}
      /\ \A t \in Thread : Waits(s0.k, t, m) => p <= s0.k.prio[t]
      /\ \/ p = Lowest
         \/ \E t \in Thread : Waits(s0.k, t, m) /\ s0.k.prio[t] = p
  <2>1. SortedBy(s0.k.prio, s0.k.wait[m])
    BY DEF Placed
  <2> QED BY <1>1, <2>1, FirstLemma
<1> HIDE DEF p
<1>4. n.urgency[m] = p /\ \A q \in Mutex : q # m => n.urgency[q] = s0.urgency[q]
  BY <1>2
<1>5. ASSUME Lends(s0)
      PROVE  Lends(n)
  <2>1. s0.urgency[m] <= p
    <3>1. s0.urgency[m] <= Lowest
      BY <1>2, Numbers
    <3> QED BY <1>3, <1>5, <3>1 DEF Lends, Urgent
  <2>2. Urgent(n)
    BY <1>2, <1>3, <1>4, <1>5 DEF Lends, Urgent
  <2>3. LentBut(n, None)
    <3> SUFFICES ASSUME NEW t \in Thread \ {None}, NEW q \in Mutex, q \in n.taken[t]
                 PROVE  n.k.prio[t] <= n.urgency[q]
      BY DEF LentBut
    <3>1. s0.k.prio[t] <= s0.urgency[q]
      BY <1>2, <1>5 DEF Lends, LentBut
    <3>2. s0.k.prio[t] \in Int /\ s0.urgency[q] \in Int /\ p \in Int
      BY <1>1, <1>2, <1>3, StateFacts, Numbers
    <3>3. CASE q = m
      BY <1>2, <1>4, <2>1, <3>1, <3>2, <3>3
    <3>4. CASE q # m
      BY <1>2, <1>4, <3>1, <3>4
    <3> QED BY <3>3, <3>4
  <2> QED BY <1>2, <1>5, <2>2, <2>3 DEF Lends
<1> QED BY <1>2, <1>3, <1>4, <1>5 DEF p

\* The owners, the waiters and what is pending agree.
Sound(s0, C) == Ordered(s0, C) /\ SoundOwners(s0) /\ Coherent(s0)

LEMMA CalmKeepsSound ==
  ASSUME NEW s0, NEW n, NEW C, Sound(s0, C), Calm(n, s0, C)
  PROVE  Sound(n, C)
<1>1. s0 \in MutexState /\ Coherent(s0) /\ SoundOwners(s0)
  BY DEF Sound, Ordered
<1>2. Coherent(n)
  BY <1>1, CalmCoherent
<1>3. SoundOwners(n)
  BY <1>1, CalmSound
<1>4. Ordered(n, C)
  BY DEF Ordered, Calm
<1> QED BY <1>2, <1>3, <1>4 DEF Sound

LEMMA OwnerReady ==
  ASSUME NEW s0, NEW C, NEW m \in Mutex, Sound(s0, C), s0.owner[m] # None
  PROVE  /\ s0.owner[m] \in Thread /\ Movable(s0, s0.owner[m])
         /\ s0 \in MutexState /\ InOrder(s0.k, C)
BY StateFacts DEF Sound, Ordered, SoundOwners

\* give the owner of m what is due to it
LEMMA UpdateOwnerLends ==
  ASSUME NEW s0, NEW C, NEW m \in Mutex, Sound(s0, C), s0.owner[m] # None,
         Placed(s0.k), Urgent(s0), LentBut(s0, s0.owner[m]), NEW n, n = UpdateOwner(s0, m)
  PROVE  Lends(n) /\ (Level(s0) /\ EarnedBut(s0, s0.owner[m]) => Gives(n))
<1> DEFINE o == s0.owner[m]
           p == DuePrio(s0, o)
<1>1. o \in Thread /\ Movable(s0, o) /\ s0 \in MutexState
  BY OwnerReady
<1>2. p \in Prio /\ \A q \in s0.taken[o] : p <= s0.urgency[q]
  BY <1>1, DueLemma
<1>3. n = IF p # s0.k.prio[o] THEN UpdatePriority(s0, o, p) ELSE s0
  BY DEF UpdateOwner
<1>4. LentBut(s0, o) /\ Earned(s0, o, p) /\ o = s0.owner[m]
  BY <1>1, DueEarned
<1> HIDE DEF o, p
<1>5. CASE p # s0.k.prio[o]
  <2>1. Ready(s0, C, o, p)
    BY <1>1, <1>2, <1>4 DEF Ready, Sound
  <2>2. Lends(n) /\ (Owes(s0, o, p) => Gives(n))
    BY <1>3, <1>5, <2>1, UpdatePriorityLends
  <2> QED BY <1>4, <2>2 DEF Owes
<1>6. CASE p = s0.k.prio[o]
  <2>1. LentBut(s0, None)
    BY <1>2, <1>4, <1>6 DEF LentBut
  <2>2. EarnedBut(s0, o) => EarnedBut(s0, None)
    BY <1>4, <1>6 DEF EarnedBut
  <2> QED BY <1>3, <1>4, <1>6, <2>1, <2>2 DEF Lends, Gives
<1> QED BY <1>5, <1>6

\* the priority of the first waiter, once more
LEMMA RefreshGives ==
  ASSUME NEW s0, NEW C, NEW m \in Mutex, Ordered(s0, C), Placed(s0.k), Gives(s0)
  PROVE  Gives(Refresh(s0, m))
<1> DEFINE n == Refresh(s0, m)
<1>1. /\ n.k = s0.k /\ n.taken = s0.taken
      /\ n.urgency = [s0.urgency EXCEPT ![m] = FirstUrgency(s0.k, m)]
  BY RefreshLends
<1>2. n.ceiling = s0.ceiling /\ s0.urgency \in [Mutex -> Prio \cup {Lowest}]
  BY DEF Refresh, Ordered, MutexState
<1>3. s0.urgency[m] = FirstUrgency(s0.k, m)
  BY DEF Gives, Level
<1> HIDE DEF n
<1>4. n.urgency = s0.urgency
  BY <1>1, <1>2, <1>3
<1>5. Gives(n)
  BY <1>1, <1>2, <1>4 DEF Gives, Level, EarnedBut, Earned
<1> QED BY <1>5 DEF n

\* the end of a wait for m
LEMMA WithdrawLends ==
  ASSUME NEW s0, NEW C, NEW m \in Mutex, NEW p, Sound(s0, C), s0.owner[m] # None, Lends(s0)
  PROVE  Lends(Withdraw(s0, m, p)) /\ (Gives(s0) => Gives(Withdraw(s0, m, p)))
<1> DEFINE r == Refresh(s0, m)
<1>1. Withdraw(s0, m, p) = IF p = s0.k.prio[s0.owner[m]] THEN UpdateOwner(r, m) ELSE r
  BY DEF Withdraw
<1>2. Calm(r, s0, C)
  BY RefreshCalm DEF Sound
<1>3. Lends(r) /\ (Gives(s0) => Gives(r))
  BY RefreshLends, RefreshGives DEF Sound, Lends
<1> HIDE DEF r
<1>4. Sound(r, C) /\ r.owner[m] # None
  BY <1>2, CalmKeepsSound DEF Calm, SameOwners
<1>5. Lends(UpdateOwner(r, m)) /\ (Gives(r) => Gives(UpdateOwner(r, m)))
  <2>1. Placed(r.k) /\ Urgent(r) /\ LentBut(r, r.owner[m])
    BY <1>3, LentWeaker DEF Lends
  <2>2. Gives(r) => Level(r) /\ EarnedBut(r, r.owner[m])
    BY MutexAssumption DEF Gives, EarnedBut
  <2> QED BY <1>4, <2>1, <2>2, UpdateOwnerLends
<1> QED BY <1>1, <1>3, <1>5

\* the owner takes back the priority it has without m
LEMMA RestoreLends ==
  ASSUME NEW s0, NEW C, NEW t \in Thread, NEW m \in Mutex, Ordered(s0, C),
         ~Suspended(s0.k, t), Placed(s0.k), Urgent(s0), LentBut(s0, None)
  PROVE  /\ Lends(Restore(s0, t, m))
         /\ /\ Level(s0) /\ EarnedBut(s0, t)
            /\ ~Restores(s0, t, m) => Earned(s0, t, s0.k.prio[t])
            => Gives(Restore(s0, t, m))
<1> DEFINE p == DuePrio(s0, t)
           k1 == ChangePriority(s0.k, t, p)
           r == [s0 EXCEPT !.k = k1]
<1>1. s0 \in MutexState /\ InOrder(s0.k, C) /\ p \in Prio /\ \A q \in s0.taken[t] : p <= s0.urgency[q]
  BY DueLemma DEF Ordered
<1>2. Restore(s0, t, m) = IF Restores(s0, t, m) THEN r ELSE s0
  BY DEF Restore
<1>20. Earned(s0, t, p)
  BY <1>1, DueEarned
<1> HIDE DEF p
<1>3. Repriced(k1, s0.k, t, p, C)
  BY <1>1, ChangePriorityFields
<1> HIDE DEF k1
<1>4. /\ r.k = k1 /\ r.urgency = s0.urgency /\ r.taken = s0.taken
      /\ r.ceiling = s0.ceiling
  BY <1>1 DEF MutexState
<1> HIDE DEF r
<1>5. /\ k1.wait = s0.k.wait /\ k1.prio = [s0.k.prio EXCEPT ![t] = p]
      /\ s0.k.prio \in [Thread -> Prio]
  BY <1>1, <1>3, StateFacts DEF Repriced
<1>6. \A q \in Mutex : /\ q \in WaitObj /\ s0.k.wait[q] \in Seq(Thread)
                       /\ t \notin ToSet(s0.k.wait[q]) /\ ToSet(s0.k.wait[q]) \subseteq Thread
  BY <1>1, OrderlyFacts, MutexAssumption DEF Suspended
<1>7. Placed(k1)
  <2> SUFFICES ASSUME NEW q \in Mutex
               PROVE  SortedBy(k1.prio, k1.wait[q])
    BY DEF Placed
  <2>1. SortedBy(s0.k.prio, s0.k.wait[q])
    BY DEF Placed
  <2>2. \A x \in ToSet(s0.k.wait[q]) : k1.prio[x] = s0.k.prio[x]
    BY <1>5, <1>6
  <2>3. SortedBy(k1.prio, s0.k.wait[q])
    BY <1>6, <2>1, <2>2, SortedOther
  <2> QED BY <1>5, <2>3
<1>8. Urgent(r)
  <2>1. \A q \in Mutex : ~Waits(s0.k, t, q)
    BY <1>6 DEF Waits
  <2>2. \A q \in Mutex, x \in Thread : Waits(r.k, x, q) <=> Waits(s0.k, x, q)
    BY <1>4, <1>5 DEF Waits
  <2> QED BY <1>4, <1>5, <2>1, <2>2 DEF Urgent
<1>9. LentBut(r, None)
  <2> SUFFICES ASSUME NEW x \in Thread \ {None}, NEW q \in Mutex, q \in r.taken[x]
               PROVE  r.k.prio[x] <= r.urgency[q]
    BY DEF LentBut
  <2>1. CASE x = t
    BY <1>1, <1>4, <1>5, <2>1
  <2>2. CASE x # t
    BY <1>4, <1>5, <2>2 DEF LentBut
  <2> QED BY <2>1, <2>2
<1>10. Lends(r) /\ Lends(s0)
  BY <1>4, <1>7, <1>8, <1>9 DEF Lends
<1>11. Level(s0) => Level(r)
  <2> SUFFICES ASSUME Level(s0), NEW q \in Mutex
               PROVE  r.urgency[q] = FirstUrgency(r.k, q)
    BY DEF Level
  <2>1. SameWaiters(r.k, s0.k, q)
    <3>1. \A x \in Thread : Waits(s0.k, x, q) => x # t
      BY <1>6 DEF Waits
    <3> QED BY <1>4, <1>5, <3>1 DEF SameWaiters, Waits
  <2>2. InOrder(r.k, C) /\ Placed(r.k)
    BY <1>3, <1>4, <1>7 DEF Repriced
  <2> QED BY <1>1, <1>4, <2>1, <2>2, LevelSame
<1>12. EarnedBut(s0, t) => EarnedBut(r, None)
  <2> SUFFICES ASSUME EarnedBut(s0, t), NEW x \in Thread
               PROVE  Earned(r, x, r.k.prio[x])
    BY DEF EarnedBut
  <2>1. Earned(s0, x, r.k.prio[x])
    BY <1>4, <1>5, <1>20 DEF EarnedBut
  <2> QED BY <1>4, <2>1, EarnedSame
<1>13. /\ Level(s0) /\ EarnedBut(s0, t) /\ Earned(s0, t, s0.k.prio[t])
       => Gives(s0)
  BY DEF Gives, EarnedBut
<1> QED BY <1>2, <1>10, <1>11, <1>12, <1>13 DEF Gives

\* rt_mutex_setprioceiling
LEMMA SetCeilingLends ==
  ASSUME NEW s0, NEW C, NEW m \in Mutex, NEW c \in Prio, Sound(s0, C), Lends(s0)
  PROVE  /\ Lends(SetCeiling(s0, m, c))
         /\ Gives(s0) /\ (s0.owner[m] = None => \A x \in Thread : m \notin s0.taken[x])
            => Gives(SetCeiling(s0, m, c))
<1> DEFINE r == [s0 EXCEPT !.ceiling[m] = c]
<1>1. SetCeiling(s0, m, c) = IF s0.owner[m] # None THEN UpdateOwner(r, m) ELSE r
  BY DEF SetCeiling
<1>2. /\ r \in MutexState /\ r.k = s0.k /\ r.owner = s0.owner /\ r.hold = s0.hold
      /\ r.taken = s0.taken /\ r.pending = s0.pending /\ r.urgency = s0.urgency
      /\ \A x \in Mutex : x # m => r.ceiling[x] = s0.ceiling[x]
  BY DEF Sound, Ordered, MutexState
<1> HIDE DEF r
<1>3. Calm(r, s0, C)
  BY <1>2 DEF Calm, SameOwners, Sound, Ordered, Keeps, Awakened
<1>4. Sound(r, C)
  BY <1>3, CalmKeepsSound
<1>5. Lends(r)
  BY <1>2 DEF Lends, Urgent, LentBut
<1>6. s0.owner[m] # None =>
        /\ Lends(UpdateOwner(r, m))
        /\ Level(r) /\ EarnedBut(r, s0.owner[m]) => Gives(UpdateOwner(r, m))
  <2>1. Placed(r.k) /\ Urgent(r) /\ LentBut(r, r.owner[m])
    BY <1>5, LentWeaker DEF Lends
  <2> QED BY <1>2, <1>4, <2>1, UpdateOwnerLends
<1>7. Level(s0) => Level(r)
  BY <1>2 DEF Level
<1>8. ASSUME EarnedBut(s0, None), NEW x \in Thread, m \notin s0.taken[x]
      PROVE  Earned(r, x, r.k.prio[x])
  <2>1. Earned(s0, x, s0.k.prio[x]) /\ s0.taken[x] \subseteq Mutex
    BY <1>8, StateFacts, MutexAssumption DEF EarnedBut, Sound, Ordered
  <2> QED BY <1>2, <1>8, <2>1 DEF Earned
<1>9. \A x \in Thread : m \in s0.taken[x] => x = s0.owner[m]
  BY DEF Sound, Coherent
<1>10. Gives(s0) => Level(r) /\ EarnedBut(r, s0.owner[m])
  BY <1>7, <1>8, <1>9 DEF Gives, EarnedBut
<1>11. /\ Gives(s0) /\ s0.owner[m] = None
       /\ \A x \in Thread : m \notin s0.taken[x]
       => Gives(r)
  BY <1>7, <1>8 DEF Gives, EarnedBut
<1> QED BY <1>1, <1>5, <1>6, <1>10, <1>11

\* t gets a free mutex that nobody waits for
LEMMA GrabLends ==
  ASSUME NEW s0, NEW C, NEW t \in Thread, NEW m \in Mutex, Sound(s0, C), Lends(s0),
         ~Suspended(s0.k, t), \A u \in Thread : m \notin s0.taken[u] /\ ~Waits(s0.k, u, m)
  PROVE  Lends(Grab(s0, t, m)) /\ (Gives(s0) => Gives(Grab(s0, t, m)))
<1> DEFINE k1 == SetError(s0.k, t, "EOK")
           b == [s0 EXCEPT !.owner[m] = t, !.urgency[m] = Lowest, !.hold[m] = 1]
           g == [b EXCEPT !.k = k1]
           p == s0.ceiling[m]
           u == IF p < s0.k.prio[t] THEN UpdatePriority(g, t, p) ELSE g
           n == [u EXCEPT !.taken[t] = @ \cup {m}]
<1>1. /\ s0 \in MutexState /\ InOrder(s0.k, C) /\ "EOK" \in Error /\ s0.k \in Kernel
      /\ 1 \in 0..HoldMax /\ t \in Thread \cup {None} /\ Lowest \in Prio \cup {Lowest}
      /\ Coherent(s0) /\ SoundOwners(s0)
  BY StateFacts, MutexAssumption DEF Sound, Ordered, Error
<1>2. /\ b \in MutexState /\ b.k = s0.k /\ b.taken = s0.taken /\ b.pending = s0.pending
      /\ b.ceiling = s0.ceiling /\ b.urgency = [s0.urgency EXCEPT ![m] = Lowest]
      /\ \A x \in Mutex : b.owner[x] = IF x = m THEN t ELSE s0.owner[x]
  BY <1>1 DEF MutexState
<1>3. Grab(s0, t, m) = n
  <2>1. Grab(s0, t, m) =
          LET d == [b EXCEPT !.k = SetError(b.k, t, "EOK")]
              v == IF s0.ceiling[m] < s0.k.prio[t] THEN UpdatePriority(d, t, s0.ceiling[m])
                   ELSE d
          IN [v EXCEPT !.taken[t] = @ \cup {m}]
    BY DEF Grab, SetError
  <2> QED BY <1>2, <2>1
<1>4. /\ InOrder(k1, C) /\ k1.stat = s0.k.stat /\ k1.wait = s0.k.wait
      /\ Thins(k1, s0.k)
  BY <1>1, ErrorOrderly, ErrorThins
<1> HIDE DEF k1, b
<1>5. k1 \in Kernel /\ k1.prio = s0.k.prio
  BY <1>4, OrderlyFacts DEF Thins
<1>6. /\ g \in MutexState /\ g.k = k1 /\ g.taken = s0.taken /\ g.pending = s0.pending
      /\ g.urgency = [s0.urgency EXCEPT ![m] = Lowest] /\ g.ceiling = s0.ceiling
      /\ \A x \in Mutex : g.owner[x] = IF x = m THEN t ELSE s0.owner[x]
  BY <1>2, <1>5 DEF MutexState
<1> HIDE DEF g
<1>7. Ordered(g, C) /\ Movable(g, t) /\ SoundOwners(g)
  <2>1. \A x \in Thread : Movable(s0, x) => Movable(g, x)
    BY <1>4, <1>6 DEF Movable, Suspended, Waits
  <2>2. Movable(g, t)
    BY <1>4, <1>6 DEF Movable, Suspended
  <2>3. \A x \in Mutex : s0.owner[x] \in Thread \cup {None}
    BY <1>1, StateFacts
  <2> QED BY <1>1, <1>4, <1>6, <2>1, <2>2, <2>3 DEF SoundOwners, Ordered
<1>8. \A x \in Thread, q \in Mutex : Waits(g.k, x, q) <=> Waits(s0.k, x, q)
  BY <1>4, <1>6 DEF Waits
<1>9. Coherent(g)
  <2> SUFFICES ASSUME NEW x \in Thread, NEW q \in Mutex
               PROVE  /\ Waits(g.k, x, q) =>
                           /\ g.pending[x] = q
                           /\ g.owner[q] # None => q \in g.taken[g.owner[q]]
                      /\ q \in g.taken[x] => g.owner[q] = x
    BY DEF Coherent
  <2>1. CASE q = m
    BY <1>6, <1>8, <2>1
  <2>2. CASE q # m
    BY <1>1, <1>6, <1>8, <2>2 DEF Coherent
  <2> QED BY <2>1, <2>2
<1>10. /\ g.urgency[m] = Lowest /\ \A q \in Mutex : q # m => g.urgency[q] = s0.urgency[q]
  BY <1>1, <1>6, StateFacts
<1>11. Lends(g)
  <2>1. Placed(g.k)
    BY <1>4, <1>5, <1>6 DEF Lends, Placed
  <2>2. Urgent(g)
    BY <1>5, <1>6, <1>8, <1>10 DEF Lends, Urgent
  <2>3. LentBut(g, None)
    BY <1>5, <1>6, <1>10 DEF Lends, LentBut
  <2> QED BY <2>1, <2>2, <2>3 DEF Lends
<1>16. p < s0.k.prio[t] => p \in Prio
  <2>1. p \in Prio \cup {Lowest} /\ s0.k.prio[t] \in Prio
    BY <1>1, StateFacts
  <2>2. s0.k.prio[t] <= Lowest /\ s0.k.prio[t] \in Int /\ Lowest \in Int
    BY <2>1, Numbers
  <2>3. p < s0.k.prio[t] => p # Lowest
    BY <2>2
  <2> QED BY <2>1, <2>3
<1>17. /\ InOrder(u.k, C) /\ u.k.wait = s0.k.wait
       /\ u.taken = s0.taken /\ u.urgency = g.urgency /\ u.ceiling = s0.ceiling
       /\ \A x \in Thread : x # t => u.k.prio[x] = s0.k.prio[x]
       /\ u.k.prio[t] = s0.k.prio[t] \/ (u.k.prio[t] = p /\ p \in Prio)
  <2>1. CASE p < s0.k.prio[t]
    <3> DEFINE k2 == ChangePriority(g.k, t, p)
    <3>1. ~Suspended(g.k, t) /\ p \in Prio
      BY <1>4, <1>6, <1>16, <2>1 DEF Suspended
    <3>2. u = [g EXCEPT !.k = k2]
      BY <1>7, <2>1, <3>1, UpdatePriorityAlone
    <3>3. Repriced(k2, g.k, t, p, C)
      BY <1>4, <1>6, <3>1, ChangePriorityFields
    <3> HIDE DEF u, p, k2
    <3>4. /\ u.k = k2 /\ u.taken = g.taken /\ u.urgency = g.urgency
          /\ u.ceiling = g.ceiling
      BY <1>6, <3>2 DEF MutexState
    <3>5. k1.prio \in [Thread -> Prio]
      BY <1>1, <1>5, StateFacts
    <3> QED BY <1>4, <1>5, <1>6, <3>1, <3>3, <3>4, <3>5 DEF Repriced
  <2>2. CASE ~(p < s0.k.prio[t])
    <3>1. u = g
      BY <2>2
    <3> HIDE DEF u
    <3> QED BY <1>4, <1>5, <1>6, <3>1
  <2> QED BY <2>1, <2>2
<1>12. u \in MutexState /\ Lends(u) /\ u.urgency[m] = Lowest
  <2>1. CASE p < s0.k.prio[t]
    <3>1. s0.k.prio[t] \in Prio
      BY <1>1, StateFacts
    <3>2. p \in Prio
      BY <1>16, <2>1
    <3>3. \A q \in g.taken[t] : p <= g.urgency[q]
      <4> SUFFICES ASSUME NEW q \in g.taken[t]
                   PROVE  p <= g.urgency[q]
        OBVIOUS
      <4>1. q \in Mutex /\ g.urgency[q] \in Prio \cup {Lowest}
        BY <1>6, StateFacts
      <4>2. g.k.prio[t] <= g.urgency[q]
        BY <1>11, <4>1, MutexAssumption DEF Lends, LentBut
      <4>3. g.k.prio[t] = s0.k.prio[t]
        BY <1>5, <1>6
      <4> HIDE DEF p
      <4>4. p \in Int /\ s0.k.prio[t] \in Int /\ g.urgency[q] \in Int
        BY <3>1, <3>2, <4>1, Numbers
      <4> QED BY <2>1, <4>2, <4>3, <4>4
    <3>4. u = UpdatePriority(g, t, p)
      BY <2>1
    <3> HIDE DEF u, p
    <3>5. Ready(g, C, t, p)
      BY <1>7, <1>9, <1>11, <3>2, <3>3, LentWeaker DEF Ready, Lends
    <3>6. /\ Calm(u, g, C) /\ Lends(u)
          /\ (\A x \in Thread : ~Waits(g.k, x, m)) => u.urgency[m] = g.urgency[m]
      BY <3>4, <3>5, UpdatePriorityLends
    <3> QED BY <1>8, <1>10, <3>6 DEF Calm
  <2>2. CASE ~(p < s0.k.prio[t])
    BY <1>6, <1>10, <1>11, <2>2
  <2> QED BY <2>1, <2>2
<1> HIDE DEF u
<1>13. /\ n.k = u.k /\ n.urgency = u.urgency /\ n.ceiling = u.ceiling
       /\ \A x \in Thread, y \in Mutex :
            y \in n.taken[x] <=> y \in u.taken[x] \/ (x = t /\ y = m)
  BY <1>12 DEF MutexState
<1> HIDE DEF n
<1>14. LentBut(n, None)
  <2> SUFFICES ASSUME NEW x \in Thread \ {None}, NEW q \in Mutex, q \in n.taken[x]
               PROVE  n.k.prio[x] <= n.urgency[q]
    BY DEF LentBut
  <2>1. CASE q = m
    BY <1>12, <1>13, <2>1, StateFacts, Numbers
  <2>2. CASE q # m
    BY <1>12, <1>13, <2>2 DEF Lends, LentBut
  <2> QED BY <2>1, <2>2
<1>15. Lends(n)
  BY <1>12, <1>13, <1>14 DEF Lends, Urgent
<1>18. ASSUME Gives(s0)
       PROVE  Gives(n)
  <2>1. /\ InOrder(n.k, C) /\ Placed(n.k) /\ Placed(s0.k) /\ Level(s0)
    BY <1>13, <1>15, <1>17, <1>18 DEF Lends, Gives
  <2>2. \A x \in Thread, q \in Mutex : Waits(n.k, x, q) <=> Waits(s0.k, x, q)
    BY <1>13, <1>17 DEF Waits
  <2>3. \A x \in Thread, q \in Mutex : Waits(s0.k, x, q) => x # t
    BY <1>1, OrderlyFacts, MutexAssumption DEF Waits, Suspended
  <2>4. Level(n)
    <3> SUFFICES ASSUME NEW q \in Mutex
                 PROVE  n.urgency[q] = FirstUrgency(n.k, q)
      BY DEF Level
    <3>1. CASE q = m
      <4>1. SortedBy(n.k.prio, n.k.wait[m])
        BY <2>1 DEF Placed
      <4>2. FirstUrgency(n.k, m) = Lowest
        BY <2>1, <2>2, <4>1, FirstLemma
      <4> QED BY <1>12, <1>13, <3>1, <4>2
    <3>2. CASE q # m
      <4>1. SameWaiters(n.k, s0.k, q)
        BY <1>13, <1>17, <2>2, <2>3 DEF SameWaiters
      <4>2. n.urgency[q] = s0.urgency[q]
        BY <1>10, <1>13, <1>17, <3>2
      <4> QED BY <1>1, <2>1, <4>1, <4>2, LevelSame
    <3> QED BY <3>1, <3>2
  <2>5. ASSUME NEW x \in Thread
        PROVE  Earned(n, x, n.k.prio[x])
    <3>1. Earned(s0, x, s0.k.prio[x])
      BY <1>18, MutexAssumption DEF Gives, EarnedBut
    <3>2. \A q \in s0.taken[x] : q \in n.taken[x] /\ n.urgency[q] = s0.urgency[q]
      <4> SUFFICES ASSUME NEW q \in s0.taken[x]
                   PROVE  q \in n.taken[x] /\ n.urgency[q] = s0.urgency[q]
        OBVIOUS
      <4>1. q \in Mutex /\ q # m
        BY <1>1, StateFacts
      <4> QED BY <1>10, <1>13, <1>17, <4>1
    <3>3. CASE n.k.prio[x] = s0.k.prio[x]
      BY <1>13, <1>17, <3>1, <3>2, <3>3, EarnedSame
    <3>4. CASE n.k.prio[x] # s0.k.prio[x]
      <4>1. x = t /\ n.k.prio[x] = p /\ p \in Prio
        BY <1>13, <1>17, <3>4
      <4>2. m \in n.taken[t] /\ n.ceiling[m] <= p
        BY <1>13, <1>17, <4>1, Numbers
      <4> QED BY <4>1, <4>2 DEF Earned
    <3> QED BY <3>3, <3>4
  <2> QED BY <2>4, <2>5 DEF Gives, EarnedBut
<1> QED BY <1>3, <1>15, <1>18

\* t waits for m and lends its priority to the owner
LEMMA JoinLends ==
  ASSUME NEW s0, NEW C, NEW t, NEW m \in Mutex, NEW timed, Sound(s0, C), Lends(s0),
         t = s0.k.cur, ~Suspended(s0.k, t), t # Idle, s0.owner[m] # None,
         m \in s0.taken[s0.owner[m]]
  PROVE  /\ Lends(Join(s0, t, m, timed))
         /\ ~timed /\ Gives(s0) => Gives(Join(s0, t, m, timed))
<1> DEFINE p == s0.k.prio[t]
           v == Min({s0.urgency[m], p})
           k1 == SuspendFor([s0.k EXCEPT !.error[t] = "EOK"], m, FALSE)
           j == [s0 EXCEPT !.k = k1, !.pending[t] = m, !.urgency[m] = v]
           o == s0.owner[m]
           u == IF p < s0.urgency[m] /\ p < s0.k.prio[o] THEN UpdatePriority(j, o, p) ELSE j
           n == IF timed THEN [u EXCEPT !.k = StartTimer(u.k, t)] ELSE u
<1>1. /\ s0 \in MutexState /\ InOrder(s0.k, C) /\ t \in Thread /\ m \in WaitObj
      /\ p \in Prio /\ o \in Thread /\ "EOK" \in Error /\ s0.urgency[m] \in Prio \cup {Lowest}
      /\ Coherent(s0) /\ SoundOwners(s0) /\ p \in Nat /\ s0.urgency[m] \in Nat
      /\ s0.k.prio[o] \in Nat /\ m \in s0.taken[o]
  <2>1. s0 \in MutexState
    BY DEF Sound, Ordered
  <2>2. t \in Thread /\ m \in WaitObj /\ p \in Prio /\ o \in Thread
        /\ s0.urgency[m] \in Prio \cup {Lowest} /\ s0.k.prio[o] \in Prio
    BY <2>1, StateFacts
  <2> QED BY <2>1, <2>2, Numbers DEF Sound, Ordered, Error
<1>2. Join(s0, t, m, timed) = n
  BY DEF Join, SuspendFor
<1>3. v \in Prio \cup {Lowest} /\ v <= p /\ v <= s0.urgency[m] /\ v \in {s0.urgency[m], p}
  <2> DEFINE S == {s0.urgency[m], p}
  <2>1. S \in SUBSET Nat /\ S # {}
    BY <1>1
  <2> HIDE DEF S
  <2>2. PICK y \in S : \A x \in S : y <= x
    BY <2>1, LeastNatural
  <2>3. v = Min(S)
    BY DEF S
  <2> HIDE DEF v
  <2>4. v \in S /\ \A x \in S : v <= x
    BY <2>2, <2>3 DEF Min
  <2> QED BY <1>1, <2>4 DEF S
<1> HIDE DEF v, o, p
<1>4. /\ InOrder(k1, C) /\ k1.cur = t /\ Sleeps(k1, s0.k, t, m, "EOK") /\ Thins(k1, s0.k)
  <2> DEFINE k0 == s0.k
  <2>1. /\ InOrder(k0, C) /\ t = k0.cur /\ ~Suspended(k0, t) /\ t # Idle
        /\ m \in WaitObj /\ "EOK" \in Error
    BY <1>1
  <2> HIDE DEF k0
  <2> DEFINE timeout == FALSE
  <2>2. k1 = SleepFor(k0, t, m, "EOK", timeout)
    BY DEF k0, SleepFor
  <2> HIDE DEF k1
  <2>3. Thins(k1, k0)
    BY <2>1, <2>2, SleepThins
  <2> HIDE DEF timeout
  <2>4. InOrder(k1, C) /\ k1.cur = t /\ Sleeps(k1, k0, t, m, "EOK")
    BY <2>1, <2>2, BlockOrderly
  <2> QED BY <2>3, <2>4 DEF k0
<1> HIDE DEF k1
<1>5. k1 \in Kernel /\ k1.prio = s0.k.prio
  BY <1>4, OrderlyFacts DEF Thins
<1>6. /\ j \in MutexState /\ j.k = k1 /\ j.owner = s0.owner /\ j.taken = s0.taken
      /\ j.ceiling = s0.ceiling
      /\ \A x \in Thread : j.pending[x] = IF x = t THEN m ELSE s0.pending[x]
      /\ \A q \in Mutex : j.urgency[q] = IF q = m THEN v ELSE s0.urgency[q]
  BY <1>1, <1>3, <1>5 DEF MutexState
<1> HIDE DEF j
<1>61. \A q \in WaitObj, x \in Thread :
         Waits(j.k, x, q) <=> Waits(s0.k, x, q) \/ (q = m /\ x = t)
  <2>1. \A q \in WaitObj : ToSet(k1.wait[q]) = IF q = m THEN ToSet(s0.k.wait[q]) \cup {t}
                                                       ELSE ToSet(s0.k.wait[q])
    BY <1>4 DEF Sleeps
  <2>2. j.k = k1
    BY <1>6
  <2> QED BY <2>1, <2>2 DEF Waits
<1>62. \A q \in WaitObj : ~Waits(s0.k, t, q)
  BY <1>1, OrderlyFacts DEF Waits, Suspended
<1>7. \A x \in Thread : Movable(s0, x) => Movable(j, x)
  <2> TAKE x \in Thread
  <2>1. CASE x = t
    BY <1>1, <1>6, <1>61, <2>1 DEF Movable
  <2>2. CASE x # t
    <3>1. j.pending[x] = s0.pending[x] /\ (Suspended(j.k, x) <=> Suspended(s0.k, x))
      BY <1>4, <1>6, <2>2 DEF Sleeps
    <3>2. s0.pending[x] # None => s0.pending[x] \in WaitObj
      BY <1>1, StateFacts
    <3> QED BY <1>61, <3>1, <3>2 DEF Movable
  <2> QED BY <2>1, <2>2
<1>8. Ordered(j, C) /\ SoundOwners(j) /\ Movable(j, o)
  <2>1. \A x \in Mutex : s0.owner[x] # None => s0.owner[x] \in Thread /\ Movable(s0, s0.owner[x])
    BY <1>1, StateFacts DEF SoundOwners
  <2>2. SoundOwners(j)
    BY <1>6, <1>7, <2>1 DEF SoundOwners
  <2> QED BY <1>4, <1>6, <1>7, <2>1, <2>2 DEF Ordered, o
<1>9. Coherent(j)
  <2> SUFFICES ASSUME NEW x \in Thread, NEW q \in Mutex
               PROVE  /\ Waits(j.k, x, q) =>
                           /\ j.pending[x] = q
                           /\ j.owner[q] # None => q \in j.taken[j.owner[q]]
                      /\ q \in j.taken[x] => j.owner[q] = x
    BY DEF Coherent
  <2>1. q \in WaitObj
    BY MutexAssumption
  <2>2. CASE x = t
    BY <1>1, <1>6, <1>61, <1>62, <2>1, <2>2 DEF Coherent, o
  <2>3. CASE x # t
    BY <1>1, <1>6, <1>61, <2>1, <2>3 DEF Coherent
  <2> QED BY <2>2, <2>3
<1>10. Placed(j.k) /\ Urgent(j)
  <2>1. Placed(j.k)
    BY <1>4, <1>6, MutexAssumption DEF Lends, Placed, Thins
  <2>2. Urgent(j)
    <3> SUFFICES ASSUME NEW q \in Mutex, NEW x \in Thread, Waits(j.k, x, q)
                 PROVE  j.urgency[q] <= j.k.prio[x]
      BY DEF Urgent
    <3>1. q \in WaitObj /\ j.k.prio[x] = s0.k.prio[x] /\ s0.k.prio[x] \in Prio
      BY <1>1, <1>5, <1>6, StateFacts
    <3>2. CASE Waits(s0.k, x, q)
      <4>1. s0.urgency[q] <= s0.k.prio[x]
        BY <3>2 DEF Lends, Urgent
      <4>2. v \in Int /\ s0.k.prio[x] \in Int
        BY <1>3, <3>1, Numbers
      <4>3. s0.urgency[m] \in Int
        BY <1>1
      <4> QED BY <1>3, <1>6, <3>1, <4>1, <4>2, <4>3
    <3>3. CASE ~Waits(s0.k, x, q)
      BY <1>3, <1>6, <1>61, <3>1, <3>3 DEF p
    <3> QED BY <3>2, <3>3
  <2> QED BY <2>1, <2>2
<1>11. \A x \in Thread, q \in Mutex : q \in j.taken[x] => s0.k.prio[x] <= s0.urgency[q]
  BY <1>6, MutexAssumption DEF Lends, LentBut
<1>15. \A x \in Thread : j.k.prio[x] = s0.k.prio[x] /\ s0.k.prio[x] \in Int
  BY <1>1, <1>5, <1>6, StateFacts, Numbers
<1>16. ASSUME Gives(s0)
       PROVE  j.urgency[m] = FirstUrgency(j.k, m)
  <2> DEFINE f == FirstUrgency(s0.k, m)
             g == FirstUrgency(j.k, m)
  <2>1. /\ InOrder(j.k, C) /\ SortedBy(j.k.prio, j.k.wait[m])
        /\ SortedBy(s0.k.prio, s0.k.wait[m])
    BY <1>4, <1>6, <1>10 DEF Placed, Lends
  <2>2. /\ f \in Prio \cup {Lowest}
        /\ \A x \in Thread : Waits(s0.k, x, m) => f <= s0.k.prio[x]
        /\ \/ f = Lowest /\ \A x \in Thread : ~Waits(s0.k, x, m)
           \/ \E x \in Thread : Waits(s0.k, x, m) /\ s0.k.prio[x] = f
    BY <1>1, <2>1, FirstLemma
  <2>3. /\ g \in Prio \cup {Lowest}
        /\ \A x \in Thread : Waits(j.k, x, m) => g <= j.k.prio[x]
        /\ \/ g = Lowest /\ \A x \in Thread : ~Waits(j.k, x, m)
           \/ \E x \in Thread : Waits(j.k, x, m) /\ j.k.prio[x] = g
    BY <1>1, <2>1, FirstLemma
  <2>4. s0.urgency[m] = f
    BY <1>16 DEF Gives, Level
  <2> HIDE DEF f, g
  <2>5. f \in Int /\ g \in Int /\ v \in Int /\ p \in Int /\ p <= Lowest /\ Lowest \in Int
    BY <1>1, <1>3, <2>2, <2>3, Numbers
  <2>6. Waits(j.k, t, m) /\ j.k.prio[t] = p
    BY <1>1, <1>15, <1>61 DEF p
  <2>7. g <= p
    BY <1>1, <2>3, <2>6
  <2>8. v <= g
    <3>1. PICK x \in Thread : Waits(j.k, x, m) /\ j.k.prio[x] = g
      BY <1>1, <2>3, <2>6
    <3>2. CASE x = t
      BY <1>3, <2>6, <3>1, <3>2
    <3>3. CASE x # t
      <4>1. Waits(s0.k, x, m) /\ s0.k.prio[x] = g
        BY <1>1, <1>15, <1>61, <3>1, <3>3
      <4>2. f <= g
        BY <2>2, <4>1
      <4> QED BY <1>3, <2>4, <2>5, <4>2
    <3> QED BY <3>2, <3>3
  <2>9. g <= v
    <3>1. CASE v = p
      BY <2>7, <3>1
    <3>2. CASE v = f /\ f = Lowest
      BY <2>5, <2>7, <3>2
    <3>3. CASE v = f /\ f # Lowest
      <4>1. PICK x \in Thread : Waits(s0.k, x, m) /\ s0.k.prio[x] = f
        BY <2>2, <3>3
      <4>2. Waits(j.k, x, m) /\ j.k.prio[x] = f
        BY <1>1, <1>15, <1>61, <4>1
      <4> QED BY <2>3, <3>3, <4>2
    <3> QED BY <1>3, <2>4, <3>1, <3>2, <3>3
  <2>10. v = g /\ j.urgency[m] = v
    BY <1>6, <2>5, <2>8, <2>9
  <2> QED BY <2>10 DEF g
<1>17. ASSUME Gives(s0)
       PROVE  Level(j) /\ EarnedBut(j, o)
  <2>1. ASSUME NEW q \in Mutex, q # m
        PROVE  j.urgency[q] = FirstUrgency(j.k, q)
    <3>1. SameWaiters(j.k, s0.k, q)
      BY <1>15, <1>61, <2>1, MutexAssumption DEF SameWaiters
    <3>2. /\ InOrder(j.k, C) /\ Placed(j.k) /\ Placed(s0.k) /\ Level(s0)
          /\ j.urgency[q] = s0.urgency[q]
      BY <1>4, <1>6, <1>10, <1>17, <2>1 DEF Lends, Gives
    <3> QED BY <1>1, <3>1, <3>2, LevelSame
  <2>2. ASSUME NEW x \in Thread, x # o
        PROVE  Earned(j, x, j.k.prio[x])
    <3>1. Earned(s0, x, s0.k.prio[x]) /\ s0.taken[x] \subseteq Mutex
      BY <1>1, <1>17, StateFacts, MutexAssumption DEF Gives, EarnedBut
    <3>2. m \notin s0.taken[x]
      BY <1>1, <2>2 DEF Coherent, o
    <3>3. \A q \in s0.taken[x] : q \in j.taken[x] /\ j.urgency[q] = s0.urgency[q]
      BY <1>6, <3>1, <3>2
    <3> QED BY <1>6, <1>15, <3>1, <3>3, EarnedSame
  <2>3. Level(j)
    BY <1>16, <1>17, <2>1 DEF Level
  <2> QED BY <2>2, <2>3 DEF EarnedBut
<1>18. p < s0.urgency[m] /\ p < s0.k.prio[o] => Earned(j, o, p)
  <2> SUFFICES ASSUME p < s0.urgency[m]
               PROVE  Earned(j, o, p)
    OBVIOUS
  <2>1. m \in j.taken[o] /\ j.urgency[m] <= p
    BY <1>1, <1>3, <1>6
  <2> QED BY <2>1 DEF Earned
<1>19. Gives(s0) => Earned(j, o, j.k.prio[o])
  <2> SUFFICES ASSUME Gives(s0)
               PROVE  Earned(j, o, j.k.prio[o])
    OBVIOUS
  <2>1. Earned(s0, o, s0.k.prio[o]) /\ s0.taken[o] \subseteq Mutex
    BY <1>1, StateFacts, MutexAssumption DEF Gives, EarnedBut
  <2>2. \A q \in s0.taken[o] : /\ q \in j.taken[o] /\ j.ceiling[q] = s0.ceiling[q]
                               /\ s0.urgency[q] <= s0.k.prio[o]
                                    => j.urgency[q] <= s0.k.prio[o]
    <3> SUFFICES ASSUME NEW q \in s0.taken[o], s0.urgency[q] <= s0.k.prio[o]
                 PROVE  j.urgency[q] <= s0.k.prio[o]
      BY <1>6
    <3>1. q \in Mutex /\ s0.urgency[q] \in Int /\ s0.k.prio[o] \in Int /\ v \in Int
      BY <1>1, <1>3, <2>1, StateFacts, Numbers
    <3>2. CASE q = m
      BY <1>3, <1>6, <3>1, <3>2
    <3>3. CASE q # m
      BY <1>6, <3>1, <3>3
    <3> QED BY <3>2, <3>3
  <2> QED BY <1>1, <1>15, <2>1, <2>2 DEF Earned
<1>12. u \in MutexState /\ Lends(u) /\ (Gives(s0) => Gives(u))
  <2>1. CASE p < s0.urgency[m] /\ p < s0.k.prio[o]
    <3>1. v = p
      BY <1>1, <1>3, <2>1
    <3>2. LentBut(j, o)
      <4> SUFFICES ASSUME NEW x \in Thread \ {o}, NEW q \in Mutex, q \in j.taken[x]
                   PROVE  j.k.prio[x] <= j.urgency[q]
        BY DEF LentBut
      <4>1. q # m
        BY <1>1, <1>6 DEF Coherent, o
      <4> QED BY <1>5, <1>6, <1>11, <4>1
    <3>3. \A q \in j.taken[o] : p <= j.urgency[q]
      <4> SUFFICES ASSUME NEW q \in j.taken[o]
                   PROVE  p <= j.urgency[q]
        OBVIOUS
      <4>1. q \in Mutex
        BY <1>1, <1>6, StateFacts
      <4>2. s0.k.prio[o] <= s0.urgency[q] /\ s0.urgency[q] \in Int
        <5>1. s0.urgency[q] \in Prio \cup {Lowest}
          BY <1>1, <4>1, StateFacts
        <5>2. s0.k.prio[o] <= s0.urgency[q]
          BY <1>1, <1>11, <4>1
        <5> QED BY <5>1, <5>2, Numbers
      <4>3. CASE q = m
        BY <1>1, <1>6, <3>1, <4>3
      <4>4. CASE q # m
        BY <1>1, <1>6, <2>1, <4>1, <4>2, <4>4
      <4> QED BY <4>3, <4>4
    <3>4. Ready(j, C, o, p)
      BY <1>1, <1>8, <1>9, <1>10, <3>2, <3>3 DEF Ready
    <3>5. u = UpdatePriority(j, o, p)
      BY <2>1
    <3> HIDE DEF u
    <3>6. Gives(s0) => Owes(j, o, p)
      BY <1>17, <1>18, <2>1 DEF Owes
    <3>7. Calm(u, j, C) /\ Lends(u) /\ (Owes(j, o, p) => Gives(u))
      BY <3>4, <3>5, UpdatePriorityLends
    <3> QED BY <3>6, <3>7 DEF Calm
  <2>2. CASE ~(p < s0.urgency[m] /\ p < s0.k.prio[o])
    <3>1. u = j
      BY <2>2
    <3>2. LentBut(j, None)
      <4> SUFFICES ASSUME NEW x \in Thread \ {None}, NEW q \in Mutex, q \in j.taken[x]
                   PROVE  j.k.prio[x] <= j.urgency[q]
        BY DEF LentBut
      <4>1. s0.k.prio[x] <= s0.urgency[q] /\ j.k.prio[x] = s0.k.prio[x]
        BY <1>5, <1>6, <1>11
      <4>2. CASE q = m
        <5>1. x = o
          BY <1>1, <1>6, <4>2 DEF Coherent, o
        <5>2. v = s0.urgency[m] \/ (v = p /\ ~(p < s0.urgency[m])) \/ (v = p /\ s0.k.prio[o] <= p)
          BY <1>1, <1>3, <2>2
        <5> QED BY <1>1, <1>6, <4>1, <4>2, <5>1, <5>2
      <4>3. CASE q # m
        BY <1>6, <4>1, <4>3
      <4> QED BY <4>2, <4>3
    <3>3. Gives(s0) => Gives(j)
      BY <1>17, <1>19 DEF Gives, EarnedBut
    <3>4. j \in MutexState /\ Lends(j)
      BY <1>6, <1>10, <3>2 DEF Lends
    <3> HIDE DEF u
    <3> QED BY <3>1, <3>3, <3>4
  <2> QED BY <2>1, <2>2
<1> HIDE DEF u
<1>13. CASE timed
  <2> DEFINE k2 == StartTimer(u.k, t)
             w == [u EXCEPT !.k = k2]
  <2>1. k2.wait = u.k.wait /\ k2.prio = u.k.prio
    BY <1>12 DEF StartTimer, MutexState, Kernel
  <2>2. n = w
    BY <1>13
  <2> HIDE DEF k2, n
  <2>3. w.k = k2 /\ w.urgency = u.urgency /\ w.taken = u.taken
    BY <1>12 DEF MutexState
  <2> HIDE DEF w
  <2>4. Lends(n)
    BY <1>12, <2>1, <2>2, <2>3 DEF Lends, Placed, Urgent, LentBut, Waits
  <2> QED BY <1>2, <1>13, <2>4
<1>14. CASE ~timed
  BY <1>2, <1>12, <1>14
<1> QED BY <1>13, <1>14

\* A thread waits for one mutex at most.
OneWait(k) == \A t \in Thread, m \in Mutex, q \in Mutex :
                Waits(k, t, m) /\ Waits(k, t, q) => m = q

\* The mutex m, on the list of nobody, goes to the most urgent of its waiters.
LEMMA HandToLends ==
  ASSUME NEW s0, NEW C, NEW m \in Mutex, Ordered(s0, C), Lends(s0), HasWaiter(s0.k, m),
         NEW u, u = Head(s0.k.wait[m]), \A x \in Thread : m \notin s0.taken[x]
  PROVE  /\ Lends(HandTo(s0, u, m))
         /\ Gives(s0) /\ OneWait(s0.k) => Gives(HandTo(s0, u, m))
<1> DEFINE l == ListRemove(s0.k, u)
           k1 == Resume(l, u)
           a == [s0 EXCEPT !.owner[m] = u, !.hold[m] = 1]
           h == [a EXCEPT !.taken[u] = @ \cup {m}, !.pending[u] = None, !.k = k1]
           n == Refresh(h, m)
<1>1. /\ s0 \in MutexState /\ InOrder(s0.k, C) /\ m \in WaitObj /\ u \in Thread
      /\ Waits(s0.k, u, m) /\ Suspended(s0.k, u) /\ 1 \in 0..HoldMax
  <2>1. s0 \in MutexState /\ InOrder(s0.k, C) /\ m \in WaitObj /\ 1 \in 0..HoldMax
    BY StateFacts, MutexAssumption DEF Ordered
  <2> QED BY <2>1, OrderlyFacts DEF Waits, Suspended
<1>2. HandTo(s0, u, m) = n
  BY <1>1 DEF HandTo, MutexState
<1>3. \A x \in Thread : Waits(s0.k, x, m) => s0.k.prio[u] <= s0.k.prio[x]
  <2>1. SortedBy(s0.k.prio, s0.k.wait[m]) /\ s0.k.prio \in [Thread -> Prio]
    BY <1>1, StateFacts DEF Lends, Placed
  <2>2. s0.k.wait[m] \in Seq(Thread)
    BY <1>1, OrderlyFacts
  <2> QED BY <2>1, <2>2, SortedHead DEF Waits
<1>4. InOrder(k1, C) /\ Awakened(k1, s0.k, {u}, s0.k.error[u])
  BY <1>1, PickOrderly
<1>5. Thins(k1, s0.k)
  <2>1. Thins(l, s0.k) /\ InOrder(l, C)
    BY <1>1, RemoveThins, UnlinkOrderly
  <2> HIDE DEF l
  <2>2. Thins(k1, l)
    BY <1>1, <2>1, ResumeThins
  <2> HIDE DEF k1
  <2> QED BY <2>1, <2>2, ThinsThen
<1> HIDE DEF k1
<1>6. k1 \in Kernel /\ k1.prio = s0.k.prio
  BY <1>4, <1>5, OrderlyFacts DEF Thins
<1>7. /\ a \in MutexState /\ a.taken = s0.taken /\ a.urgency = s0.urgency
      /\ a.ceiling = s0.ceiling
  BY <1>1 DEF MutexState
<1> HIDE DEF a
<1>8. /\ h \in MutexState /\ h.k = k1 /\ h.urgency = s0.urgency /\ h.ceiling = s0.ceiling
      /\ \A x \in Thread, y \in Mutex :
           y \in h.taken[x] <=> y \in s0.taken[x] \/ (x = u /\ y = m)
  <2> DEFINE T == [a.taken EXCEPT ![u] = @ \cup {m}]
             P == [a.pending EXCEPT ![u] = None]
  <2>1. h = [a EXCEPT !.taken = T, !.pending = P, !.k = k1]
    BY <1>7 DEF MutexState
  <2>2. /\ T \in [Thread -> SUBSET Mutex] /\ P \in [Thread -> Mutex \cup {None}]
        /\ \A x \in Thread, y \in Mutex :
             y \in T[x] <=> y \in s0.taken[x] \/ (x = u /\ y = m)
    BY <1>1, <1>7, StateFacts
  <2> HIDE DEF T, P, h
  <2> QED BY <1>6, <1>7, <2>1, <2>2 DEF MutexState
<1> HIDE DEF h
<1>9. Ordered(h, C) /\ Placed(h.k)
  BY <1>4, <1>5, <1>8, MutexAssumption DEF Ordered, Lends, Placed, Thins
<1>10. /\ n.k = k1 /\ n.taken = h.taken
       /\ n.urgency = [h.urgency EXCEPT ![m] = FirstUrgency(k1, m)]
       /\ \A x \in Thread : Waits(n.k, x, m) => n.urgency[m] <= n.k.prio[x]
       /\ \A q \in Mutex : q # m => n.urgency[q] = s0.urgency[q]
  <2>1. n = Refresh(h, m)
    OBVIOUS
  <2> HIDE DEF n
  <2>2. /\ n.k = h.k /\ n.taken = h.taken
        /\ n.urgency = [h.urgency EXCEPT ![m] = FirstUrgency(h.k, m)]
        /\ \A x \in Thread : Waits(n.k, x, m) => n.urgency[m] <= n.k.prio[x]
        /\ \A q \in Mutex : q # m => n.urgency[q] = h.urgency[q]
    BY <1>9, <2>1, RefreshLends
  <2> QED BY <1>8, <2>2
<1>17. n.ceiling = s0.ceiling
  BY <1>8 DEF Refresh, MutexState
<1>11. n.urgency[m] = FirstUrgency(k1, m)
  BY <1>8, <1>10, StateFacts
<1> HIDE DEF n
<1>12. \A x \in Thread, q \in Mutex : Waits(k1, x, q) => Waits(s0.k, x, q)
  BY <1>4, MutexAssumption DEF Awakened, Waits
<1>13. Urgent(n)
  BY <1>6, <1>10, <1>12 DEF Lends, Urgent
<1>14. s0.k.prio[u] <= FirstUrgency(k1, m)
  <2>1. SortedBy(k1.prio, k1.wait[m])
    BY <1>8, <1>9 DEF Placed
  <2>2. \/ FirstUrgency(k1, m) = Lowest
        \/ \E x \in Thread : Waits(k1, x, m) /\ k1.prio[x] = FirstUrgency(k1, m)
    BY <1>4, <2>1, FirstLemma
  <2>3. s0.k.prio[u] <= Lowest
    BY <1>1, StateFacts, Numbers
  <2> QED BY <1>3, <1>6, <1>12, <2>2, <2>3
<1>15. LentBut(n, None)
  <2> SUFFICES ASSUME NEW x \in Thread \ {None}, NEW q \in Mutex, q \in n.taken[x]
               PROVE  n.k.prio[x] <= n.urgency[q]
    BY DEF LentBut
  <2>1. CASE q = m
    <3>1. x = u
      BY <1>8, <1>10, <2>1
    <3> QED BY <1>6, <1>10, <1>11, <1>14, <2>1, <3>1
  <2>2. CASE q # m
    BY <1>6, <1>8, <1>10, <2>2 DEF Lends, LentBut
  <2> QED BY <2>1, <2>2
<1>16. Lends(n)
  BY <1>8, <1>9, <1>10, <1>13, <1>15 DEF Lends
<1>18. ASSUME Gives(s0), OneWait(s0.k)
       PROVE  Gives(n)
  <2>1. ASSUME NEW q \in Mutex
        PROVE  n.urgency[q] = FirstUrgency(n.k, q)
    <3>1. CASE q = m
      BY <1>10, <1>11, <3>1
    <3>2. CASE q # m
      <4>1. ~Waits(s0.k, u, q) /\ q \in WaitObj
        BY <1>1, <1>18, <3>2, MutexAssumption DEF OneWait
      <4>2. SameWaiters(n.k, s0.k, q)
        BY <1>4, <1>6, <1>10, <4>1 DEF SameWaiters, Awakened, Waits
      <4>3. /\ InOrder(n.k, C) /\ Placed(n.k) /\ Placed(s0.k) /\ Level(s0)
            /\ n.urgency[q] = s0.urgency[q]
        BY <1>4, <1>10, <1>16, <1>18, <3>2 DEF Lends, Gives
      <4> QED BY <1>1, <4>2, <4>3, LevelSame
    <3> QED BY <3>1, <3>2
  <2>2. ASSUME NEW x \in Thread
        PROVE  Earned(n, x, n.k.prio[x])
    <3>1. Earned(s0, x, s0.k.prio[x]) /\ s0.taken[x] \subseteq Mutex
      BY <1>1, <1>18, StateFacts, MutexAssumption DEF Gives, EarnedBut
    <3>2. \A q \in s0.taken[x] : q \in n.taken[x] /\ n.urgency[q] = s0.urgency[q]
      BY <1>8, <1>10, <3>1
    <3>3. n.k.prio[x] = s0.k.prio[x]
      BY <1>6, <1>10
    <3> QED BY <1>17, <3>1, <3>2, <3>3, EarnedSame
  <2> QED BY <2>1, <2>2 DEF Gives, Level, EarnedBut
<1> QED BY <1>2, <1>16, <1>18

\* rt_mutex_release by the owner t
LEMMA ReleaseLends ==
  ASSUME NEW s0, NEW C, NEW t \in Thread, NEW m \in Mutex, Ordered(s0, C), Lends(s0),
         ~Suspended(s0.k, t), s0.hold[m] >= 1, \A x \in Thread : m \in s0.taken[x] => x = t
  PROVE  /\ Lends(Release(s0, t, m))
         /\ Gives(s0) /\ OneWait(s0.k) => Gives(Release(s0, t, m))
<1> DEFINE d == [s0 EXCEPT !.hold[m] = @ - 1]
           e == [d EXCEPT !.taken[t] = @ \ {m}]
           q == Restore(e, t, m)
           a == [q EXCEPT !.owner[m] = None]
<1>1. /\ s0 \in MutexState /\ InOrder(s0.k, C) /\ s0.hold[m] \in 0..HoldMax
      /\ HoldMax \in Nat
  BY StateFacts, MutexAssumption DEF Ordered
<1>11. s0.hold[m] - 1 \in 0..HoldMax
  BY <1>1
<1>2. /\ d \in MutexState /\ d.k = s0.k /\ d.taken = s0.taken /\ d.urgency = s0.urgency
      /\ d.ceiling = s0.ceiling
  BY <1>1, <1>11 DEF MutexState
<1>3. Release(s0, t, m) =
        IF d.hold[m] > 0 THEN d
        ELSE IF HasWaiter(q.k, m) THEN HandTo(q, Head(q.k.wait[m]), m)
        ELSE Unowned(q, m)
  BY DEF Release, Unowned
<1> HIDE DEF d
<1>4. Lends(d) /\ (Gives(s0) => Gives(d))
  <2>1. Lends(d)
    BY <1>2 DEF Lends, Urgent, LentBut
  <2>2. Gives(s0) => Gives(d)
    BY <1>2 DEF Gives, Level, EarnedBut, Earned
  <2> QED BY <2>1, <2>2
<1>5. /\ e \in MutexState /\ e.k = s0.k /\ e.urgency = s0.urgency
      /\ e.ceiling = s0.ceiling
      /\ \A x \in Thread, y \in Mutex :
           y \in e.taken[x] <=> y \in s0.taken[x] /\ ~(x = t /\ y = m)
  BY <1>2 DEF MutexState
<1> HIDE DEF e
<1>6. Ordered(e, C) /\ ~Suspended(e.k, t) /\ Lends(e)
  BY <1>1, <1>5 DEF Ordered, Lends, Urgent, LentBut
<1>13. ASSUME Gives(s0)
       PROVE  /\ Level(e) /\ EarnedBut(e, t)
              /\ ~Restores(e, t, m) => Earned(e, t, e.k.prio[t])
  <2>1. Level(e)
    BY <1>5, <1>13 DEF Gives, Level
  <2>2. \A x \in Thread : Earned(s0, x, s0.k.prio[x]) /\ s0.taken[x] \subseteq Mutex
    BY <1>1, <1>13, StateFacts, MutexAssumption DEF Gives, EarnedBut
  <2>3. ASSUME NEW x \in Thread, x # t
        PROVE  Earned(e, x, e.k.prio[x])
    BY <1>5, <2>2, <2>3 DEF Earned
  <2>4. ASSUME ~Restores(e, t, m)
        PROVE  Earned(e, t, e.k.prio[t])
    <3>1. e.ceiling[m] = Lowest /\ s0.k.prio[t] # s0.urgency[m]
      BY <1>5, <2>4 DEF Restores
    <3>2. /\ s0.k.prio[t] \in Int /\ s0.urgency[m] \in Int /\ s0.k.prio[t] <= Lowest
          /\ InitPrio[t] \in Int /\ InitPrio[t] <= Lowest /\ Lowest \in Int
      BY <1>1, StateFacts, ThreadAssumption, Numbers
    <3>3. CASE m \in s0.taken[t] /\ s0.urgency[m] <= s0.k.prio[t]
      <4>1. s0.k.prio[t] <= s0.urgency[m]
        BY <3>3, MutexAssumption DEF Lends, LentBut
      <4> QED BY <3>1, <3>2, <3>3, <4>1
    <3>4. CASE m \in s0.taken[t] /\ s0.ceiling[m] <= s0.k.prio[t]
      <4>1. InitPrio[t] <= s0.k.prio[t]
        BY <1>5, <3>1, <3>2, <3>4
      <4> QED BY <1>5, <4>1 DEF Earned
    <3>5. CASE InitPrio[t] <= s0.k.prio[t]
      BY <1>5, <3>5 DEF Earned
    <3>6. CASE \E y \in s0.taken[t] : /\ y # m
                                     /\ \/ s0.urgency[y] <= s0.k.prio[t]
                                        \/ s0.ceiling[y] <= s0.k.prio[t]
      BY <1>5, <2>2, <3>6 DEF Earned
    <3> QED BY <2>2, <3>3, <3>4, <3>5, <3>6 DEF Earned
  <2> QED BY <2>1, <2>3, <2>4 DEF EarnedBut
<1>7. Lends(q) /\ (Gives(s0) => Gives(q))
  BY <1>6, <1>13, RestoreLends DEF Lends
<1>8. Calm(q, e, C)
  BY <1>6, RestoreCalm
<1> HIDE DEF q
<1>9. /\ q \in MutexState /\ Ordered(q, C)
      /\ \A x \in Thread : m \notin q.taken[x]
  BY <1>5, <1>8 DEF Calm, SameOwners, Ordered
<1>14. OneWait(s0.k) => OneWait(q.k)
  BY <1>5, <1>8, MutexAssumption DEF Calm, Keeps, Awakened, OneWait, Waits
<1>10. HasWaiter(q.k, m) =>
         /\ Lends(HandTo(q, Head(q.k.wait[m]), m))
         /\ Gives(q) /\ OneWait(q.k) => Gives(HandTo(q, Head(q.k.wait[m]), m))
  BY <1>7, <1>9, HandToLends
<1>12. CASE ~HasWaiter(q.k, m)
  <2> DEFINE n == Unowned(q, m)
  <2>1. /\ n.k = q.k /\ n.taken = q.taken /\ n.ceiling = q.ceiling
        /\ \A x \in Mutex : n.urgency[x] = IF x = m THEN Lowest ELSE q.urgency[x]
    BY <1>9 DEF Unowned, MutexState
  <2>2. \A x \in Thread : ~Waits(q.k, x, m)
    <3>1. InOrder(q.k, C) /\ m \in WaitObj
      BY <1>9, MutexAssumption DEF Ordered
    <3> QED BY <1>12, <3>1, OrderlyFacts DEF Waits
  <2> HIDE DEF n
  <2>3. Urgent(n)
    BY <1>7, <2>1, <2>2 DEF Lends, Urgent
  <2>4. LentBut(n, None)
    BY <1>7, <1>9, <2>1 DEF Lends, LentBut
  <2>5. Lends(n)
    BY <1>7, <2>1, <2>3, <2>4 DEF Lends
  <2>6. ASSUME Gives(q)
        PROVE  Gives(n)
    <3>1. FirstUrgency(q.k, m) = Lowest
      BY <1>12 DEF FirstUrgency
    <3>2. Level(n)
      BY <2>1, <2>6, <3>1 DEF Gives, Level
    <3>3. ASSUME NEW x \in Thread
          PROVE  Earned(n, x, n.k.prio[x])
      <4>1. Earned(q, x, q.k.prio[x]) /\ q.taken[x] \subseteq Mutex
        BY <1>9, <2>6, StateFacts, MutexAssumption DEF Gives, EarnedBut
      <4>2. \A y \in q.taken[x] : y \in n.taken[x] /\ n.urgency[y] = q.urgency[y]
        BY <1>9, <2>1, <4>1
      <4> QED BY <2>1, <4>1, <4>2, EarnedSame
    <3> QED BY <3>2, <3>3 DEF Gives, EarnedBut
  <2> QED BY <1>3, <1>4, <1>7, <1>12, <2>5, <2>6 DEF n
<1> QED BY <1>3, <1>4, <1>7, <1>10, <1>12, <1>14

\* rt_mutex_detach
LEMMA DetachLends ==
  ASSUME NEW s0, NEW C, NEW m \in Mutex, Ordered(s0, C), Lends(s0)
  PROVE  Lends(DetachMutex(s0, m))
<1> DEFINE k1 == ResumeAll(s0.k, m)
           T == [t \in Thread |-> s0.taken[t] \ {m}]
           n == [s0 EXCEPT !.k = k1, !.taken = T]
<1>1. s0 \in MutexState /\ InOrder(s0.k, C) /\ m \in WaitObj
  BY StateFacts DEF Ordered
<1>2. DetachMutex(s0, m) = n
  BY DEF DetachMutex
<1>3. Awakened(k1, s0.k, ToSet(s0.k.wait[m]), "ERROR") /\ Thins(k1, s0.k)
  BY <1>1, ResumeAllOrderly, ResumeAllThins
<1> HIDE DEF k1
<1>4. \A x \in Thread, y \in Mutex : y \in T[x] => y \in s0.taken[x]
  OBVIOUS
<1> HIDE DEF T
<1>5. n.k = k1 /\ n.taken = T /\ n.urgency = s0.urgency
  BY <1>1 DEF MutexState
<1> HIDE DEF n
<1>6. \A x \in Thread, y \in Mutex : Waits(k1, x, y) => Waits(s0.k, x, y)
  BY <1>3, MutexAssumption DEF Awakened, Waits
<1>7. Lends(n)
  BY <1>3, <1>4, <1>5, <1>6, LendsShrinks
<1> QED BY <1>2, <1>7

\* rt_mutex_init
LEMMA InitMutexLends ==
  ASSUME NEW s0, NEW C, NEW m \in Mutex, Ordered(s0, C), Lends(s0),
         \A x \in Thread : m \notin s0.taken[x] /\ ~Waits(s0.k, x, m)
  PROVE  Lends(InitMutex(s0, m))
<1> DEFINE a == [s0 EXCEPT !.owner[m] = None, !.hold[m] = 0]
           n == [a EXCEPT !.urgency[m] = Lowest, !.ceiling[m] = Lowest]
<1>1. s0 \in MutexState /\ 0 \in 0..HoldMax
  BY MutexAssumption DEF Ordered
<1>2. a \in MutexState /\ a.k = s0.k /\ a.taken = s0.taken /\ a.urgency = s0.urgency
  BY <1>1 DEF MutexState
<1>3. InitMutex(s0, m) = n
  BY <1>1 DEF InitMutex, MutexState
<1> HIDE DEF a
<1>4. /\ n.k = s0.k /\ n.taken = s0.taken
      /\ \A x \in Mutex : x # m => n.urgency[x] = s0.urgency[x]
  BY <1>2 DEF MutexState
<1> HIDE DEF n
<1>5. Lends(n)
  BY <1>4 DEF Lends, Urgent, LentBut
<1> QED BY <1>3, <1>5

\* The end of rt_thread_detach of u, which waits for nothing any more.
LEMMA CloseDropLends ==
  ASSUME NEW s0, NEW C, NEW u \in Thread, Sound(s0, C), Lends(s0),
         Suspended(s0.k, u), Waitless(s0.k, u),
         NEW m, m = s0.pending[u], NEW n, Shuts(n, s0, u, m)
  PROVE  Lends(n)
<1> DEFINE d == Dropped(s0, u, ListRemove(s0.k, u))
           k1 == ListRemove(s0.k, u)
<1>0. /\ Ordered(s0, C) /\ SoundOwners(s0) /\ Coherent(s0) /\ s0 \in MutexState
      /\ InOrder(s0.k, C)
  BY DEF Sound, Ordered
<1>1. Detached(d, s0, u, C) /\ SoundOwners(d)
  BY <1>0, DroppedLemma
<1>2. d.k = k1 /\ d.urgency = s0.urgency
  BY <1>0 DEF Dropped, MutexState
<1>3. Thins(k1, s0.k)
  BY <1>0, RemoveThins
<1> HIDE DEF k1
<1>4. [s0 EXCEPT !.pending[u] = None].k = s0.k
  BY <1>0 DEF MutexState
<1>5. DropThread([s0 EXCEPT !.pending[u] = None], m, u) = Withdraw(d, m, s0.k.prio[u])
  BY <1>4 DEF DropThread, Dropped
<1>6. [[s0 EXCEPT !.pending[u] = None] EXCEPT !.k = ListRemove(@, u)] = d
  BY <1>4 DEF Dropped
<1> HIDE DEF d
<1>7. /\ Ordered(d, C) /\ d.owner = s0.owner /\ d.taken = s0.taken
      /\ \A x \in Thread : d.pending[x] = IF x = u THEN None ELSE s0.pending[x]
      /\ \A x \in Thread, o \in Mutex : Waits(d.k, x, o) <=> Waits(s0.k, x, o)
      /\ \A o \in Mutex : ~Waits(s0.k, u, o)
  BY <1>1, MutexAssumption DEF Detached, Keeps, Awakened, Waits, Waitless
<1>8. Coherent(d)
  <2> SUFFICES ASSUME NEW x \in Thread, NEW q \in Mutex
               PROVE  /\ Waits(d.k, x, q) =>
                           /\ d.pending[x] = q
                           /\ d.owner[q] # None => q \in d.taken[d.owner[q]]
                      /\ q \in d.taken[x] => d.owner[q] = x
    BY DEF Coherent
  <2> QED BY <1>0, <1>7 DEF Coherent
<1>9. Sound(d, C)
  BY <1>1, <1>7, <1>8 DEF Sound
<1>10. Lends(d)
  BY <1>2, <1>3, <1>7, LendsShrinks
<1>11. PICK r : Lends(r) /\ r \in MutexState /\ InOrder(r.k, C) /\ n = Shut(r, u)
  <2>1. CASE m = None
    BY <1>0, <2>1 DEF Shuts
  <2>2. CASE m # None
    <3>1. m \in Mutex
      BY <1>0, <2>2, StateFacts
    <3>2. s0.owner[m] # None => Lends(Withdraw(d, m, s0.k.prio[u])) /\ Calm(Withdraw(d, m, s0.k.prio[u]), d, C)
      BY <1>7, <1>9, <1>10, <3>1, WithdrawLends, WithdrawCalm DEF Sound
    <3>3. Lends(Refresh(d, m)) /\ Calm(Refresh(d, m), d, C)
      <4>1. Placed(d.k)
        BY <1>10 DEF Lends
      <4> QED BY <1>7, <1>10, <3>1, <4>1, RefreshLends, RefreshCalm
    <3>4. \/ s0.owner[m] # None /\ n = Shut(Withdraw(d, m, s0.k.prio[u]), u)
          \/ n = Shut(Refresh(d, m), u)
      BY <1>5, <1>6, <2>2 DEF Shuts
    <3> QED BY <3>2, <3>3, <3>4 DEF Calm
  <2> QED BY <2>1, <2>2
<1> DEFINE k2 == CloseThread(r.k, u)
<1>12. k2.wait = r.k.wait /\ k2.prio = r.k.prio
  BY <1>11 DEF CloseThread, MutexState, Kernel
<1>13. Shut(r, u) = [r EXCEPT !.k = k2]
  BY DEF Shut
<1> HIDE DEF k2
<1>14. n.k = k2 /\ n.urgency = r.urgency /\ n.taken = r.taken
  BY <1>11, <1>13 DEF MutexState
<1> QED BY <1>11, <1>12, <1>14 DEF Lends, Placed, Urgent, LentBut, Waits

-----------------------------------------------------------------------------
(* Priority inheritance: what the steps do                                    *)

LEMMA InvLending ==
  ASSUME Consistent
  PROVE  Sound(s, Closed) /\ Ordered(s, Closed)
<1>1. Coherent(s)
  <2> SUFFICES ASSUME NEW t \in Thread, NEW m \in Mutex
               PROVE  /\ Waits(s.k, t, m) =>
                           s.pending[t] = m /\ (s.owner[m] # None => m \in s.taken[s.owner[m]])
                      /\ m \in s.taken[t] => s.owner[m] = t
    BY DEF Coherent
  <2>1. m \in s.taken[t] => s.owner[m] = t
    BY OwnerFacts
  <2>2. ASSUME Waits(s.k, t, m)
        PROVE  s.pending[t] = m /\ (s.owner[m] # None => m \in s.taken[s.owner[m]])
    <3>1. m \in live /\ s.pending[t] = m
      BY <2>2, ThreadFacts
    <3> QED BY <3>1, OwnerFacts
  <2> QED BY <2>1, <2>2
<1> QED BY <1>1, InvFacts, InvSound DEF Sound

\* A step that changes neither priorities nor lists of waiters.
LEMMA LendsSame ==
  ASSUME NEW s0, NEW n, Lends(s0), n.k.prio = s0.k.prio, n.k.wait = s0.k.wait,
         n.urgency = s0.urgency, n.taken = s0.taken
  PROVE  Lends(n)
<1>1. Thins(n.k, s0.k)
  BY ThinsSame
<1>2. \A t \in Thread, m \in Mutex : /\ Waits(n.k, t, m) => Waits(s0.k, t, m)
                                     /\ m \in n.taken[t] => m \in s0.taken[t]
  BY DEF Waits
<1> QED BY <1>1, <1>2, LendsShrinks

\* A step of the kernel: some of the threads that wait for a mutex stop waiting.
LEMMA LendsKernel ==
  ASSUME NEW s0, NEW k, s0 \in MutexState, Lends(s0), k \in Kernel, Thins(k, s0.k),
         \A t \in Thread, m \in Mutex : Waits(k, t, m) => Waits(s0.k, t, m)
  PROVE  Lends([s0 EXCEPT !.k = k])
<1> DEFINE n == [s0 EXCEPT !.k = k]
<1>1. n.k = k /\ n.urgency = s0.urgency /\ n.taken = s0.taken
  BY DEF MutexState
<1> HIDE DEF n
<1>2. Lends(n)
  BY <1>1, LendsShrinks
<1> QED BY <1>2 DEF n

LEMMA ErrorLends ==
  ASSUME Consistent, Lends(s), NEW t \in Thread, NEW e
  PROVE  Lends([s EXCEPT !.k.error[t] = e])
<1> DEFINE n == [s EXCEPT !.k.error[t] = e]
<1>1. s \in MutexState /\ s.k \in Kernel
  BY InvFacts, StateFacts
<1>2. /\ n.k.prio = s.k.prio /\ n.k.wait = s.k.wait /\ n.urgency = s.urgency
      /\ n.taken = s.taken
  BY <1>1 DEF MutexState, Kernel
<1> HIDE DEF n
<1>3. Lends(n)
  BY <1>2, LendsSame
<1> QED BY <1>3 DEF n

LEMMA FaultLends ==
  ASSUME Consistent, Lends(s)
  PROVE  Lends([s EXCEPT !.fault = TRUE])
<1> DEFINE n == [s EXCEPT !.fault = TRUE]
<1>1. n.k = s.k /\ n.urgency = s.urgency /\ n.taken = s.taken
  BY InvFacts DEF MutexState
<1> HIDE DEF n
<1>2. Lends(n)
  BY <1>1, LendsSame
<1> QED BY <1>2 DEF n

\* rt_mutex_take
LEMMA TakeAgainLends ==
  ASSUME Consistent, Lends(s), NEW t \in Thread, NEW m \in Mutex, TakeAgain(t, m)
  PROVE  Lends(s')
<1> DEFINE h == IF s.hold[m] < HoldMax THEN s.hold[m] + 1 ELSE s.hold[m]
           e == [s EXCEPT !.k.error[t] = "EOK"]
<1>1. s' = [e EXCEPT !.hold[m] = h]
  BY InvFacts DEF TakeAgain, MutexState
<1>2. Lends(e)
  BY ErrorLends
<1>3. e.k = e.k /\ DOMAIN e = DOMAIN s
  OBVIOUS
<1>4. /\ s'.k = e.k /\ s'.urgency = e.urgency /\ s'.taken = e.taken
  BY <1>1, <1>3, InvFacts DEF MutexState
<1> HIDE DEF e
<1> QED BY <1>2, <1>4, LendsSame

LEMMA TakeFreeLends ==
  ASSUME Consistent, Lends(s), NEW t \in Thread, NEW m \in Mutex, TakeFree(t, m)
  PROVE  Lends(s')
<1>1. At(t, "run") /\ s.owner[m] = None /\ s' = Grab(s, t, m)
  BY DEF TakeFree, Calls
<1>2. ~Suspended(s.k, t)
  BY <1>1, AtFacts
<1>3. \A u \in Thread : m \notin s.taken[u] /\ ~Waits(s.k, u, m)
  BY <1>1, OwnerFacts, ThreadFacts, Objects
<1> QED BY <1>1, <1>2, <1>3, InvLending, GrabLends

LEMMA TakeWaitLends ==
  ASSUME Consistent, Lends(s), NEW t \in Thread, NEW m \in Mutex, NEW timed \in Timed,
         TakeWait(t, m, timed)
  PROVE  Lends(s')
<1>1. /\ At(t, "run") /\ t # Idle /\ m \in live /\ s.owner[m] # None
      /\ s' = Join(s, t, m, timed)
  BY DEF TakeWait, Calls
<1>2. t = s.k.cur /\ ~Suspended(s.k, t)
  BY <1>1, AtFacts
<1>3. m \in s.taken[s.owner[m]]
  BY <1>1, OwnerFacts
<1> QED BY <1>1, <1>2, <1>3, InvLending, JoinLends

LEMMA TakeFailedLends ==
  ASSUME Consistent, Lends(s), NEW t \in Thread, TakeFailed(t)
  PROVE  Lends(s')
<1> DEFINE m == arg[t]
<1>1. /\ At(t, "taken")
      /\ \/ s.owner[m] # None /\ s' = Leave(s, t, m)
         \/ s' = Refresh(s, m)
         \/ s' = [s EXCEPT !.fault = TRUE]
  BY DEF TakeFailed
<1>2. m \in Mutex
  <2>1. pc[t] = "taken" /\ t \notin Closed
    BY <1>1, AtFacts
  <2> QED BY <2>1, ThreadFacts DEF InTake
<1> HIDE DEF m
<1>3. CASE s.owner[m] # None /\ s' = Leave(s, t, m)
  BY <1>2, <1>3, InvLending, WithdrawLends DEF Leave
<1>4. CASE s' = Refresh(s, m)
  BY <1>2, <1>4, InvLending, RefreshLends DEF Lends
<1>5. CASE s' = [s EXCEPT !.fault = TRUE]
  BY <1>5, FaultLends
<1> QED BY <1>1, <1>3, <1>4, <1>5

LEMMA CloseLends ==
  ASSUME Consistent, Lends(s), NEW t \in Thread, NEW u \in App \ {t}, Close(t, u)
  PROVE  Lends(s')
<1> DEFINE k0 == s.k
           k == RemoveThread(k0, u)
<1>1. Suspended(k0, u) /\ s' = [s EXCEPT !.k = k] /\ u \in Thread
  BY DEF Close, App
<1>2. InOrder(k0, Closed) /\ s \in MutexState /\ k0 = s.k
  BY InvFacts
<1> HIDE DEF k0
<1>3. InOrder(k, Closed) /\ Unlinked(k, k0, u) /\ Thins(k, k0)
  <2>1. LET n == RemoveThread(k0, u) IN InOrder(n, Closed) /\ Unlinked(n, k0, u)
    BY <1>1, <1>2, RemoveOrderly
  <2> QED BY <1>1, <1>2, <2>1, RemoveThins
<1> HIDE DEF k
<1>4. k \in Kernel
  BY <1>3, OrderlyFacts
<1>5. \A x \in Thread, m \in Mutex : Waits(k, x, m) => Waits(k0, x, m)
  BY <1>3, Objects DEF Unlinked, Waits
<1> QED BY <1>1, <1>2, <1>3, <1>4, <1>5, LendsKernel

LEMMA CloseDropLent ==
  ASSUME Consistent, Lends(s), NEW t \in Thread, CloseDrop(t)
  PROVE  Lends(s')
<1> DEFINE u == arg[t]
           m == s.pending[u]
<1>1. At(t, "close") /\ (Shuts(s', s, u, m) \/ s' = [s EXCEPT !.fault = TRUE])
  BY DEF CloseDrop, Shuts
<1>2. pc[t] = "close"
  BY <1>1, AtFacts
<1>3. u \in Thread /\ Suspended(s.k, u)
  BY <1>2 DEF Consistent, BeingClosed
<1>4. Waitless(s.k, u)
  <2>1. \A o \in WaitObj : ~Waits(s.k, u, o)
    BY <1>2, <1>3, ThreadFacts DEF Closing
  <2> QED BY <2>1 DEF Waits, Waitless
<1> HIDE DEF u
<1>5. CASE Shuts(s', s, u, m)
  BY <1>3, <1>4, <1>5, InvLending, CloseDropLends
<1>6. CASE s' = [s EXCEPT !.fault = TRUE]
  BY <1>6, FaultLends
<1> QED BY <1>1, <1>5, <1>6

LEMMA ScheduleLends ==
  ASSUME Consistent, Lends(s), NEW t \in Thread, DoSchedule(t)
  PROVE  Lends(s')
<1> DEFINE k0 == s.k
           k == Schedule(k0)
<1>1. s' = [s EXCEPT !.k = k]
  BY DEF DoSchedule
<1>2. InOrder(k0, Closed) /\ s \in MutexState /\ k0 = s.k
  BY InvFacts
<1> HIDE DEF k0
<1>3. InOrder(k, Closed) /\ Keeps(k, k0) /\ Thins(k, k0)
  <2>1. LET n == Schedule(k0) IN InOrder(n, Closed) /\ Keeps(n, k0) /\ ~Suspended(n, n.cur)
    BY <1>2, ScheduleOrderly
  <2> QED BY <1>2, <2>1, ScheduleThins, OrderlyFacts
<1> HIDE DEF k
<1>4. k \in Kernel
  BY <1>3, OrderlyFacts
<1>5. \A x \in Thread, m \in Mutex : Waits(k, x, m) => Waits(k0, x, m)
  BY <1>3, Objects DEF Keeps, Awakened, Waits
<1> QED BY <1>1, <1>2, <1>3, <1>4, <1>5, LendsKernel

LEMMA TickLends ==
  ASSUME Consistent, Lends(s), Tick
  PROVE  Lends(s')
<1> DEFINE k0 == s.k
           k == TickSlice(k0)
<1>1. s' = [s EXCEPT !.k = k]
  BY DEF Tick
<1>2. InOrder(k0, Closed) /\ s \in MutexState /\ k0 = s.k
  BY InvFacts
<1> HIDE DEF k0
<1>3. InOrder(k, Closed) /\ Keeps(k, k0) /\ Thins(k, k0)
  <2>1. LET n == TickSlice(k0)
        IN InOrder(n, Closed) /\ Keeps(n, k0) /\ (n.cur = k0.cur \/ ~Suspended(n, n.cur))
    BY <1>2, TickOrderly
  <2> QED BY <1>2, <2>1, TickThins
<1> HIDE DEF k
<1>4. k \in Kernel
  BY <1>3, OrderlyFacts
<1>5. \A x \in Thread, m \in Mutex : Waits(k, x, m) => Waits(k0, x, m)
  BY <1>3, Objects DEF Keeps, Awakened, Waits
<1> QED BY <1>1, <1>2, <1>3, <1>4, <1>5, LendsKernel

LEMMA ExpireLends ==
  ASSUME Consistent, Lends(s), NEW u \in Thread, TimerExpire(u)
  PROVE  Lends(s')
<1> DEFINE k0 == s.k
           k == ThreadTimeout(k0, u)
<1>1. u \in s.k.timer /\ s' = [s EXCEPT !.k = k]
  BY DEF TimerExpire
<1>2. InOrder(k0, Closed) /\ s \in MutexState /\ k0 = s.k /\ Suspended(k0, u)
  BY <1>1, InvFacts DEF InOrder
<1> HIDE DEF k0
<1>3. InOrder(k, Closed) /\ Awakened(k, k0, {u}, "ETIMEOUT") /\ Thins(k, k0)
  <2>1. LET n == ThreadTimeout(k0, u)
        IN InOrder(n, Closed) /\ Awakened(n, k0, {u}, "ETIMEOUT") /\ ~Suspended(n, n.cur)
    BY <1>2, TimeoutOrderly
  <2> QED BY <1>2, <2>1, TimeoutThins
<1> HIDE DEF k
<1>4. k \in Kernel
  BY <1>3, OrderlyFacts
<1>5. \A x \in Thread, m \in Mutex : Waits(k, x, m) => Waits(k0, x, m)
  BY <1>3, Objects DEF Awakened, Waits
<1> QED BY <1>1, <1>2, <1>3, <1>4, <1>5, LendsKernel

LEMMA IsrLends ==
  ASSUME Consistent, Lends(s), IsrSemRelease
  PROVE  Lends(s')
<1>1. CASE HasWaiter(s.k, Sem)
  <2> DEFINE k0 == s.k
             u == Head(k0.wait[Sem])
             W == {u}
             r == ResumeFirst(k0, Sem)
             k == Schedule(r)
  <2>1. s' = [s EXCEPT !.k = k]
    BY <1>1 DEF IsrSemRelease
  <2>2. InOrder(k0, Closed) /\ s \in MutexState /\ k0 = s.k
    BY InvFacts
  <2>3. Sem \in WaitObj /\ HasWaiter(k0, Sem)
    BY <1>1, Objects
  <2> HIDE DEF k0
  <2>4. InOrder(r, Closed) /\ Awakened(r, k0, W, "EOK") /\ u \in Thread
    <3>1. LET n == ResumeFirst(k0, Sem)
              t == Head(k0.wait[Sem])
          IN /\ InOrder(n, Closed) /\ Awakened(n, k0, {t}, "EOK") /\ n.cur = k0.cur
             /\ t \in Thread /\ t \in ToSet(k0.wait[Sem]) /\ Suspended(k0, t)
      BY <2>2, <2>3, ResumeFirstOrderly
    <3> QED BY <3>1
  <2>5. r = ResumeWith(k0, u, "EOK") /\ "EOK" \in Error
    BY DEF ResumeFirst, Error
  <2> HIDE DEF u, W
  <2>6. Thins(r, k0)
    BY <2>2, <2>4, <2>5, WakeThins
  <2> HIDE DEF r
  <2>7. InOrder(k, Closed) /\ Awakened(k, k0, W, "EOK")
    <3>1. LET m == Schedule(r)
          IN InOrder(m, Closed) /\ Awakened(m, k0, W, "EOK") /\ ~Suspended(m, m.cur)
      BY <2>4, WokenThenScheduled
    <3> QED BY <3>1
  <2>8. Thins(k, r)
    BY <2>4, ScheduleThins, OrderlyFacts
  <2> HIDE DEF k
  <2>9. k \in Kernel /\ Thins(k, k0)
    BY <2>6, <2>7, <2>8, ThinsThen, OrderlyFacts
  <2>10. \A x \in Thread, m \in Mutex : Waits(k, x, m) => Waits(k0, x, m)
    BY <2>7, Objects DEF Awakened, Waits
  <2> QED BY <2>1, <2>2, <2>9, <2>10, LendsKernel
<1>2. CASE ~HasWaiter(s.k, Sem)
  BY <1>2 DEF IsrSemRelease
<1> QED BY <1>1, <1>2

LEMMA SemTakeLends ==
  ASSUME Consistent, Lends(s), NEW t \in Thread, SemTake(t)
  PROVE  Lends(s')
<1>1. CASE UNCHANGED s
  BY <1>1
<1>2. CASE s' = [s EXCEPT !.k = SuspendOn([s.k EXCEPT !.error[t] = "EINTR"], Sem)]
  <2> DEFINE k0 == s.k
             timeout == FALSE
             k == SuspendOn([k0 EXCEPT !.error[t] = "EINTR"], Sem)
  <2>1. At(t, "run") /\ t # Idle
    BY DEF SemTake, Calls
  <2>2. /\ InOrder(k0, Closed) /\ s \in MutexState /\ k0 = s.k /\ t = k0.cur
        /\ ~Suspended(k0, t) /\ Sem \in WaitObj /\ "EINTR" \in Error
    BY <2>1, InvFacts, AtFacts, Objects DEF Error
  <2>3. k = SleepFor(k0, t, Sem, "EINTR", timeout)
    BY DEF SleepFor, SuspendFor
  <2>4. s' = [s EXCEPT !.k = k]
    BY <1>2
  <2> HIDE DEF k0, k
  <2>5. Thins(k, k0)
    BY <2>1, <2>2, <2>3, SleepThins
  <2> HIDE DEF timeout
  <2>6. InOrder(k, Closed) /\ Sleeps(k, k0, t, Sem, "EINTR")
    BY <2>1, <2>2, <2>3, BlockOrderly
  <2>7. k \in Kernel
    BY <2>6, OrderlyFacts
  <2>8. \A x \in Thread, m \in Mutex : Waits(k, x, m) => Waits(k0, x, m)
    BY <2>6, Objects DEF Sleeps, Waits
  <2> QED BY <2>2, <2>4, <2>5, <2>7, <2>8, LendsKernel
<1> QED BY <1>1, <1>2 DEF SemTake

LEMMA MutexLends ==
  ASSUME Consistent, Lends(s), NEW t \in Thread, NEW m \in Mutex,
         \/ TakeAgain(t, m) \/ TakeFree(t, m) \/ TakeRefused(t, m)
         \/ ReleaseOwned(t, m) \/ ReleaseForeign(t, m)
         \/ Detach(t, m) \/ InitAgain(t, m)
         \/ \E timed \in Timed : TakeWait(t, m, timed)
         \/ \E c \in Prio : Ceil(t, m, c)
  PROVE  Lends(s')
<1>1. CASE TakeRefused(t, m) \/ ReleaseForeign(t, m)
  BY <1>1, ErrorLends DEF TakeRefused, ReleaseForeign
<1>2. CASE ReleaseOwned(t, m)
  <2>1. /\ Ordered(s, Closed) /\ s' = Release(s, t, m) /\ ~Suspended(s.k, t)
        /\ \A x \in Thread : m \in s.taken[x] => x = t
        /\ s.hold[m] \in Nat /\ s.hold[m] > 0
    BY <1>2, ReleaseCalled
  <2>2. s.hold[m] >= 1
    BY <2>1
  <2> QED BY <2>1, <2>2, ReleaseLends
<1>3. CASE Detach(t, m)
  <2>1. s' = DetachMutex(s, m)
    BY <1>3 DEF Detach
  <2> QED BY <2>1, InvLending, DetachLends
<1>4. CASE InitAgain(t, m)
  <2>1. m \notin live /\ s' = InitMutex(s, m)
    BY <1>4 DEF InitAgain
  <2>2. \A x \in Thread : m \notin s.taken[x] /\ ~Waits(s.k, x, m)
    BY <2>1, OwnerFacts, ThreadFacts
  <2> QED BY <2>1, <2>2, InvLending, InitMutexLends
<1>5. ASSUME NEW c \in Prio, Ceil(t, m, c) PROVE Lends(s')
  BY <1>5, InvLending, SetCeilingLends DEF Ceil
<1> QED BY <1>1, <1>2, <1>3, <1>4, <1>5, TakeAgainLends, TakeFreeLends, TakeWaitLends

LEMMA LendsNext ==
  ASSUME Consistent, Lends(s), [Next]_vars
  PROVE  Lends(s')
<1>1. ASSUME NEW t \in Thread, ThreadStep(t)
      PROVE  Lends(s')
  <2>1. CASE TakeDone(t) \/ SemReturn(t)
    BY <2>1 DEF TakeDone, SemReturn
  <2>2. CASE TakeFailed(t)
    BY <2>2, TakeFailedLends
  <2>3. CASE DoSchedule(t)
    BY <2>3, ScheduleLends
  <2>4. CASE SemTake(t)
    BY <2>4, SemTakeLends
  <2>5. CASE CloseDrop(t)
    BY <2>5, CloseDropLent
  <2>6. CASE \E u \in App \ {t} : Close(t, u)
    BY <2>6, CloseLends
  <2> QED BY <1>1, <2>1, <2>2, <2>3, <2>4, <2>5, <2>6, MutexLends DEF ThreadStep
<1>2. CASE UNCHANGED vars
  BY <1>2 DEF vars
<1> QED BY <1>1, <1>2, IsrLends, TickLends, ExpireLends DEF Next

LEMMA LendsInit ==
  ASSUME Init
  PROVE  Lends(s)
<1> DEFINE k0 == StartedKernel
<1>1. /\ k0 \in Kernel /\ \A o \in WaitObj : ToSet(k0.wait[o]) = {} /\ ~HasWaiter(k0, o)
  BY StartedLemma
<1>2. s.k = k0 /\ s.taken = [t \in Thread |-> {}]
  BY DEF Init
<1> HIDE DEF k0
<1>3. Placed(k0)
  <2> SUFFICES ASSUME NEW m \in Mutex PROVE SortedBy(k0.prio, k0.wait[m])
    BY DEF Placed
  <2>1. k0.wait[m] \in Seq(Thread) /\ k0.wait[m] = <<>>
    BY <1>1, Objects DEF Kernel, HasWaiter
  <2> QED BY <2>1 DEF SortedBy
<1>4. Urgent(s)
  BY <1>1, <1>2, Objects DEF Urgent, Waits
<1> QED BY <1>2, <1>3, <1>4 DEF Lends, LentBut

\* The part of the invariant that priority inheritance rests on: the list of waiters of
\* every mutex is in the order of their priorities, the mutex records a priority at least
\* as urgent as each of theirs, and its owner has it.
Lending == Lends(s)

\* Priority inheritance: whatever timeouts, ceilings, releases, closed threads and chains
\* of owners have changed, no owner of a mutex is less urgent than a thread that waits for
\* it, from its call of rt_mutex_take on.
THEOREM MutexInherits == ASSUME Careful PROVE Spec => []Inherits
<1>1. Init => Lending
  BY LendsInit DEF Lending
<1>2. Consistent /\ Lending /\ [Next]_vars => Lending'
  BY LendsNext DEF Lending
<1>3. Spec => []Consistent
  BY MutexConsistent
<1>4. Consistent /\ Lending => Inherits
  <2> SUFFICES ASSUME Consistent, Lending, NEW m \in live, NEW t \in Thread, Waits(s.k, t, m)
               PROVE  s.k.prio[s.owner[m]] <= s.k.prio[t]
    BY DEF Inherits
  <2>1. m \in Mutex
    BY InvFacts
  <2> DEFINE o == s.owner[m]
  <2>2. o \in Thread \ {None} /\ m \in s.taken[o]
    BY <2>1, ThreadFacts, OwnerFacts
  <2>3. s.k.prio[o] <= s.urgency[m] /\ s.urgency[m] <= s.k.prio[t]
    BY <2>1, <2>2 DEF Lending, Lends, LentBut, Urgent
  <2>4. s.k.prio[o] \in Int /\ s.urgency[m] \in Int /\ s.k.prio[t] \in Int
    BY <2>1, <2>2, InvFacts, StateFacts, Numbers
  <2> QED BY <2>3, <2>4
<1> QED BY <1>1, <1>2, <1>3, <1>4, PTL DEF Spec

\* A call of _thread_update_priority for an owner, at a priority that serves all it owns,
\* comes to an end: the last of the calls that it leads to makes none in turn.
ChainEnds ==
  \A t \in Thread, p \in Prio :
    s.taken[t] # {} /\ (\A m \in s.taken[t] : p <= s.urgency[m]) => LastCall(s, t, p).t = None

\* The recursion of _thread_update_priority ends within as many calls as there are pairs
\* of a thread and a priority, also when owners wait for each other in a circle.
THEOREM PriorityChainEnds == ASSUME Careful PROVE Spec => []ChainEnds
<1>1. Init => Lending
  BY LendsInit DEF Lending
<1>2. Consistent /\ Lending /\ [Next]_vars => Lending'
  BY LendsNext DEF Lending
<1>3. Spec => []Consistent
  BY MutexConsistent
<1>4. Consistent /\ Lending => ChainEnds
  <2> SUFFICES ASSUME Consistent, Lending, NEW t \in Thread, NEW p \in Prio,
                      s.taken[t] # {}, \A m \in s.taken[t] : p <= s.urgency[m]
               PROVE  LastCall(s, t, p).t = None
    BY DEF ChainEnds
  <2>1. Ordered(s, Closed) /\ SoundOwners(s) /\ Coherent(s)
    BY InvLending DEF Sound
  <2>2. PICK m \in Mutex : m \in s.taken[t]
    BY InvFacts, StateFacts
  <2>3. Movable(s, t)
    <3>1. s.owner[m] = t /\ t # None
      BY <2>1, <2>2, Objects DEF Coherent
    <3> QED BY <2>1, <3>1 DEF SoundOwners
  <2>4. Placed(s.k) /\ Urgent(s) /\ LentBut(s, t)
    BY Objects DEF Lending, Lends, LentBut
  <2>5. Ready(s, Closed, t, p)
    BY <2>1, <2>3, <2>4 DEF Ready
  <2> QED BY <2>5, CallsEnd
<1> QED BY <1>1, <1>2, <1>3, <1>4, PTL DEF Spec

-----------------------------------------------------------------------------
(* Priority inheritance: the steps, and what is given back                    *)

\* Every wait is for ever, and no mutex is detached and no thread closed.
Patient == Timed \subseteq {FALSE} /\ "detach" \notin Ops /\ "close" \notin Ops

\* No time of a wait runs, and every priority is called for.
Even(n) == n.k.timer = {} /\ Gives(n)

LEMMA EvenSame ==
  ASSUME NEW s0, NEW n, Even(s0), n.k.prio = s0.k.prio, n.k.wait = s0.k.wait,
         n.k.timer = s0.k.timer, n.urgency = s0.urgency, n.taken = s0.taken,
         n.ceiling = s0.ceiling
  PROVE  Even(n)
<1>1. Level(n)
  BY DEF Even, Gives, Level, FirstUrgency, HasWaiter
<1>2. EarnedBut(n, None)
  BY DEF Even, Gives, EarnedBut, Earned
<1> QED BY <1>1, <1>2 DEF Even, Gives

\* A step of the kernel that leaves the waiters of the mutexes as they are.
LEMMA EvenKernel ==
  ASSUME NEW s0, NEW C, NEW k, NEW D, s0 \in MutexState, InOrder(s0.k, C), InOrder(k, D),
         Lends(s0), Even(s0), Thins(k, s0.k), k.timer \subseteq s0.k.timer,
         \A t \in Thread, m \in Mutex : Waits(k, t, m) <=> Waits(s0.k, t, m)
  PROVE  Even([s0 EXCEPT !.k = k])
<1> DEFINE n == [s0 EXCEPT !.k = k]
<1>1. /\ n.k = k /\ n.urgency = s0.urgency /\ n.taken = s0.taken
      /\ n.ceiling = s0.ceiling
  BY DEF MutexState
<1> HIDE DEF n
<1>2. n.k.timer = {} /\ k.prio = s0.k.prio /\ Gives(s0)
  BY <1>1 DEF Even, Thins
<1>3. Placed(n.k) /\ Placed(s0.k)
  BY <1>1, MutexAssumption DEF Lends, Placed, Thins
<1>4. Level(n)
  <2> SUFFICES ASSUME NEW m \in Mutex PROVE n.urgency[m] = FirstUrgency(n.k, m)
    BY DEF Level
  <2>1. SameWaiters(n.k, s0.k, m)
    BY <1>1, <1>2 DEF SameWaiters
  <2> QED BY <1>1, <1>2, <1>3, <2>1, LevelSame DEF Gives
<1>5. EarnedBut(n, None)
  BY <1>1, <1>2 DEF Gives, EarnedBut, Earned
<1>6. Even(n)
  BY <1>2, <1>4, <1>5 DEF Even, Gives
<1> QED BY <1>6 DEF n

LEMMA ErrorEven ==
  ASSUME Consistent, Even(s), NEW t \in Thread, NEW e
  PROVE  Even([s EXCEPT !.k.error[t] = e])
<1> DEFINE n == [s EXCEPT !.k.error[t] = e]
<1>1. s \in MutexState /\ s.k \in Kernel
  BY InvFacts, StateFacts
<1>2. /\ n.k.prio = s.k.prio /\ n.k.wait = s.k.wait /\ n.k.timer = s.k.timer
      /\ n.urgency = s.urgency /\ n.taken = s.taken /\ n.ceiling = s.ceiling
  BY <1>1 DEF MutexState, Kernel
<1> HIDE DEF n
<1>3. Even(n)
  BY <1>2, EvenSame
<1> QED BY <1>3 DEF n

LEMMA TakeAgainEven ==
  ASSUME Consistent, Even(s), NEW t \in Thread, NEW m \in Mutex, TakeAgain(t, m)
  PROVE  Even(s')
<1> DEFINE h == IF s.hold[m] < HoldMax THEN s.hold[m] + 1 ELSE s.hold[m]
           e == [s EXCEPT !.k.error[t] = "EOK"]
<1>1. s' = [e EXCEPT !.hold[m] = h]
  BY InvFacts DEF TakeAgain, MutexState
<1>2. Even(e)
  BY ErrorEven
<1>3. DOMAIN e = DOMAIN s
  OBVIOUS
<1>4. /\ s'.k = e.k /\ s'.urgency = e.urgency /\ s'.taken = e.taken
      /\ s'.ceiling = e.ceiling
  BY <1>1, <1>3, InvFacts DEF MutexState
<1> HIDE DEF e
<1> QED BY <1>2, <1>4, EvenSame

LEMMA TakeFreeEven ==
  ASSUME Consistent, Lends(s), Even(s), NEW t \in Thread, NEW m \in Mutex, TakeFree(t, m)
  PROVE  Even(s')
<1>1. At(t, "run") /\ s.owner[m] = None /\ s' = Grab(s, t, m)
  BY DEF TakeFree, Calls
<1>2. ~Suspended(s.k, t)
  BY <1>1, AtFacts
<1>3. \A u \in Thread : m \notin s.taken[u] /\ ~Waits(s.k, u, m)
  BY <1>1, OwnerFacts, ThreadFacts, Objects
<1>4. Gives(s')
  BY <1>1, <1>2, <1>3, InvLending, GrabLends DEF Even
<1>5. s'.k.timer \subseteq s.k.timer
  BY <1>1, <1>2, <1>3, InvLending, GrabLemma DEF Sound
<1> QED BY <1>4, <1>5 DEF Even

LEMMA TakeWaitEven ==
  ASSUME Consistent, Lends(s), Even(s), NEW t \in Thread, NEW m \in Mutex,
         TakeWait(t, m, FALSE)
  PROVE  Even(s')
<1>1. /\ At(t, "run") /\ t # Idle /\ m \in live /\ s.owner[m] # None
      /\ s' = Join(s, t, m, FALSE)
  BY DEF TakeWait, Calls
<1>2. t = s.k.cur /\ ~Suspended(s.k, t)
  BY <1>1, AtFacts
<1>3. m \in s.taken[s.owner[m]]
  BY <1>1, OwnerFacts
<1> DEFINE timed == FALSE
           n == Join(s, t, m, timed)
<1>4. s' = n /\ ~timed
  BY <1>1
<1> HIDE DEF timed
<1>5. Gives(n)
  BY <1>1, <1>2, <1>3, <1>4, InvLending, JoinLends DEF Even
<1>6. JoinedBy(n, s, t, m, timed, Closed)
  BY <1>1, <1>2, InvLending, JoinLemma DEF Sound
<1> HIDE DEF n
<1>7. n.k.timer \subseteq s.k.timer
  BY <1>4, <1>6 DEF JoinedBy
<1> QED BY <1>4, <1>5, <1>7 DEF Even

LEMMA TakeFailedEven ==
  ASSUME Consistent, Lends(s), Even(s), NEW t \in Thread, TakeFailed(t)
  PROVE  Even(s')
<1> DEFINE m == arg[t]
<1>1. /\ At(t, "taken")
      /\ \/ s.owner[m] # None /\ s' = Leave(s, t, m)
         \/ s' = Refresh(s, m)
         \/ s' = [s EXCEPT !.fault = TRUE]
  BY DEF TakeFailed
<1>2. m \in Mutex
  <2>1. pc[t] = "taken" /\ t \notin Closed
    BY <1>1, AtFacts
  <2> QED BY <2>1, ThreadFacts DEF InTake
<1> HIDE DEF m
<1>3. CASE s.owner[m] # None /\ s' = Leave(s, t, m)
  <2>1. s' = Withdraw(s, m, s.k.prio[t])
    BY <1>3 DEF Leave
  <2>2. Gives(s')
    BY <1>2, <1>3, <2>1, InvLending, WithdrawLends DEF Even
  <2>3. Calm(s', s, Closed)
    BY <1>2, <1>3, <2>1, InvLending, WithdrawCalm DEF Sound
  <2> QED BY <2>2, <2>3 DEF Even, Calm, Keeps, Awakened
<1>4. CASE s' = Refresh(s, m)
  <2>1. Gives(s')
    BY <1>2, <1>4, InvLending, RefreshGives DEF Even, Lends
  <2>2. Calm(s', s, Closed)
    BY <1>2, <1>4, InvLending, RefreshCalm
  <2> QED BY <2>1, <2>2 DEF Even, Calm, Keeps, Awakened
<1>5. CASE s' = [s EXCEPT !.fault = TRUE]
  <2>1. /\ s'.k = s.k /\ s'.urgency = s.urgency /\ s'.taken = s.taken
        /\ s'.ceiling = s.ceiling
    BY <1>5, InvFacts DEF MutexState
  <2> QED BY <2>1, EvenSame
<1> QED BY <1>1, <1>3, <1>4, <1>5

LEMMA ScheduleEven ==
  ASSUME Consistent, Lends(s), Even(s), NEW t \in Thread, DoSchedule(t)
  PROVE  Even(s')
<1> DEFINE k0 == s.k
           k == Schedule(k0)
<1>1. s' = [s EXCEPT !.k = k]
  BY DEF DoSchedule
<1>2. InOrder(k0, Closed) /\ s \in MutexState /\ k0 = s.k
  BY InvFacts
<1> HIDE DEF k0
<1>3. InOrder(k, Closed) /\ Keeps(k, k0) /\ Thins(k, k0)
  <2>1. LET n == Schedule(k0) IN InOrder(n, Closed) /\ Keeps(n, k0) /\ ~Suspended(n, n.cur)
    BY <1>2, ScheduleOrderly
  <2> QED BY <1>2, <2>1, ScheduleThins, OrderlyFacts
<1> HIDE DEF k
<1>4. k.timer \subseteq k0.timer
  BY <1>3 DEF Keeps, Awakened
<1>5. \A x \in Thread, m \in Mutex : Waits(k, x, m) <=> Waits(k0, x, m)
  BY <1>3, Objects DEF Keeps, Awakened, Waits
<1> QED BY <1>1, <1>2, <1>3, <1>4, <1>5, EvenKernel

LEMMA TickEven ==
  ASSUME Consistent, Lends(s), Even(s), Tick
  PROVE  Even(s')
<1> DEFINE k0 == s.k
           k == TickSlice(k0)
<1>1. s' = [s EXCEPT !.k = k]
  BY DEF Tick
<1>2. InOrder(k0, Closed) /\ s \in MutexState /\ k0 = s.k
  BY InvFacts
<1> HIDE DEF k0
<1>3. InOrder(k, Closed) /\ Keeps(k, k0) /\ Thins(k, k0)
  <2>1. LET n == TickSlice(k0)
        IN InOrder(n, Closed) /\ Keeps(n, k0) /\ (n.cur = k0.cur \/ ~Suspended(n, n.cur))
    BY <1>2, TickOrderly
  <2> QED BY <1>2, <2>1, TickThins
<1> HIDE DEF k
<1>4. k.timer \subseteq k0.timer
  BY <1>3 DEF Keeps, Awakened
<1>5. \A x \in Thread, m \in Mutex : Waits(k, x, m) <=> Waits(k0, x, m)
  BY <1>3, Objects DEF Keeps, Awakened, Waits
<1> QED BY <1>1, <1>2, <1>3, <1>4, <1>5, EvenKernel

LEMMA IsrEven ==
  ASSUME Consistent, Lends(s), Even(s), IsrSemRelease
  PROVE  Even(s')
<1>1. CASE HasWaiter(s.k, Sem)
  <2> DEFINE k0 == s.k
             u == Head(k0.wait[Sem])
             W == {u}
             r == ResumeFirst(k0, Sem)
             k == Schedule(r)
  <2>1. s' = [s EXCEPT !.k = k]
    BY <1>1 DEF IsrSemRelease
  <2>2. InOrder(k0, Closed) /\ s \in MutexState /\ k0 = s.k
    BY InvFacts
  <2>3. Sem \in WaitObj /\ HasWaiter(k0, Sem)
    BY <1>1, Objects
  <2> HIDE DEF k0
  <2>4. InOrder(r, Closed) /\ Awakened(r, k0, W, "EOK") /\ u \in Thread /\ Waits(k0, u, Sem)
    <3>1. LET n == ResumeFirst(k0, Sem)
              t == Head(k0.wait[Sem])
          IN /\ InOrder(n, Closed) /\ Awakened(n, k0, {t}, "EOK") /\ n.cur = k0.cur
             /\ t \in Thread /\ t \in ToSet(k0.wait[Sem]) /\ Suspended(k0, t)
      BY <2>2, <2>3, ResumeFirstOrderly
    <3> QED BY <3>1 DEF Waits
  <2>5. r = ResumeWith(k0, u, "EOK") /\ "EOK" \in Error
    BY DEF ResumeFirst, Error
  <2> HIDE DEF u, W
  <2>6. Thins(r, k0)
    BY <2>2, <2>4, <2>5, WakeThins
  <2> HIDE DEF r
  <2>7. InOrder(k, Closed) /\ Awakened(k, k0, W, "EOK")
    <3>1. LET m == Schedule(r)
          IN InOrder(m, Closed) /\ Awakened(m, k0, W, "EOK") /\ ~Suspended(m, m.cur)
      BY <2>4, WokenThenScheduled
    <3> QED BY <3>1
  <2>8. Thins(k, r)
    BY <2>4, ScheduleThins, OrderlyFacts
  <2> HIDE DEF k
  <2>9. k.timer \subseteq k0.timer /\ Thins(k, k0)
    BY <2>6, <2>7, <2>8, ThinsThen DEF Awakened
  <2>10. \A m \in Mutex : ~Waits(k0, u, m)
    BY <2>2, <2>4, ThreadFacts, Objects
  <2>11. \A x \in Thread, m \in Mutex : Waits(k, x, m) <=> Waits(k0, x, m)
    BY <2>7, <2>10, Objects DEF Awakened, Waits, W
  <2> QED BY <2>1, <2>2, <2>7, <2>9, <2>11, EvenKernel
<1>2. CASE ~HasWaiter(s.k, Sem)
  BY <1>2 DEF IsrSemRelease
<1> QED BY <1>1, <1>2

LEMMA SemTakeEven ==
  ASSUME Consistent, Lends(s), Even(s), NEW t \in Thread, SemTake(t)
  PROVE  Even(s')
<1>1. CASE UNCHANGED s
  BY <1>1
<1>2. CASE s' = [s EXCEPT !.k = SuspendOn([s.k EXCEPT !.error[t] = "EINTR"], Sem)]
  <2> DEFINE k0 == s.k
             timeout == FALSE
             k == SuspendOn([k0 EXCEPT !.error[t] = "EINTR"], Sem)
  <2>1. At(t, "run") /\ t # Idle
    BY DEF SemTake, Calls
  <2>2. /\ InOrder(k0, Closed) /\ s \in MutexState /\ k0 = s.k /\ t = k0.cur
        /\ ~Suspended(k0, t) /\ Sem \in WaitObj /\ "EINTR" \in Error
    BY <2>1, InvFacts, AtFacts, Objects DEF Error
  <2>3. k = SleepFor(k0, t, Sem, "EINTR", timeout) /\ ~timeout
    BY DEF SleepFor, SuspendFor
  <2>4. s' = [s EXCEPT !.k = k]
    BY <1>2
  <2> HIDE DEF k0, k
  <2>5. Thins(k, k0)
    BY <2>1, <2>2, <2>3, SleepThins
  <2> HIDE DEF timeout
  <2>6. /\ InOrder(k, Closed) /\ Sleeps(k, k0, t, Sem, "EINTR")
        /\ k.timer \subseteq k0.timer
    BY <2>1, <2>2, <2>3, BlockOrderly
  <2>7. \A x \in Thread, m \in Mutex : Waits(k, x, m) <=> Waits(k0, x, m)
    BY <2>6, Objects DEF Sleeps, Waits
  <2> QED BY <2>2, <2>4, <2>5, <2>6, <2>7, EvenKernel
<1> QED BY <1>1, <1>2 DEF SemTake

LEMMA ReleaseEven ==
  ASSUME Consistent, Lends(s), Even(s), NEW t \in Thread, NEW m \in Mutex, ReleaseOwned(t, m)
  PROVE  Even(s')
<1>1. /\ Ordered(s, Closed) /\ s' = Release(s, t, m) /\ ~Suspended(s.k, t)
      /\ \A x \in Thread : m \in s.taken[x] => x = t
      /\ s.hold[m] \in Nat /\ s.hold[m] > 0
  BY ReleaseCalled
<1>2. OneWait(s.k)
  BY InvLending DEF Sound, Coherent, OneWait
<1>3. Gives(s')
  <2>1. s.hold[m] >= 1
    BY <1>1
  <2> QED BY <1>1, <1>2, <2>1, ReleaseLends DEF Even
<1>4. s'.k.timer \subseteq s.k.timer
  <2>1. CASE s.hold[m] > 1
    BY <1>1, <2>1, ReleaseLevel
  <2>2. CASE s.hold[m] = 1 /\ HasWaiter(s.k, m)
    <3>1. PICK u \in Thread : HandedOver(Release(s, t, m), s, m, u, Closed)
      BY <1>1, <2>2, ReleaseHandsOver
    <3> QED BY <1>1, <3>1 DEF HandedOver, Awakened
  <2>3. CASE s.hold[m] = 1 /\ ~HasWaiter(s.k, m)
    <3>1. Keeps(s'.k, s.k)
      BY <1>1, <2>3, ReleaseFrees
    <3> QED BY <3>1 DEF Keeps, Awakened
  <2> QED BY <1>1, <2>1, <2>2, <2>3
<1> QED BY <1>3, <1>4 DEF Even

LEMMA CeilEven ==
  ASSUME Consistent, Lends(s), Even(s), NEW t \in Thread, NEW m \in Mutex, NEW c \in Prio,
         Ceil(t, m, c)
  PROVE  Even(s')
<1>1. s' = SetCeiling(s, m, c)
  BY DEF Ceil
<1>2. s.owner[m] = None => \A x \in Thread : m \notin s.taken[x]
  BY OwnerFacts, MutexAssumption
<1>3. Gives(s')
  BY <1>1, <1>2, InvLending, SetCeilingLends DEF Even
<1>4. Calm(s', s, Closed)
  BY <1>1, InvLending, SetCeilingCalm DEF Sound
<1> QED BY <1>3, <1>4 DEF Even, Calm, Keeps, Awakened

LEMMA MutexEven ==
  ASSUME Consistent, Lends(s), Even(s), Patient, NEW t \in Thread, NEW m \in Mutex,
         \/ TakeAgain(t, m) \/ TakeFree(t, m) \/ TakeRefused(t, m)
         \/ ReleaseOwned(t, m) \/ ReleaseForeign(t, m)
         \/ Detach(t, m) \/ InitAgain(t, m)
         \/ \E timed \in Timed : TakeWait(t, m, timed)
         \/ \E c \in Prio : Ceil(t, m, c)
  PROVE  Even(s') /\ \A u \in Thread : pc'[u] = "close" => pc[u] = "close"
<1>1. CASE TakeRefused(t, m) \/ ReleaseForeign(t, m)
  BY <1>1, ErrorEven DEF TakeRefused, ReleaseForeign
<1>2. CASE TakeAgain(t, m)
  <2>1. Even(s')
    BY <1>2, TakeAgainEven
  <2>2. pc' = pc
    BY <1>2 DEF TakeAgain, Calls
  <2> QED BY <2>1, <2>2
<1>3. CASE TakeFree(t, m)
  BY <1>3, TakeFreeEven DEF TakeFree
<1>4. CASE ReleaseOwned(t, m)
  BY <1>4, ReleaseEven, InvFacts DEF ReleaseOwned, Goto
<1>5. CASE \E timed \in Timed : TakeWait(t, m, timed)
  <2>1. TakeWait(t, m, FALSE)
    BY <1>5 DEF Patient
  <2> QED BY <2>1, TakeWaitEven, InvFacts DEF TakeWait, Goto
<1>6. CASE \E c \in Prio : Ceil(t, m, c)
  BY <1>6, CeilEven DEF Ceil
<1>7. CASE Detach(t, m) \/ InitAgain(t, m)
  BY <1>7 DEF Detach, InitAgain, Calls, Patient
<1> QED BY <1>1, <1>2, <1>3, <1>4, <1>5, <1>6, <1>7

\* Nothing is called for any more that was, as far as the kernel and the mutexes know,
\* and no thread is between the two sections of a detach.
Giving == Even(s) /\ \A t \in Thread : pc[t] # "close"

LEMMA GivingNext ==
  ASSUME Consistent, Lends(s), Giving, Patient, [Next]_vars
  PROVE  Giving'
<1>0. Even(s) /\ (\A t \in Thread : pc[t] # "close") /\ pc \in [Thread -> PC]
  BY InvFacts DEF Giving
<1>1. ASSUME NEW t \in Thread, ThreadStep(t)
      PROVE  Even(s') /\ \A u \in Thread : pc'[u] # "close"
  <2>1. CASE TakeDone(t) \/ SemReturn(t)
    BY <1>0, <2>1 DEF TakeDone, SemReturn, Goto
  <2>2. CASE TakeFailed(t)
    BY <1>0, <2>2, TakeFailedEven DEF TakeFailed, Goto
  <2>3. CASE DoSchedule(t)
    BY <1>0, <2>3, ScheduleEven DEF DoSchedule, Goto
  <2>4. CASE SemTake(t)
    BY <1>0, <2>4, SemTakeEven DEF SemTake
  <2>5. CASE CloseDrop(t)
    BY <1>0, <2>5 DEF CloseDrop, At
  <2>6. CASE \E u \in App \ {t} : Close(t, u)
    BY <2>6 DEF Close, Calls, Patient
  <2> QED BY <1>0, <1>1, <2>1, <2>2, <2>3, <2>4, <2>5, <2>6, MutexEven DEF ThreadStep
<1>2. CASE IsrSemRelease
  BY <1>0, <1>2, IsrEven DEF IsrSemRelease, Giving
<1>3. CASE Tick
  BY <1>0, <1>3, TickEven DEF Tick, Giving
<1>4. CASE \E u \in Thread : TimerExpire(u)
  BY <1>0, <1>4 DEF TimerExpire, Even
<1>5. CASE UNCHANGED vars
  BY <1>0, <1>5 DEF vars, Giving
<1> QED BY <1>1, <1>2, <1>3, <1>4, <1>5 DEF Next, Giving

LEMMA GivingInit ==
  ASSUME Init
  PROVE  Giving
<1> DEFINE k0 == StartedKernel
<1>1. /\ k0 \in Kernel /\ \A o \in WaitObj : ~HasWaiter(k0, o)
  BY StartedLemma
<1>2. k0.timer = {} /\ k0.prio = InitPrio
  BY DEF StartedKernel
<1>3. /\ s.k = k0 /\ s.taken = [t \in Thread |-> {}] /\ s.urgency = [m \in Mutex |-> Lowest]
      /\ pc = [t \in Thread |-> "run"]
  BY DEF Init
<1> HIDE DEF k0
<1>4. Level(s)
  BY <1>1, <1>3, MutexAssumption DEF Level, FirstUrgency
<1>5. EarnedBut(s, None)
  <2> SUFFICES ASSUME NEW t \in Thread PROVE Earned(s, t, s.k.prio[t])
    BY DEF EarnedBut
  <2>1. InitPrio[t] <= InitPrio[t]
    BY ThreadAssumption, Numbers
  <2> QED BY <1>2, <1>3, <2>1 DEF Earned
<1> QED BY <1>2, <1>3, <1>4, <1>5 DEF Giving, Even, Gives

\* What is boosted comes down again: along every chain of owners, through every release,
\* hand-over and change of a ceiling, a thread is no more urgent than its own priority,
\* the threads that wait for what it owns and the ceilings of what it owns call for; so
\* an owner that has let go of everything runs with the priority it was created with, at
\* the most.  The code keeps this as long as no wait ends but by a hand-over: a timeout,
\* rt_mutex_detach and rt_thread_detach each have histories after which an owner keeps
\* the priority of a waiter that is gone.
THEOREM MutexGivesBack == ASSUME Patient PROVE Spec => []GivesBack
<1>1. Careful
  BY DEF Patient, Careful
<1>2. Spec => []Consistent
  BY <1>1, MutexConsistent
<1>3. Init => Lending /\ Giving
  BY LendsInit, GivingInit DEF Lending
<1>4. Consistent /\ Lending /\ Giving /\ [Next]_vars => Lending' /\ Giving'
  BY LendsNext, GivingNext DEF Lending
<1>5. Consistent /\ Giving => GivesBack
  <2> SUFFICES ASSUME Consistent, Giving, NEW t \in Thread
               PROVE  s.k.prio[t] >= CalledFor(t)
    BY DEF GivesBack
  <2>1. s \in MutexState /\ s.k.prio[t] \in Prio /\ s.taken[t] \subseteq Mutex
    BY InvFacts, StateFacts
  <2>2. Level(s) /\ Earned(s, t, s.k.prio[t])
    BY MutexAssumption DEF Giving, Even, Gives, EarnedBut
  <2>3. {FirstUrgency(s.k, m) : m \in s.taken[t]} = {s.urgency[m] : m \in s.taken[t]}
    BY <2>1, <2>2 DEF Level
  <2>4. CalledFor(t) = DuePrio(s, t)
    BY <2>3 DEF CalledFor, DuePrio
  <2>5. DuePrio(s, t) <= s.k.prio[t] /\ DuePrio(s, t) \in Prio
    BY <2>1, <2>2, EarnedDue, DuePrioType
  <2>6. DuePrio(s, t) \in Int /\ s.k.prio[t] \in Int
    BY <2>1, <2>5, Numbers
  <2> QED BY <2>4, <2>5, <2>6
<1> QED BY <1>2, <1>3, <1>4, <1>5, PTL DEF Spec
=============================================================================
