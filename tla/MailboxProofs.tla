--------------------------- MODULE MailboxProofs ----------------------------
(***************************************************************************)
(* The mailbox for any number of threads and any size: its lists and its   *)
(* ring stay in order, no wake-up is lost, and the ring is the bounded     *)
(* queue it stands for.                                                    *)
(***************************************************************************)
EXTENDS Mailbox, KernelProofs

USE IpcAssumption, ThreadAssumption DEF Orderly

\* The account of the wake-ups needs who waits where, and the queue the offsets.
Inv == Consistent /\ NoWakeUpLost

\* the woken threads that come for a mail, and for a place
RecvComing == {t \in Thread : InRecv(t) /\ Comes(t)}
SendComing == {t \in Thread : InSend(t) /\ Comes(t)}

Queue == [i \in 1..entry |-> msg_pool[Place(i)]]

-----------------------------------------------------------------------------
(* The ring *)

RingOK == /\ msg_pool \in [Slot -> Mail \cup {NoMail}]
          /\ entry \in 0..Size /\ in_offset \in Slot /\ out_offset \in Slot
          /\ in_offset = Place(entry + 1)

QueueIs == /\ Queue \in Seq(Mail \cup {NoMail}) /\ Len(Queue) = entry
           /\ \A i \in 1..entry : Queue[i] = msg_pool[Place(i)]

\* The places of the ring, each used once.
LEMMA RingFacts ==
  ASSUME RingOK
  PROVE  /\ Size \in Nat \ {0} /\ entry \in Nat /\ entry <= Size
         /\ out_offset \in Nat /\ out_offset < Size
         /\ in_offset \in Nat /\ in_offset < Size
         /\ in_offset = Place(entry + 1)
         /\ \A i \in 1..(Size + 1) : Place(i) \in Slot
         /\ \A i, j \in 1..Size : Place(i) = Place(j) => i = j
<1>1. /\ Size \in Nat \ {0} /\ entry \in Nat /\ entry <= Size
      /\ out_offset \in Nat /\ out_offset < Size
      /\ in_offset \in Nat /\ in_offset < Size
  BY MailboxAssumption DEF RingOK, Slot
<1>2. ASSUME NEW i \in 1..(Size + 1)
      PROVE  Place(i) \in Slot
  BY <1>1 DEF Place, Slot
<1>3. ASSUME NEW i \in 1..Size, NEW j \in 1..Size, Place(i) = Place(j)
      PROVE  i = j
  BY <1>1, <1>3 DEF Place
<1> QED BY <1>1, <1>2, <1>3 DEF RingOK

\* The queue is what lies in the ring.
LEMMA QueueFacts == RingOK => QueueIs
<1> SUFFICES ASSUME RingOK PROVE QueueIs
  OBVIOUS
<1>1. Queue = [i \in 1..entry |-> Queue[i]] /\ \A i \in 1..entry : Queue[i] = msg_pool[Place(i)]
  BY DEF Queue
<1>2. \A i \in 1..entry : msg_pool[Place(i)] \in Mail \cup {NoMail}
  <2> TAKE i \in 1..entry
  <2>1. i \in 1..(Size + 1)
    BY RingFacts
  <2> QED BY <2>1, RingFacts DEF RingOK
<1>3. Queue \in Seq(Mail \cup {NoMail}) /\ Len(Queue) = entry
  BY <1>1, <1>2, RingFacts, SeqByIndex
<1> QED BY <1>1, <1>3 DEF QueueIs

\* A mail is put at the end.
LEMMA PutRing ==
  ASSUME RingOK, entry < Size, NEW v \in Mail,
         msg_pool' = [msg_pool EXCEPT ![in_offset] = v],
         in_offset' = Wrap(in_offset + 1), entry' = entry + 1, out_offset' = out_offset
  PROVE  RingOK' /\ Queue' = Append(Queue, v) /\ Len(Queue) = entry
<1>1. in_offset' \in Slot /\ entry' \in 0..Size
  BY RingFacts DEF Wrap, Slot
<1>2. msg_pool' \in [Slot -> Mail \cup {NoMail}] /\ in_offset \in Slot
  BY DEF RingOK
<1>3. \A i \in Int : Place(i)' = Place(i)
  BY DEF Place
<1>4. in_offset' = Place(entry + 2)
  <2>1. in_offset = IF out_offset + entry < Size THEN out_offset + entry
                                                 ELSE out_offset + entry - Size
    BY RingFacts DEF Place
  <2>2. Place(entry + 2) = IF out_offset + entry + 1 < Size THEN out_offset + entry + 1
                                                            ELSE out_offset + entry + 1 - Size
    BY RingFacts DEF Place
  <2> QED BY <2>1, <2>2, RingFacts DEF Wrap
<1>5. RingOK'
  <2>1. out_offset' + (entry' + 1) - 1 = out_offset + (entry + 2) - 1
    BY RingFacts
  <2>2. in_offset' = IF out_offset' + (entry' + 1) - 1 < Size
                     THEN out_offset' + (entry' + 1) - 1
                     ELSE (out_offset' + (entry' + 1) - 1) - Size
    BY <1>4, <2>1 DEF Place
  <2> QED BY <1>1, <1>2, <2>2 DEF RingOK, Place
<1>6. QueueIs /\ QueueIs'
  BY <1>5, QueueFacts, PTL
<1>7. \A i \in 1..(entry + 1) : Queue'[i] = IF i <= entry THEN Queue[i] ELSE v
  <2> TAKE i \in 1..(entry + 1)
  <2>1. Queue'[i] = msg_pool'[Place(i)]
    BY <1>3, <1>6, RingFacts DEF QueueIs
  <2>2. i \in 1..(Size + 1) /\ Place(i) \in Slot /\ entry + 1 \in 1..Size /\ i \in 1..Size
    BY RingFacts
  <2>3. CASE i <= entry
    <3>1. Place(i) # in_offset /\ Queue[i] = msg_pool[Place(i)]
      BY <1>6, <2>2, <2>3, RingFacts DEF QueueIs
    <3> QED BY <1>2, <2>1, <2>2, <2>3, <3>1 DEF RingOK
  <2>4. CASE ~(i <= entry)
    <3>1. Place(i) = in_offset
      BY <2>4, RingFacts
    <3> QED BY <1>2, <2>1, <2>4, <3>1 DEF RingOK
  <2> QED BY <2>3, <2>4
<1>8. Queue' = Append(Queue, v)
  <2>1. LET r == Append(Queue, v)
        IN /\ r \in Seq(Mail \cup {NoMail}) /\ Len(r) = Len(Queue) + 1
           /\ \A i \in 1..(Len(Queue) + 1) : r[i] = IF i <= Len(Queue) THEN Queue[i] ELSE v
    BY <1>6, AppendElements DEF QueueIs
  <2>2. Queue' \in Seq(Mail \cup {NoMail}) /\ Len(Queue') = entry + 1 /\ Len(Queue) = entry
    BY <1>6 DEF QueueIs
  <2> QED BY <1>7, <2>1, <2>2, SameSeq
<1> QED BY <1>5, <1>6, <1>8 DEF QueueIs

\* The first mail is taken.
LEMMA GetRing ==
  ASSUME RingOK, entry > 0,
         msg_pool' = msg_pool, in_offset' = in_offset, entry' = entry - 1,
         out_offset' = Wrap(out_offset + 1)
  PROVE  /\ RingOK' /\ Queue' = Tail(Queue) /\ Queue # <<>>
         /\ Head(Queue) = msg_pool[out_offset]
         /\ msg_pool[out_offset] \in Mail \cup {NoMail}
<1>1. out_offset' = IF out_offset + 1 = Size THEN 0 ELSE out_offset + 1
  BY RingFacts DEF Wrap
<1>2. out_offset' \in Slot /\ entry' \in 0..Size
  BY <1>1, RingFacts DEF Slot
<1>3. \A i \in 1..Size : Place(i)' = Place(i + 1)
  BY <1>1, RingFacts DEF Place
<1>4. RingOK'
  <2>1. in_offset' = IF out_offset' + (entry' + 1) - 1 < Size
                     THEN out_offset' + (entry' + 1) - 1
                     ELSE (out_offset' + (entry' + 1) - 1) - Size
    BY <1>1, RingFacts DEF Place
  <2> QED BY <1>2, <2>1 DEF RingOK, Place
<1>5. QueueIs /\ QueueIs'
  BY <1>4, QueueFacts, PTL
<1>6. \A i \in 1..(entry - 1) : Queue'[i] = Queue[i + 1]
  <2> TAKE i \in 1..(entry - 1)
  <2>1. i \in 1..Size /\ i + 1 \in 1..entry
    BY RingFacts
  <2> QED BY <1>3, <1>5, <2>1 DEF QueueIs
<1>7. Queue # <<>> /\ Head(Queue) = msg_pool[out_offset]
  <2>1. Queue # <<>> /\ Head(Queue) = Queue[1] /\ 1 \in 1..entry
    BY <1>5, RingFacts DEF QueueIs
  <2>2. Place(1) = out_offset
    BY RingFacts DEF Place
  <2> QED BY <1>5, <2>1, <2>2 DEF QueueIs
<1>8. Queue' = Tail(Queue)
  <2>1. LET r == Tail(Queue)
        IN /\ r \in Seq(Mail \cup {NoMail}) /\ Len(r) = Len(Queue) - 1
           /\ \A i \in 1..(Len(Queue) - 1) : r[i] = Queue[i + 1]
    BY <1>5, <1>7, TailElements DEF QueueIs
  <2>2. Queue' \in Seq(Mail \cup {NoMail}) /\ Len(Queue') = entry - 1 /\ Len(Queue) = entry
    BY <1>5 DEF QueueIs
  <2> QED BY <1>6, <2>1, <2>2, SameSeq
<1>9. msg_pool[out_offset] \in Mail \cup {NoMail}
  BY DEF RingOK
<1> QED BY <1>4, <1>7, <1>8, <1>9

\* A mail is put in front of the first one.
LEMMA UrgentRing ==
  ASSUME RingOK, entry < Size, NEW v \in Mail,
         out_offset' = (IF out_offset > 0 THEN out_offset - 1 ELSE Size - 1),
         msg_pool' = [msg_pool EXCEPT ![out_offset'] = v],
         entry' = entry + 1, in_offset' = in_offset
  PROVE  RingOK' /\ Queue' = <<v>> \o Queue /\ Len(Queue) = entry
<1>1. out_offset' \in Slot /\ entry' \in 0..Size
  BY RingFacts DEF Slot
<1>2. msg_pool' \in [Slot -> Mail \cup {NoMail}]
  BY DEF RingOK
<1>3. \A i \in 1..Size : Place(i + 1)' = Place(i)
  BY RingFacts DEF Place
<1>4. RingOK'
  <2>1. in_offset' = IF out_offset' + (entry' + 1) - 1 < Size
                     THEN out_offset' + (entry' + 1) - 1
                     ELSE (out_offset' + (entry' + 1) - 1) - Size
    BY RingFacts DEF Place
  <2> QED BY <1>1, <1>2, <2>1 DEF RingOK, Place
<1>5. QueueIs /\ QueueIs'
  BY <1>4, QueueFacts, PTL
<1>6. \A i \in 1..(entry + 1) : Queue'[i] = IF i = 1 THEN v ELSE Queue[i - 1]
  <2> TAKE i \in 1..(entry + 1)
  <2>1. Queue'[i] = msg_pool'[Place(i)']
    BY <1>5 DEF QueueIs
  <2>2. Place(1)' = out_offset'
    BY <1>1, RingFacts DEF Place, Slot
  <2>3. CASE i = 1
    BY <1>1, <2>1, <2>2, <2>3 DEF RingOK
  <2>4. CASE i # 1
    <3>1. i - 1 \in 1..entry /\ i - 1 \in 1..(Size + 1) /\ i - 1 \in 1..Size /\ (i - 1) + 1 = i
      BY <2>4, RingFacts
    <3>2. Place(i)' = Place(i - 1) /\ Place(i - 1) \in Slot
      BY <1>3, <3>1, RingFacts
    <3>3. Place(i - 1) # out_offset'
      BY <3>1, RingFacts DEF Place
    <3>4. Queue[i - 1] = msg_pool[Place(i - 1)]
      BY <1>5, <3>1 DEF QueueIs
    <3> QED BY <1>1, <2>1, <2>4, <3>2, <3>3, <3>4 DEF RingOK
  <2> QED BY <2>3, <2>4
<1>7. Queue' = <<v>> \o Queue
  <2>1. LET r == <<v>> \o Queue
        IN /\ r \in Seq(Mail \cup {NoMail}) /\ Len(r) = Len(Queue) + 1
           /\ \A i \in 1..(Len(Queue) + 1) : r[i] = IF i = 1 THEN v ELSE Queue[i - 1]
    BY <1>5, FrontElements DEF QueueIs
  <2>2. Queue' \in Seq(Mail \cup {NoMail}) /\ Len(Queue') = entry + 1 /\ Len(Queue) = entry
    BY <1>5 DEF QueueIs
  <2> QED BY <1>6, <2>1, <2>2, SameSeq
<1> QED BY <1>4, <1>5, <1>7 DEF QueueIs

\* The ring is emptied.
LEMMA ClearRing ==
  ASSUME RingOK, Cleared, msg_pool' = msg_pool
  PROVE  RingOK' /\ Queue' = <<>>
<1>1. entry' = 0 /\ in_offset' = 0 /\ out_offset' = 0 /\ 0 \in Slot
  BY RingFacts DEF Cleared, Slot
<1>2. RingOK'
  BY <1>1, RingFacts DEF RingOK, Place
<1>3. QueueIs'
  BY <1>2, QueueFacts, PTL
<1> QED BY <1>1, <1>2, <1>3 DEF QueueIs

\* The ring is left alone.
LEMMA SameRing ==
  ASSUME RingOK, UNCHANGED mb
  PROVE  RingOK' /\ Queue' = Queue
BY DEF RingOK, mb, Place, Queue

-----------------------------------------------------------------------------
(* The threads of a step *)

\* The threads W, all suspended, stop waiting with the error e; the threads X,
\* none of which is, leave their calls; nobody enters one.
Moves(W, e, X) ==
  /\ Orderly(k') /\ pc' \in [Thread -> PC]
  /\ \A o \in WaitObj : ToSet(k'.wait[o]) = ToSet(k.wait[o]) \ W
  /\ \A t \in Thread : t \notin X => k'.error[t] = IF t \in W THEN e ELSE k.error[t]
  /\ \A t \in Thread : Suspended(k', t) <=> Suspended(k, t) /\ t \notin W
  /\ \A t \in W : t \in Thread /\ Suspended(k, t)
  /\ \A t \in X : t \in Thread /\ ~Suspended(k, t)
  /\ \A t \in Thread : /\ InRecv(t)' <=> InRecv(t) /\ t \notin X
                       /\ InSend(t)' <=> InSend(t) /\ t \notin X
                       /\ InSend(t)' => arg'[t].mail = arg[t].mail

\* the waiter that is woken of those in the list of o
Woke(o) == IF HasWaiter(k, o) THEN {Head(k.wait[o])} ELSE {}

Typed == /\ alive \in BOOLEAN
         /\ arg \in [Thread -> [mail : Mail \cup {NoMail}, timed : BOOLEAN]]
         /\ got \in [Thread -> Mail \cup {NoMail}]

LEMMA InvFacts ==
  ASSUME Inv
  PROVE  /\ Orderly(k) /\ k.cur \in Thread /\ k.error \in [Thread -> Error]
         /\ Receivers \in WaitObj /\ Senders \in WaitObj /\ Receivers # Senders
         /\ WaitObj = {Receivers, Senders}
         /\ pc \in [Thread -> PC] /\ RingOK /\ Typed
         /\ Leaves /\ ~InSend(Idle) /\ ~InRecv(Idle)
         /\ \A t \in Thread : /\ Waits(k, t, Receivers) <=> InRecv(t) /\ Suspended(k, t)
                              /\ Waits(k, t, Senders) <=> InSend(t) /\ Suspended(k, t)
                              /\ InSend(t) => arg[t].mail \in Mail
                              /\ ~(InSend(t) /\ InRecv(t))
         /\ HasWaiter(k, Receivers) => entry <= Cardinality(RecvComing)
         /\ HasWaiter(k, Senders) => Size - entry <= Cardinality(SendComing)
         /\ IsFiniteSet(RecvComing) /\ Cardinality(RecvComing) \in Nat
         /\ IsFiniteSet(SendComing) /\ Cardinality(SendComing) \in Nat
<1>1. /\ Receivers \in WaitObj /\ Senders \in WaitObj /\ Receivers # Senders
      /\ WaitObj = {Receivers, Senders}
  BY MailboxAssumption
<1>2. Orderly(k) /\ k.cur \in Thread /\ k.error \in [Thread -> Error]
  BY OrderlyFacts DEF Inv, Consistent
<1>3. pc \in [Thread -> PC] /\ RingOK /\ Typed
  BY DEF Inv, Consistent, TypeOK, RingOK, Typed
<1>4. Leaves /\ ~InSend(Idle) /\ ~InRecv(Idle)
  BY DEF Inv, Consistent
<1>5. ASSUME NEW t \in Thread
      PROVE  /\ Waits(k, t, Receivers) <=> InRecv(t) /\ Suspended(k, t)
             /\ Waits(k, t, Senders) <=> InSend(t) /\ Suspended(k, t)
             /\ InSend(t) => arg[t].mail \in Mail
  BY DEF Inv, Consistent
<1>6. \A t \in Thread : ~(InSend(t) /\ InRecv(t))
  BY DEF InSend, InRecv
<1>7. /\ HasWaiter(k, Receivers) => entry <= Cardinality(RecvComing)
      /\ HasWaiter(k, Senders) => Size - entry <= Cardinality(SendComing)
  BY DEF Inv, NoWakeUpLost, RecvComing, SendComing
<1>8. /\ IsFiniteSet(RecvComing) /\ Cardinality(RecvComing) \in Nat
      /\ IsFiniteSet(SendComing) /\ Cardinality(SendComing) \in Nat
  <2>1. RecvComing \subseteq Thread /\ SendComing \subseteq Thread
    BY DEF RecvComing, SendComing
  <2>2. IsFiniteSet(RecvComing) /\ IsFiniteSet(SendComing)
    BY <2>1, FS_Subset
  <2> QED BY <2>2, FS_CardinalityType
<1> QED BY <1>1, <1>2, <1>3, <1>4, <1>5, <1>6, <1>7, <1>8

\* Who comes after a step for a mail or a place, and who still waits.
LEMMA MovesLemma ==
  ASSUME Inv, NEW W, NEW e, NEW X, Moves(W, e, X)
  PROVE  /\ RecvComing' = (RecvComing \ X) \cup {t \in W : e = "EOK" /\ InRecv(t)}
         /\ SendComing' = (SendComing \ X) \cup {t \in W : e = "EOK" /\ InSend(t)}
         /\ \A o \in WaitObj : HasWaiter(k', o) => HasWaiter(k, o)
         /\ IsFiniteSet(RecvComing') /\ Cardinality(RecvComing') \in Nat
         /\ IsFiniteSet(SendComing') /\ Cardinality(SendComing') \in Nat
         /\ \A t \in Thread : /\ Waits(k', t, Receivers) <=> InRecv(t)' /\ Suspended(k', t)
                              /\ Waits(k', t, Senders) <=> InSend(t)' /\ Suspended(k', t)
                              /\ InSend(t)' => arg'[t].mail \in Mail
<1>1. ASSUME NEW t \in Thread
      PROVE  /\ Waits(k', t, Receivers) <=> Waits(k, t, Receivers) /\ t \notin W
             /\ Waits(k', t, Senders) <=> Waits(k, t, Senders) /\ t \notin W
  BY InvFacts DEF Moves, Waits
<1>2. ASSUME NEW t \in Thread
      PROVE  /\ t \in RecvComing' <=> \/ t \in RecvComing /\ t \notin X
                                      \/ t \in W /\ e = "EOK" /\ InRecv(t)
             /\ t \in SendComing' <=> \/ t \in SendComing /\ t \notin X
                                      \/ t \in W /\ e = "EOK" /\ InSend(t)
  <2>1. /\ t \in RecvComing' <=> InRecv(t)' /\ ~Suspended(k', t) /\ k'.error[t] = "EOK"
        /\ t \in RecvComing <=> InRecv(t) /\ ~Suspended(k, t) /\ k.error[t] = "EOK"
        /\ t \in SendComing' <=> InSend(t)' /\ ~Suspended(k', t) /\ k'.error[t] = "EOK"
        /\ t \in SendComing <=> InSend(t) /\ ~Suspended(k, t) /\ k.error[t] = "EOK"
    BY DEF RecvComing, SendComing, Comes
  <2>2. /\ t \notin X => k'.error[t] = IF t \in W THEN e ELSE k.error[t]
        /\ Suspended(k', t) <=> Suspended(k, t) /\ t \notin W
        /\ t \in W => Suspended(k, t)
        /\ t \in X => ~Suspended(k, t)
        /\ InRecv(t)' <=> InRecv(t) /\ t \notin X
        /\ InSend(t)' <=> InSend(t) /\ t \notin X
    BY DEF Moves
  <2> QED BY <2>1, <2>2
<1>3. RecvComing \subseteq Thread /\ SendComing \subseteq Thread
      /\ RecvComing' \subseteq Thread /\ SendComing' \subseteq Thread
      /\ W \subseteq Thread
  BY DEF RecvComing, SendComing, Moves
<1>4. RecvComing' = (RecvComing \ X) \cup {t \in W : e = "EOK" /\ InRecv(t)}
  BY <1>2, <1>3
<1>5. SendComing' = (SendComing \ X) \cup {t \in W : e = "EOK" /\ InSend(t)}
  BY <1>2, <1>3
<1>6. ASSUME NEW o \in WaitObj, HasWaiter(k', o)
      PROVE  HasWaiter(k, o)
  <2>1. /\ ToSet(k'.wait[o]) = ToSet(k.wait[o]) \ W
        /\ HasWaiter(k', o) <=> ToSet(k'.wait[o]) # {}
        /\ HasWaiter(k, o) <=> ToSet(k.wait[o]) # {}
    BY InvFacts, OrderlyFacts DEF Moves
  <2> QED BY <1>6, <2>1
<1>7. /\ IsFiniteSet(RecvComing') /\ Cardinality(RecvComing') \in Nat
      /\ IsFiniteSet(SendComing') /\ Cardinality(SendComing') \in Nat
  <2>1. IsFiniteSet(RecvComing') /\ IsFiniteSet(SendComing')
    BY <1>3, FS_Subset
  <2> QED BY <2>1, FS_CardinalityType
<1>8. ASSUME NEW t \in Thread
      PROVE  /\ Waits(k', t, Receivers) <=> InRecv(t)' /\ Suspended(k', t)
             /\ Waits(k', t, Senders) <=> InSend(t)' /\ Suspended(k', t)
             /\ InSend(t)' => arg'[t].mail \in Mail
  BY <1>1, InvFacts DEF Moves
<1> QED BY <1>4, <1>5, <1>6, <1>7, <1>8

\* What a step must do so that the invariant holds again.
LEMMA InvStep ==
  ASSUME Inv, NEW W, NEW e, NEW X, Moves(W, e, X), Leaves', RingOK', Typed',
         HasWaiter(k', Receivers) => entry' <= Cardinality(RecvComing'),
         HasWaiter(k', Senders) => Size - entry' <= Cardinality(SendComing')
  PROVE  Inv'
<1>1. TypeOK'
  <2>1. k' \in Kernel
    BY OrderlyFacts DEF Moves
  <2> QED BY <2>1 DEF TypeOK, RingOK, Typed, Moves
<1>2. ~InSend(Idle)' /\ ~InRecv(Idle)'
  BY InvFacts DEF Moves
<1>3. Consistent'
  <2>1. \A t \in Thread : /\ Waits(k', t, Receivers) <=> InRecv(t)' /\ Suspended(k', t)
                          /\ Waits(k', t, Senders) <=> InSend(t)' /\ Suspended(k', t)
                          /\ InSend(t)' => arg'[t].mail \in Mail
    BY MovesLemma
  <2>2. Orderly(k')
    BY DEF Moves
  <2>3. (in_offset = Place(entry + 1))'
    BY DEF RingOK
  <2> QED BY <1>1, <1>2, <2>1, <2>2, <2>3 DEF Consistent
<1>4. NoWakeUpLost'
  BY DEF NoWakeUpLost, RecvComing, SendComing
<1> QED BY <1>3, <1>4 DEF Inv

\* The ring stays as it is, and nobody who comes turns away.
LEMMA StayStep ==
  ASSUME Inv, NEW W, NEW e, NEW X, Moves(W, e, X), Leaves', Typed', UNCHANGED mb, got' = got,
         \A t \in X : t \notin RecvComing /\ t \notin SendComing
  PROVE  Inv' /\ UNCHANGED Abs!vars
<1>1. RingOK' /\ Queue' = Queue
  BY SameRing, InvFacts
<1>2. RecvComing \subseteq RecvComing' /\ SendComing \subseteq SendComing'
  BY MovesLemma
<1>3. /\ Cardinality(RecvComing) <= Cardinality(RecvComing')
      /\ Cardinality(SendComing) <= Cardinality(SendComing')
  BY <1>2, MovesLemma, FS_Subset
<1>4. entry' = entry /\ entry \in Nat /\ Size \in Nat
  BY InvFacts, RingFacts DEF mb
<1>5. HasWaiter(k', Receivers) => entry' <= Cardinality(RecvComing')
  BY <1>3, <1>4, MovesLemma, InvFacts
<1>6. HasWaiter(k', Senders) => Size - entry' <= Cardinality(SendComing')
  BY <1>3, <1>4, MovesLemma, InvFacts
<1>7. Inv'
  BY <1>1, <1>5, <1>6, InvStep
<1> QED BY <1>1, <1>7 DEF Abs!vars, Queue

\* A set that loses one element at most, and one that gains one.
LEMMA LoseOne ==
  ASSUME NEW A, NEW B, NEW t, IsFiniteSet(A), IsFiniteSet(B), A \ {t} \subseteq B
  PROVE  Cardinality(A) <= Cardinality(B) + 1
<1>1. /\ IsFiniteSet(A \ {t})
      /\ Cardinality(A \ {t}) = IF t \in A THEN Cardinality(A) - 1 ELSE Cardinality(A)
  BY FS_RemoveElement
<1>2. Cardinality(A \ {t}) <= Cardinality(B)
  BY FS_Subset
<1>3. Cardinality(A) \in Nat /\ Cardinality(B) \in Nat
  BY FS_CardinalityType
<1> QED BY <1>1, <1>2, <1>3

LEMMA GainOne ==
  ASSUME NEW A, NEW B, NEW t, IsFiniteSet(A), t \notin A, B = A \cup {t}
  PROVE  Cardinality(B) = Cardinality(A) + 1
BY FS_AddElement

\* A mail more, and a receiver woken for it, unless none waits.
LEMMA PutStep ==
  ASSUME Inv, NEW t, NEW X, X \subseteq {t}, Moves(Woke(Receivers), "EOK", X),
         \A u \in X : u \notin RecvComing, entry' = entry + 1,
         Leaves', Typed', RingOK'
  PROVE  Inv'
<1> DEFINE u == Head(k.wait[Receivers])
<1>1. entry \in Nat /\ Size \in Nat
  BY InvFacts, RingFacts
<1>2. HasWaiter(k', Receivers) => entry' <= Cardinality(RecvComing')
  <2> SUFFICES ASSUME HasWaiter(k', Receivers) PROVE entry' <= Cardinality(RecvComing')
    OBVIOUS
  <2>1. HasWaiter(k, Receivers) /\ Woke(Receivers) = {u}
    BY MovesLemma, InvFacts DEF Woke
  <2>2. u \in Thread /\ Waits(k, u, Receivers)
    BY <2>1, InvFacts, OrderlyFacts DEF Waits
  <2> HIDE DEF u
  <2>3. InRecv(u) /\ u \notin RecvComing
    BY <2>2, InvFacts DEF RecvComing, Comes
  <2>4. RecvComing' = RecvComing \cup {u}
    BY <2>1, <2>3, MovesLemma
  <2>5. Cardinality(RecvComing') = Cardinality(RecvComing) + 1
    BY <2>3, <2>4, InvFacts, GainOne
  <2> QED BY <1>1, <2>1, <2>5, InvFacts
<1>3. HasWaiter(k', Senders) => Size - entry' <= Cardinality(SendComing')
  <2>1. SendComing \ {t} \subseteq SendComing'
    BY MovesLemma
  <2>2. Cardinality(SendComing) <= Cardinality(SendComing') + 1
    BY <2>1, MovesLemma, InvFacts, LoseOne
  <2> QED BY <1>1, <2>2, MovesLemma, InvFacts
<1> QED BY <1>2, <1>3, InvStep

\* A mail less, and a sender woken for its place.
LEMMA GetStep ==
  ASSUME Inv, NEW t, NEW X, X \subseteq {t}, Moves(Woke(Senders), "EOK", X),
         \A u \in X : u \notin SendComing, entry' = entry - 1,
         Leaves', Typed', RingOK'
  PROVE  Inv'
<1> DEFINE u == Head(k.wait[Senders])
<1>1. entry \in Nat /\ Size \in Nat
  BY InvFacts, RingFacts
<1>2. HasWaiter(k', Senders) => Size - entry' <= Cardinality(SendComing')
  <2> SUFFICES ASSUME HasWaiter(k', Senders) PROVE Size - entry' <= Cardinality(SendComing')
    OBVIOUS
  <2>1. HasWaiter(k, Senders) /\ Woke(Senders) = {u}
    BY MovesLemma, InvFacts DEF Woke
  <2>2. u \in Thread /\ Waits(k, u, Senders)
    BY <2>1, InvFacts, OrderlyFacts DEF Waits
  <2> HIDE DEF u
  <2>3. InSend(u) /\ u \notin SendComing
    BY <2>2, InvFacts DEF SendComing, Comes
  <2>4. SendComing' = SendComing \cup {u}
    BY <2>1, <2>3, MovesLemma
  <2>5. Cardinality(SendComing') = Cardinality(SendComing) + 1
    BY <2>3, <2>4, InvFacts, GainOne
  <2> QED BY <1>1, <2>1, <2>5, InvFacts
<1>3. HasWaiter(k', Receivers) => entry' <= Cardinality(RecvComing')
  <2>1. RecvComing \ {t} \subseteq RecvComing'
    BY MovesLemma
  <2>2. Cardinality(RecvComing) <= Cardinality(RecvComing') + 1
    BY <2>1, MovesLemma, InvFacts, LoseOne
  <2> QED BY <1>1, <2>2, MovesLemma, InvFacts
<1> QED BY <1>2, <1>3, InvStep

-----------------------------------------------------------------------------
(* The kinds of steps of a thread *)

LEMMA AtFacts ==
  ASSUME Inv, NEW t, NEW l, At(t, l)
  PROVE  /\ t = k.cur /\ t \in Thread /\ pc[t] = l
         /\ InRecv(t) <=> l \in {"recvSched", "recvWoken"}
         /\ InSend(t) <=> l \in {"sendSched", "sendWoken"}
         /\ l \notin {"sendSched", "recvSched"} => ~Suspended(k, t)
BY InvFacts DEF At, InRecv, InSend, Leaves

\* The current thread goes on outside a call, and the threads W are woken.
LEMMA LeaveStep ==
  ASSUME Inv, NEW t \in Thread, NEW l \in PC, Goto(t, l), t = k.cur, ~Suspended(k, t),
         l \notin {"recvSched", "recvWoken", "sendSched", "sendWoken"},
         \A u \in Thread : u # t => arg'[u] = arg[u],
         NEW W, NEW e, Orderly(k'), Awakened(k', k, W, e), k'.cur = k.cur,
         \A u \in W : u \in Thread /\ Suspended(k, u)
  PROVE  Moves(W, e, {t}) /\ Leaves'
<1>1. pc' = [pc EXCEPT ![t] = l] /\ pc \in [Thread -> PC]
  BY InvFacts DEF Goto
<1>2. pc' \in [Thread -> PC]
  BY <1>1
<1>3. ASSUME NEW u \in Thread
      PROVE  /\ InRecv(u)' <=> InRecv(u) /\ u \notin {t}
             /\ InSend(u)' <=> InSend(u) /\ u \notin {t}
             /\ InSend(u)' => arg'[u].mail = arg[u].mail
  BY <1>1 DEF InRecv, InSend
<1>4. Moves(W, e, {t})
  BY <1>2, <1>3 DEF Moves, Awakened
<1>5. Leaves'
  BY DEF Leaves, Awakened
<1> QED BY <1>4, <1>5

\* A step of the kernel that no function of the mailbox takes part in.
LEMMA KernelStep ==
  ASSUME Inv, NEW W, NEW e, Orderly(k'), Awakened(k', k, W, e),
         \A u \in W : u \in Thread /\ Suspended(k, u),
         Suspended(k', k'.cur) => k'.cur = k.cur,
         pc' = pc, arg' = arg
  PROVE  Moves(W, e, {}) /\ Leaves'
<1>1. \A u \in Thread : (InRecv(u)' <=> InRecv(u)) /\ (InSend(u)' <=> InSend(u))
  BY DEF InRecv, InSend
<1>2. Moves(W, e, {})
  BY <1>1, InvFacts DEF Moves, Awakened
<1>3. k'.cur \in Thread
  BY OrderlyFacts
<1>4. Leaves'
  BY <1>3, InvFacts DEF Leaves, Awakened
<1> QED BY <1>2, <1>4

\* The kernel as it is.
LEMMA SameKernel ==
  ASSUME Inv, k' = k
  PROVE  Orderly(k') /\ Awakened(k', k, {}, "EOK") /\ k'.cur = k.cur
BY InvFacts DEF Awakened

\* The end of a send or a receive wakes the first waiter of the other side.
LEMMA WakingLemma ==
  ASSUME Inv, NEW o \in WaitObj
  PROVE  LET n == Waking(o)
         IN /\ Orderly(n) /\ Awakened(n, k, Woke(o), "EOK") /\ n.cur = k.cur
            /\ \A u \in Woke(o) : u \in Thread /\ Suspended(k, u)
<1>1. CASE ~HasWaiter(k, o)
  BY <1>1, InvFacts DEF Waking, Woke, Awakened
<1>2. CASE HasWaiter(k, o)
  <2> DEFINE n == ResumeFirst(k, o)
             u == Head(k.wait[o])
  <2>1. /\ Orderly(n) /\ Awakened(n, k, {u}, "EOK") /\ n.cur = k.cur
        /\ u \in Thread /\ u \in ToSet(k.wait[o]) /\ Suspended(k, u)
    BY <1>2, InvFacts, ResumeFirstOrderly
  <2>2. Waking(o) = n /\ Woke(o) = {u}
    BY <1>2 DEF Waking, Woke
  <2> HIDE DEF n, u
  <2> QED BY <2>1, <2>2
<1> QED BY <1>1, <1>2

\* The critical section of a send, with what the caller does afterwards.
LEMMA ThreadPut ==
  ASSUME Inv, NEW t \in Thread, t = k.cur, ~Suspended(k, t), t \notin RecvComing,
         WakeOne(Receivers), AfterWake(t, Receivers),
         entry' = entry + 1, RingOK', Typed', \A u \in Thread : u # t => arg'[u] = arg[u]
  PROVE  Inv'
<1>1. /\ Orderly(k') /\ Awakened(k', k, Woke(Receivers), "EOK") /\ k'.cur = k.cur
      /\ \A u \in Woke(Receivers) : u \in Thread /\ Suspended(k, u)
  BY WakingLemma, InvFacts DEF WakeOne
<1>2. \E l \in {"run", "sched"} : Goto(t, l)
  BY DEF AfterWake
<1>3. Moves(Woke(Receivers), "EOK", {t}) /\ Leaves'
  <2>1. \A l \in {"run", "sched"} :
          l \in PC /\ l \notin {"recvSched", "recvWoken", "sendSched", "sendWoken"}
    BY DEF PC
  <2> QED BY <1>1, <1>2, <2>1, LeaveStep
<1> QED BY <1>3, PutStep

LEMMA ThreadGet ==
  ASSUME Inv, NEW t \in Thread, t = k.cur, ~Suspended(k, t), t \notin SendComing,
         WakeOne(Senders), AfterWake(t, Senders),
         entry' = entry - 1, RingOK', Typed', \A u \in Thread : u # t => arg'[u] = arg[u]
  PROVE  Inv'
<1>1. /\ Orderly(k') /\ Awakened(k', k, Woke(Senders), "EOK") /\ k'.cur = k.cur
      /\ \A u \in Woke(Senders) : u \in Thread /\ Suspended(k, u)
  BY WakingLemma, InvFacts DEF WakeOne
<1>2. \E l \in {"run", "sched"} : Goto(t, l)
  BY DEF AfterWake
<1>3. Moves(Woke(Senders), "EOK", {t}) /\ Leaves'
  <2>1. \A l \in {"run", "sched"} :
          l \in PC /\ l \notin {"recvSched", "recvWoken", "sendSched", "sendWoken"}
    BY DEF PC
  <2> QED BY <1>1, <1>2, <2>1, LeaveStep
<1> QED BY <1>3, GetStep

\* What is left over from a call is dropped.
LEMMA EndCallFacts ==
  ASSUME Inv, NEW t \in Thread, EndCall(t)
  PROVE  /\ arg' \in [Thread -> [mail : Mail \cup {NoMail}, timed : BOOLEAN]]
         /\ \A u \in Thread : u # t => arg'[u] = arg[u]
<1>1. arg' = [arg EXCEPT ![t] = NoCall]
  BY DEF EndCall
<1>2. arg \in [Thread -> [mail : Mail \cup {NoMail}, timed : BOOLEAN]]
      /\ NoCall \in [mail : Mail \cup {NoMail}, timed : BOOLEAN]
  BY InvFacts DEF Typed, NoCall
<1> QED BY <1>1, <1>2

-----------------------------------------------------------------------------
(* The actions *)

\* rt_mb_send_wait of a mail that there is a place for
LEMMA SendStep ==
  ASSUME Inv, NEW t \in Thread, NEW v \in Mail, At(t, "run") \/ At(t, "sendWoken"),
         PutSection(v), EndCall(t), AfterWake(t, Receivers)
  PROVE  Inv' /\ Abs!Send(v)
<1>1. t = k.cur /\ ~Suspended(k, t) /\ t \notin RecvComing
  BY AtFacts DEF RecvComing
<1>2. /\ ~Full /\ msg_pool' = [msg_pool EXCEPT ![in_offset] = v]
      /\ in_offset' = Wrap(in_offset + 1) /\ entry' = entry + 1
      /\ WakeOne(Receivers) /\ out_offset' = out_offset /\ alive' = alive /\ got' = got
  BY DEF PutSection
<1>3. entry < Size
  BY <1>2, InvFacts, RingFacts DEF Full
<1>4. RingOK' /\ Queue' = Append(Queue, v) /\ Len(Queue) = entry
  BY <1>2, <1>3, InvFacts, PutRing
<1>5. Typed'
  BY <1>2, EndCallFacts, InvFacts DEF Typed
<1>6. Inv'
  BY <1>1, <1>2, <1>4, <1>5, EndCallFacts, ThreadPut
<1>7. Len(Queue) < Size /\ Queue' = Append(Queue, v) /\ got' = got
  BY <1>2, <1>3, <1>4
<1> QED BY <1>6, <1>7 DEF Abs!Send, Queue

\* rt_mb_recv of a mail that is there
LEMMA ReceiveStep ==
  ASSUME Inv, NEW t \in Thread, At(t, "run") \/ At(t, "recvWoken"),
         GetSection(t), AfterWake(t, Senders)
  PROVE  Inv' /\ Abs!Receive(t)
<1>1. t = k.cur /\ ~Suspended(k, t) /\ t \notin SendComing
  BY AtFacts DEF SendComing
<1>2. /\ entry > 0 /\ msg_pool' = msg_pool /\ in_offset' = in_offset
      /\ out_offset' = Wrap(out_offset + 1) /\ entry' = entry - 1
      /\ got' = [got EXCEPT ![t] = msg_pool[out_offset]]
      /\ WakeOne(Senders) /\ EndCall(t) /\ alive' = alive
  BY DEF GetSection
<1>3. /\ RingOK' /\ Queue' = Tail(Queue) /\ Queue # <<>> /\ Head(Queue) = msg_pool[out_offset]
      /\ msg_pool[out_offset] \in Mail \cup {NoMail}
  BY <1>2, InvFacts, GetRing
<1>4. Typed'
  BY <1>2, <1>3, EndCallFacts, InvFacts DEF Typed
<1>5. Inv'
  BY <1>1, <1>2, <1>3, <1>4, EndCallFacts, ThreadGet
<1>6. Queue # <<>> /\ Queue' = Tail(Queue) /\ got' = [got EXCEPT ![t] = Head(Queue)]
  BY <1>2, <1>3
<1> QED BY <1>5, <1>6 DEF Abs!Receive, Queue

\* rt_mb_urgent
LEMMA UrgentStep ==
  ASSUME Inv, NEW t \in Thread, NEW v \in Mail, Urgent(t, v)
  PROVE  Inv' /\ Abs!SendUrgent(v)
<1>1. /\ At(t, "run") /\ ~Full
      /\ out_offset' = (IF out_offset > 0 THEN out_offset - 1 ELSE Size - 1)
      /\ msg_pool' = [msg_pool EXCEPT ![out_offset'] = v]
      /\ entry' = entry + 1 /\ WakeOne(Receivers) /\ AfterWake(t, Receivers)
      /\ in_offset' = in_offset /\ alive' = alive /\ arg' = arg /\ got' = got
  BY DEF Urgent, Calls
<1>2. t = k.cur /\ ~Suspended(k, t) /\ t \notin RecvComing
  BY <1>1, AtFacts DEF RecvComing
<1>3. entry < Size
  BY <1>1, InvFacts, RingFacts DEF Full
<1>4. RingOK' /\ Queue' = <<v>> \o Queue /\ Len(Queue) = entry
  BY <1>1, <1>3, InvFacts, UrgentRing
<1>5. Typed'
  BY <1>1, InvFacts DEF Typed
<1>6. Inv'
  BY <1>1, <1>2, <1>4, <1>5, ThreadPut
<1>7. Len(Queue) < Size /\ Queue' = <<v>> \o Queue /\ got' = got
  BY <1>1, <1>3, <1>4
<1> QED BY <1>6, <1>7 DEF Abs!SendUrgent, Queue

\* The current thread starts to wait: for a mail when there is none, for a place
\* when there is none.
LEMMA WaitStep ==
  ASSUME Inv, NEW t \in Thread, t = k.cur, ~Suspended(k, t), t # Idle,
         NEW o \in WaitObj, NEW timed, WaitOn(t, o, timed), NEW l, Goto(t, l),
         \/ o = Senders /\ l = "sendSched" /\ Full /\ ~InRecv(t) /\ arg'[t].mail \in Mail
         \/ o = Receivers /\ l = "recvSched" /\ entry = 0 /\ ~InSend(t),
         \A u \in Thread : u # t => arg'[u] = arg[u], UNCHANGED mb, Typed', got' = got
  PROVE  Inv' /\ UNCHANGED Abs!vars
<1>1. Orderly(k') /\ k'.cur = t /\ Sleeps(k', k, t, o, "EINTR")
  <2>1. Orderly(k) /\ t = k.cur /\ ~Suspended(k, t) /\ t # Idle /\ "EINTR" \in Error
    BY InvFacts DEF Error
  <2>2. k' = SleepFor(k, t, o, "EINTR", timed)
    BY DEF WaitOn, SleepFor
  <2> QED BY <2>1, <2>2, BlockOrderly
<1>2. pc' = [pc EXCEPT ![t] = l] /\ pc \in [Thread -> PC] /\ pc' \in [Thread -> PC]
  <2>1. l \in PC
    BY DEF PC
  <2> QED BY <2>1, InvFacts DEF Goto
<1>3. ASSUME NEW u \in Thread
      PROVE  /\ Waits(k', u, Receivers) <=> Waits(k, u, Receivers) \/ (u = t /\ o = Receivers)
             /\ Waits(k', u, Senders) <=> Waits(k, u, Senders) \/ (u = t /\ o = Senders)
             /\ Suspended(k', u) <=> Suspended(k, u) \/ u = t
             /\ k'.error[u] = IF u = t THEN "EINTR" ELSE k.error[u]
  <2>1. \A q \in WaitObj : ToSet(k'.wait[q]) = IF q = o THEN ToSet(k.wait[q]) \cup {t}
                                                      ELSE ToSet(k.wait[q])
    BY <1>1 DEF Sleeps
  <2>2. /\ Suspended(k', u) <=> Suspended(k, u) \/ u = t
        /\ k'.error[u] = IF u = t THEN "EINTR" ELSE k.error[u]
    BY <1>1 DEF Sleeps
  <2>3. /\ Waits(k', u, Receivers) <=> Waits(k, u, Receivers) \/ (u = t /\ o = Receivers)
        /\ Waits(k', u, Senders) <=> Waits(k, u, Senders) \/ (u = t /\ o = Senders)
    BY <2>1, InvFacts DEF Waits
  <2> QED BY <2>2, <2>3
<1>4. ASSUME NEW u \in Thread
      PROVE  /\ InRecv(u)' <=> InRecv(u) \/ (u = t /\ o = Receivers)
             /\ InSend(u)' <=> InSend(u) \/ (u = t /\ o = Senders)
  BY <1>2, InvFacts DEF InRecv, InSend
<1>5. ASSUME NEW u \in Thread
      PROVE  /\ Waits(k', u, Receivers) <=> InRecv(u)' /\ Suspended(k', u)
             /\ Waits(k', u, Senders) <=> InSend(u)' /\ Suspended(k', u)
             /\ InSend(u)' => arg'[u].mail \in Mail
  <2>1. /\ Waits(k, u, Receivers) <=> InRecv(u) /\ Suspended(k, u)
        /\ Waits(k, u, Senders) <=> InSend(u) /\ Suspended(k, u)
        /\ InSend(u) => arg[u].mail \in Mail
    BY InvFacts
  <2>2. CASE u = t
    BY <2>1, <2>2, <1>3, <1>4, InvFacts
  <2>3. CASE u # t
    BY <2>1, <2>3, <1>3, <1>4
  <2> QED BY <2>2, <2>3
<1>6. RingOK' /\ Queue' = Queue /\ entry' = entry
  BY SameRing, InvFacts DEF mb
<1>7. Consistent'
  <2>1. TypeOK'
    <3>1. k' \in Kernel
      BY <1>1, OrderlyFacts
    <3> QED BY <3>1, <1>2, <1>6 DEF TypeOK, RingOK, Typed
  <2>2. Leaves'
    BY <1>1, <1>2 DEF Leaves
  <2>3. ~InSend(Idle)' /\ ~InRecv(Idle)'
    BY <1>4, InvFacts
  <2>4. (in_offset = Place(entry + 1))'
    BY <1>6 DEF RingOK
  <2> QED BY <1>1, <1>5, <2>1, <2>2, <2>3, <2>4 DEF Consistent
<1>8. /\ o = Senders => RecvComing' = RecvComing
      /\ o = Receivers => SendComing' = SendComing
  <2>1. ASSUME NEW u \in Thread
        PROVE  Comes(u)' <=> Comes(u) /\ u # t
    BY <1>3 DEF Comes
  <2>2. CASE o = Senders
    <3>1. \A u \in Thread : InRecv(u)' <=> InRecv(u)
      BY <1>4, <2>2, InvFacts
    <3> QED BY <2>1, <2>2, <3>1, InvFacts DEF RecvComing
  <2>3. CASE o = Receivers
    <3>1. \A u \in Thread : InSend(u)' <=> InSend(u)
      BY <1>4, <2>3, InvFacts
    <3> QED BY <2>1, <2>3, <3>1, InvFacts DEF SendComing
  <2> QED BY <2>2, <2>3
<1>9. NoWakeUpLost'
  <2>1. entry \in Nat /\ Size \in Nat
    BY InvFacts, RingFacts
  <2>2. ASSUME NEW q \in WaitObj, q # o
        PROVE  HasWaiter(k', q) => HasWaiter(k, q)
    <3>1. /\ ToSet(k'.wait[q]) = ToSet(k.wait[q])
          /\ HasWaiter(k', q) <=> ToSet(k'.wait[q]) # {}
          /\ HasWaiter(k, q) <=> ToSet(k.wait[q]) # {}
      BY <1>1, <2>2, InvFacts, OrderlyFacts DEF Sleeps
    <3> QED BY <3>1
  <2>3. CASE o = Senders /\ Full
    <3>1. Size - entry' = 0 /\ Cardinality(SendComing') \in Nat
      <4>1. SendComing' \subseteq Thread
        BY DEF SendComing
      <4>2. IsFiniteSet(SendComing')
        BY <4>1, FS_Subset
      <4> QED BY <1>6, <2>1, <2>3, <4>2, FS_CardinalityType DEF Full
    <3>2. HasWaiter(k', Receivers) => entry' <= Cardinality(RecvComing')
      BY <1>6, <1>8, <2>2, <2>3, InvFacts
    <3> QED BY <3>1, <3>2 DEF NoWakeUpLost, RecvComing, SendComing
  <2>4. CASE o = Receivers /\ entry = 0
    <3>1. entry' = 0 /\ Cardinality(RecvComing') \in Nat
      <4>1. RecvComing' \subseteq Thread
        BY DEF RecvComing
      <4>2. IsFiniteSet(RecvComing')
        BY <4>1, FS_Subset
      <4> QED BY <1>6, <2>4, <4>2, FS_CardinalityType
    <3>2. HasWaiter(k', Senders) => Size - entry' <= Cardinality(SendComing')
      BY <1>6, <1>8, <2>2, <2>4, InvFacts
    <3> QED BY <3>1, <3>2 DEF NoWakeUpLost, RecvComing, SendComing
  <2> QED BY <2>3, <2>4
<1> QED BY <1>6, <1>7, <1>9 DEF Inv, Abs!vars, Queue

\* rt_mb_send_wait and rt_mb_recv up to the first rt_schedule
LEMMA FirstWaitStep ==
  ASSUME Inv, NEW t \in Thread, NEW timed \in Timed,
         RecvWait(t, timed) \/ \E v \in Mail : SendWait(t, v, timed)
  PROVE  Inv' /\ UNCHANGED Abs!vars
<1>1. timed \in BOOLEAN
  BY MailboxAssumption
<1>2. CASE RecvWait(t, timed)
  <2>1. /\ At(t, "run") /\ t # Idle /\ entry = 0 /\ WaitOn(t, Receivers, timed)
        /\ arg' = [arg EXCEPT ![t] = [mail |-> NoMail, timed |-> timed]]
        /\ Goto(t, "recvSched") /\ UNCHANGED <<mb, alive, got>>
    BY <1>2 DEF RecvWait, Calls
  <2>2. t = k.cur /\ ~Suspended(k, t) /\ ~InSend(t)
    BY <2>1, AtFacts
  <2>3. Typed' /\ \A u \in Thread : u # t => arg'[u] = arg[u]
    BY <1>1, <2>1, InvFacts DEF Typed
  <2>4. Receivers \in WaitObj
    BY InvFacts
  <2> QED BY <2>1, <2>2, <2>3, <2>4, WaitStep
<1>3. ASSUME NEW v \in Mail, SendWait(t, v, timed)
      PROVE  Inv' /\ UNCHANGED Abs!vars
  <2>1. /\ At(t, "run") /\ t # Idle /\ Full /\ WaitOn(t, Senders, timed)
        /\ arg' = [arg EXCEPT ![t] = [mail |-> v, timed |-> timed]]
        /\ Goto(t, "sendSched") /\ UNCHANGED <<mb, alive, got>>
    BY <1>3 DEF SendWait, Calls
  <2>2. t = k.cur /\ ~Suspended(k, t) /\ ~InRecv(t)
    BY <2>1, AtFacts
  <2>3. Typed' /\ (\A u \in Thread : u # t => arg'[u] = arg[u]) /\ arg'[t].mail \in Mail
    BY <1>1, <2>1, InvFacts DEF Typed
  <2>4. Senders \in WaitObj
    BY InvFacts
  <2> QED BY <2>1, <2>2, <2>3, <2>4, WaitStep
<1> QED BY <1>2, <1>3

\* a thread that finds that another one was faster
LEMMA WaitAgainStep ==
  ASSUME Inv, NEW t \in Thread, WaitAgain(t)
  PROVE  Inv' /\ UNCHANGED Abs!vars
<1>1. Typed' /\ (\A u \in Thread : u # t => arg'[u] = arg[u])
      /\ arg' = arg /\ UNCHANGED mb /\ got' = got
  BY InvFacts DEF WaitAgain, Typed
<1>2. Senders \in WaitObj /\ Receivers \in WaitObj
  BY InvFacts
<1>3. CASE /\ Woken(t, "sendWoken") /\ Full
           /\ WaitOn(t, Senders, arg[t].timed)
           /\ Goto(t, "sendSched")
  <2>1. t = k.cur /\ ~Suspended(k, t) /\ InSend(t)
    BY <1>3, AtFacts DEF Woken
  <2>2. ~InRecv(t) /\ t # Idle /\ arg'[t].mail \in Mail
    BY <1>1, <2>1, InvFacts
  <2> QED BY <1>1, <1>2, <1>3, <2>1, <2>2, WaitStep
<1>4. CASE /\ Woken(t, "recvWoken") /\ entry = 0
           /\ WaitOn(t, Receivers, arg[t].timed)
           /\ Goto(t, "recvSched")
  <2>1. t = k.cur /\ ~Suspended(k, t) /\ InRecv(t)
    BY <1>4, AtFacts DEF Woken
  <2>2. ~InSend(t) /\ t # Idle
    BY <2>1, InvFacts
  <2> QED BY <1>1, <1>2, <1>4, <2>1, <2>2, WaitStep
<1> QED BY <1>3, <1>4 DEF WaitAgain

\* a wait that ended with an error
LEMMA WaitFailedStep ==
  ASSUME Inv, NEW t \in Thread, WaitFailed(t)
  PROVE  Inv' /\ UNCHANGED Abs!vars
<1>1. /\ At(t, "sendWoken") \/ At(t, "recvWoken")
      /\ k.error[t] # "EOK" /\ Goto(t, "run") /\ EndCall(t) /\ UNCHANGED <<k, mb, alive, got>>
  BY DEF WaitFailed
<1>2. t = k.cur /\ ~Suspended(k, t)
  BY <1>1, AtFacts
<1>3. t \notin RecvComing /\ t \notin SendComing
  BY <1>1 DEF RecvComing, SendComing, Comes
<1>4. Typed'
  BY <1>1, EndCallFacts, InvFacts DEF Typed
<1>5. Moves({}, "EOK", {t}) /\ Leaves'
  <2>1. "run" \in PC
    BY DEF PC
  <2> QED BY <1>1, <1>2, <2>1, SameKernel, EndCallFacts, LeaveStep
<1> QED BY <1>1, <1>3, <1>4, <1>5, StayStep

\* a thread that finds that another one was faster, and has no time left
LEMMA TimeUsedUpStep ==
  ASSUME Inv, NEW t \in Thread, TimeUsedUp(t)
  PROVE  Inv' /\ UNCHANGED Abs!vars
<1>1. /\ \/ /\ Woken(t, "sendWoken") /\ Full
            /\ k' = [k EXCEPT !.error[t] = "EINTR"]
         \/ /\ Woken(t, "recvWoken") /\ entry = 0
            /\ k' = [k EXCEPT !.error[t] = "ETIMEOUT"]
      /\ Goto(t, "run") /\ EndCall(t) /\ UNCHANGED <<mb, alive, got>>
  BY DEF TimeUsedUp
<1>2. t = k.cur /\ ~Suspended(k, t)
  BY <1>1, AtFacts DEF Woken
<1>3. PICK e \in Error : k' = [k EXCEPT !.error[t] = e]
  BY <1>1 DEF Error
<1>4. /\ Orderly(k') /\ k'.cur = k.cur /\ k'.stat = k.stat /\ k'.wait = k.wait
      /\ k'.timer = k.timer
      /\ \A u \in Thread : k'.error[u] = IF u = t THEN e ELSE k.error[u]
  <2>1. InOrder(k, {}) /\ k' = SetError(k, t, e)
    BY <1>3, InvFacts DEF SetError
  <2> QED BY <2>1, ErrorOrderly
<1>5. pc' = [pc EXCEPT ![t] = "run"] /\ pc' \in [Thread -> PC]
  BY <1>1, InvFacts DEF Goto, PC
<1>6. ASSUME NEW u \in Thread
      PROVE  /\ InRecv(u)' <=> InRecv(u) /\ u \notin {t}
             /\ InSend(u)' <=> InSend(u) /\ u \notin {t}
             /\ InSend(u)' => arg'[u].mail = arg[u].mail
  <2>1. u # t => arg'[u] = arg[u]
    BY <1>1, EndCallFacts
  <2> QED BY <1>5, <2>1, InvFacts DEF InRecv, InSend
<1>7. Moves({}, "EOK", {t})
  <2>1. \A o \in WaitObj : ToSet(k'.wait[o]) = ToSet(k.wait[o]) \ {}
    BY <1>4
  <2>2. \A u \in Thread : /\ u \notin {t} => k'.error[u] = k.error[u]
                          /\ Suspended(k', u) <=> Suspended(k, u)
    BY <1>4 DEF Suspended
  <2> QED BY <1>2, <1>4, <1>5, <1>6, <2>1, <2>2 DEF Moves
<1>8. Leaves'
  BY <1>2, <1>4 DEF Leaves, Suspended
<1>9. Typed'
  BY <1>1, EndCallFacts, InvFacts DEF Typed
<1>10. RingOK' /\ Queue' = Queue /\ entry' = entry
  BY <1>1, SameRing, InvFacts DEF mb
<1>11. entry \in Nat /\ Size \in Nat
  BY InvFacts, RingFacts
<1>12. /\ Full => RecvComing' = RecvComing
       /\ entry = 0 => SendComing' = SendComing
  <2>1. \/ Full /\ ~InRecv(t)
        \/ entry = 0 /\ ~InSend(t)
    BY <1>1, AtFacts DEF Woken
  <2>2. Size # 0
    BY InvFacts, RingFacts
  <2>3. RecvComing' = RecvComing \ {t} /\ SendComing' = SendComing \ {t}
    BY <1>7, MovesLemma
  <2>4. (~InRecv(t) => t \notin RecvComing) /\ (~InSend(t) => t \notin SendComing)
    BY DEF RecvComing, SendComing
  <2>5. ~(Full /\ entry = 0)
    BY <2>2 DEF Full
  <2> QED BY <2>1, <2>3, <2>4, <2>5
<1>13. HasWaiter(k', Receivers) => entry' <= Cardinality(RecvComing')
  <2>1. CASE Full
    BY <2>1, <1>7, <1>10, <1>12, MovesLemma, InvFacts
  <2>2. CASE entry = 0
    BY <2>2, <1>7, <1>10, MovesLemma
  <2> QED BY <1>1, <2>1, <2>2
<1>14. HasWaiter(k', Senders) => Size - entry' <= Cardinality(SendComing')
  <2>1. CASE Full
    <3>1. Size - entry' = 0
      BY <2>1, <1>10, <1>11 DEF Full
    <3> QED BY <3>1, <1>7, MovesLemma
  <2>2. CASE entry = 0
    BY <2>2, <1>7, <1>10, <1>12, MovesLemma, InvFacts
  <2> QED BY <1>1, <2>1, <2>2
<1>15. Inv'
  BY <1>7, <1>8, <1>9, <1>10, <1>13, <1>14, InvStep
<1> QED BY <1>1, <1>10, <1>15 DEF Abs!vars, Queue

\* rt_mb_control(RT_IPC_CMD_RESET)
LEMMA ResetStep ==
  ASSUME Inv, NEW t \in Thread, Reset(t)
  PROVE  Inv' /\ Abs!Clear
<1> DEFINE m == ResumeAll(k, Receivers)
           n == ResumeAll(m, Senders)
           R == ToSet(k.wait[Receivers])
           S == ToSet(m.wait[Senders])
<1>1. /\ At(t, "run") /\ k' = n /\ Cleared /\ Goto(t, "sched")
      /\ msg_pool' = msg_pool /\ alive' = alive /\ arg' = arg /\ got' = got
  BY DEF Reset, Calls
<1>2. t = k.cur /\ ~Suspended(k, t) /\ ~InRecv(t) /\ ~InSend(t)
  BY <1>1, AtFacts
<1>3. Receivers \in WaitObj /\ Senders \in WaitObj /\ WaitObj = {Receivers, Senders} /\ Orderly(k)
  BY InvFacts
<1>4. Orderly(m) /\ Awakened(m, k, R, "ERROR") /\ m.cur = k.cur
  BY <1>3, ResumeAllOrderly
<1>5. Orderly(n) /\ Awakened(n, m, S, "ERROR") /\ n.cur = m.cur
  BY <1>3, <1>4, ResumeAllOrderly
<1>6. /\ \A u \in R : u \in Thread /\ Suspended(k, u)
      /\ \A u \in S : u \in Thread /\ Suspended(m, u)
  BY <1>3, <1>4, OrderlyFacts DEF Suspended
<1> HIDE DEF m, n, R, S
<1>7. Awakened(n, k, R \cup S, "ERROR")
  <2>1. \A o \in WaitObj : ToSet(n.wait[o]) = ToSet(k.wait[o]) \ (R \cup S)
    BY <1>4, <1>5 DEF Awakened
  <2>2. \A u \in Thread : n.error[u] = IF u \in R \cup S THEN "ERROR" ELSE k.error[u]
    BY <1>4, <1>5 DEF Awakened
  <2>3. \A u \in Thread : Suspended(n, u) <=> Suspended(k, u) /\ u \notin R \cup S
    BY <1>4, <1>5 DEF Awakened
  <2>4. n.timer \subseteq k.timer
    BY <1>4, <1>5 DEF Awakened
  <2> QED BY <2>1, <2>2, <2>3, <2>4 DEF Awakened
<1>8. \A u \in R \cup S : u \in Thread /\ Suspended(k, u)
  BY <1>4, <1>6 DEF Awakened
<1>9. Moves(R \cup S, "ERROR", {t}) /\ Leaves'
  <2>1. "sched" \in PC
    BY DEF PC
  <2> QED BY <1>1, <1>2, <1>4, <1>5, <1>7, <1>8, <2>1, LeaveStep
<1>10. ~HasWaiter(k', Receivers) /\ ~HasWaiter(k', Senders)
  <2>1. ToSet(n.wait[Receivers]) = {} /\ ToSet(n.wait[Senders]) = {}
    BY <1>3, <1>4, <1>5 DEF Awakened, R, S
  <2> QED BY <1>1, <1>3, <1>5, <2>1, OrderlyFacts
<1>11. RingOK' /\ Queue' = <<>>
  BY <1>1, InvFacts, ClearRing
<1>12. Typed'
  BY <1>1, InvFacts DEF Typed
<1>13. Inv'
  BY <1>9, <1>10, <1>11, <1>12, InvStep
<1> QED BY <1>1, <1>11, <1>13 DEF Abs!Clear, Queue

\* the steps of rt_mb_detach that look at a list or finish
LEMMA DetachStep ==
  ASSUME Inv, NEW t \in Thread, Detach(t) \/ DrainLook(t) \/ DetachObject(t)
  PROVE  Inv' /\ UNCHANGED Abs!vars
<1>1. /\ \E l \in {"run", "drainR", "drainS", "detachObject"} : At(t, l)
      /\ \E l \in {"run", "drainR", "oneR", "drainS", "oneS", "detachObject"} : Goto(t, l)
      /\ k' = k /\ UNCHANGED mb /\ arg' = arg /\ got' = got
  BY DEF Detach, DrainLook, DetachObject, Calls
<1>2. t = k.cur /\ ~Suspended(k, t) /\ ~InRecv(t) /\ ~InSend(t)
  BY <1>1, AtFacts
<1>3. Typed'
  BY <1>1, InvFacts DEF Typed, Detach, DrainLook, DetachObject
<1>4. Moves({}, "EOK", {t}) /\ Leaves'
  <2>1. \A l \in {"run", "drainR", "oneR", "drainS", "oneS", "detachObject"} :
          l \in PC /\ l \notin {"recvSched", "recvWoken", "sendSched", "sendWoken"}
    BY DEF PC
  <2> QED BY <1>1, <1>2, <2>1, SameKernel, LeaveStep
<1>5. t \notin RecvComing /\ t \notin SendComing
  BY <1>2 DEF RecvComing, SendComing
<1> QED BY <1>1, <1>3, <1>4, <1>5, StayStep

\* rt_mb_init of the detached mailbox
LEMMA InitAgainStep ==
  ASSUME Inv, NEW t \in Thread, InitAgain(t)
  PROVE  Inv' /\ Abs!Clear
<1>1. /\ At(t, "run") /\ k' = k /\ pc' = pc /\ Cleared /\ alive' = TRUE
      /\ msg_pool' = msg_pool /\ arg' = arg /\ got' = got
      /\ \A o \in WaitObj : ~HasWaiter(k, o)
  BY DEF InitAgain
<1>2. Orderly(k') /\ Awakened(k', k, {}, "EOK") /\ k'.cur = k.cur
  BY <1>1, SameKernel
<1>3. Moves({}, "EOK", {}) /\ Leaves'
  BY <1>1, <1>2, KernelStep
<1>4. ~HasWaiter(k', Receivers) /\ ~HasWaiter(k', Senders)
  BY <1>1, InvFacts
<1>5. RingOK' /\ Queue' = <<>>
  BY <1>1, InvFacts, ClearRing
<1>6. Typed'
  BY <1>1, InvFacts DEF Typed
<1>7. Inv'
  BY <1>3, <1>4, <1>5, <1>6, InvStep
<1> QED BY <1>1, <1>5, <1>7 DEF Abs!Clear, Queue

\* one turn of _ipc_list_resume_all in rt_mb_detach
LEMMA DrainOneStep ==
  ASSUME Inv, NEW t \in Thread, NEW o \in WaitObj,
         NEW one \in {"oneR", "oneS"}, NEW look \in {"drainR", "drainS"},
         DrainOne(t, o, one, look)
  PROVE  Inv' /\ UNCHANGED Abs!vars
<1>1. /\ At(t, one) /\ UNCHANGED mb /\ alive' = alive /\ arg' = arg /\ got' = got
      /\ \E l \in {"drainR", "drainS", "fault"} : Goto(t, l)
  BY DEF DrainOne
<1>2. t = k.cur /\ ~Suspended(k, t) /\ ~InRecv(t) /\ ~InSend(t)
  BY <1>1, AtFacts
<1>3. Typed' /\ t \notin RecvComing /\ t \notin SendComing
  BY <1>1, <1>2, InvFacts DEF Typed, RecvComing, SendComing
<1>4. \A l \in {"drainR", "drainS", "fault"} :
        l \in PC /\ l \notin {"recvSched", "recvWoken", "sendSched", "sendWoken"}
  BY DEF PC
<1>5. CASE HasWaiter(k, o)
  <2> DEFINE u == Head(k.wait[o])
  <2>1. k' = ResumeFailed(k, u)
    BY <1>5 DEF DrainOne
  <2>2. u \in Thread /\ Suspended(k, u)
    BY <1>5, InvFacts, OrderlyFacts DEF Suspended
  <2> HIDE DEF u
  <2>3. Orderly(k') /\ Awakened(k', k, {u}, "ERROR") /\ k'.cur = k.cur
    BY <2>1, <2>2, ResumeFailedOrderly, InvFacts
  <2>4. Moves({u}, "ERROR", {t}) /\ Leaves'
    BY <1>1, <1>2, <1>4, <2>2, <2>3, LeaveStep
  <2> QED BY <1>1, <1>3, <2>4, StayStep
<1>6. CASE ~HasWaiter(k, o)
  <2>1. k' = k
    BY <1>6 DEF DrainOne
  <2>2. Moves({}, "EOK", {t}) /\ Leaves'
    BY <1>1, <1>2, <1>4, <2>1, SameKernel, LeaveStep
  <2> QED BY <1>1, <1>3, <2>2, StayStep
<1> QED BY <1>5, <1>6

\* rt_schedule at the end of a function
LEMMA DoScheduleStep ==
  ASSUME Inv, NEW t \in Thread, DoSchedule(t)
  PROVE  Inv' /\ UNCHANGED Abs!vars
<1>1. /\ \/ At(t, "sched") /\ Goto(t, "run")
         \/ At(t, "sendSched") /\ Goto(t, "sendWoken")
         \/ At(t, "recvSched") /\ Goto(t, "recvWoken")
      /\ k' = Schedule(k) /\ UNCHANGED <<mb, alive, arg, got>>
  BY DEF DoSchedule
<1>2. Orderly(k') /\ Keeps(k', k) /\ ~Suspended(k', k'.cur)
  BY <1>1, ScheduleOrderly, InvFacts
<1>3. pc' \in [Thread -> PC] /\ pc \in [Thread -> PC]
  BY <1>1, InvFacts DEF Goto, PC
<1>4. ASSUME NEW u \in Thread
      PROVE  (InRecv(u)' <=> InRecv(u)) /\ (InSend(u)' <=> InSend(u))
  BY <1>1, <1>3 DEF At, Goto, InRecv, InSend
<1>5. Moves({}, "EOK", {})
  BY <1>1, <1>2, <1>3, <1>4 DEF Moves, Keeps, Awakened
<1>6. Leaves'
  BY <1>2 DEF Leaves
<1>7. Typed'
  BY <1>1, InvFacts DEF Typed
<1> QED BY <1>1, <1>5, <1>6, <1>7, StayStep

\* rt_mb_send of an interrupt handler
LEMMA IsrSendStep ==
  ASSUME Inv, NEW v \in Mail, IsrSend(v)
  PROVE  Inv' /\ Abs!Send(v)
<1> DEFINE n == Waking(Receivers)
<1>1. /\ ~Full /\ msg_pool' = [msg_pool EXCEPT ![in_offset] = v]
      /\ in_offset' = Wrap(in_offset + 1) /\ entry' = entry + 1 /\ out_offset' = out_offset
      /\ k' = IF HasWaiter(k, Receivers) THEN Schedule(n) ELSE n
      /\ UNCHANGED <<pc, alive, arg, got>>
  BY DEF IsrSend
<1>2. /\ Orderly(n) /\ Awakened(n, k, Woke(Receivers), "EOK") /\ n.cur = k.cur
      /\ \A u \in Woke(Receivers) : u \in Thread /\ Suspended(k, u)
  BY WakingLemma, InvFacts
<1> HIDE DEF n
<1>3. /\ Orderly(k') /\ Awakened(k', k, Woke(Receivers), "EOK")
      /\ Suspended(k', k'.cur) => k'.cur = k.cur
  <2>1. CASE HasWaiter(k, Receivers)
    BY <2>1, <1>1, <1>2, WokenThenScheduled
  <2>2. CASE ~HasWaiter(k, Receivers)
    BY <2>2, <1>1, <1>2
  <2> QED BY <2>1, <2>2
<1>4. Moves(Woke(Receivers), "EOK", {}) /\ Leaves'
  BY <1>1, <1>2, <1>3, KernelStep
<1>5. entry < Size
  BY <1>1, InvFacts, RingFacts DEF Full
<1>6. RingOK' /\ Queue' = Append(Queue, v) /\ Len(Queue) = entry
  BY <1>1, <1>5, InvFacts, PutRing
<1>7. Typed'
  BY <1>1, InvFacts DEF Typed
<1>8. Inv'
  <2> DEFINE X == {}
  <2>1. /\ X \subseteq {v} /\ \A u \in X : u \notin RecvComing
        /\ Moves(Woke(Receivers), "EOK", X) /\ Leaves' /\ entry' = entry + 1
    BY <1>1, <1>4
  <2> HIDE DEF X
  <2> QED BY <1>6, <1>7, <2>1, PutStep
<1>9. Len(Queue) < Size /\ Queue' = Append(Queue, v) /\ got' = got
  BY <1>1, <1>5, <1>6
<1> QED BY <1>8, <1>9 DEF Abs!Send, Queue

\* the tick, and the timeout of a thread
LEMMA KernelOnlyStep ==
  ASSUME Inv, Tick \/ \E u \in Thread : TimerExpire(u)
  PROVE  Inv' /\ UNCHANGED Abs!vars
<1>1. UNCHANGED <<pc, mb, alive, arg, got>>
  BY DEF Tick, TimerExpire
<1>2. Typed'
  BY <1>1, InvFacts DEF Typed
<1>3. CASE Tick
  <2>1. k' = TickSlice(k)
    BY <1>3 DEF Tick
  <2>2. Orderly(k') /\ Keeps(k', k) /\ (k'.cur = k.cur \/ ~Suspended(k', k'.cur))
    BY <2>1, TickOrderly, InvFacts
  <2>3. Moves({}, "EOK", {}) /\ Leaves'
    BY <1>1, <2>2, KernelStep DEF Keeps
  <2> QED BY <1>1, <1>2, <2>3, StayStep
<1>4. ASSUME NEW u \in Thread, TimerExpire(u)
      PROVE  Inv' /\ UNCHANGED Abs!vars
  <2>1. u \in k.timer /\ k' = ThreadTimeout(k, u)
    BY <1>4 DEF TimerExpire
  <2>2. Suspended(k, u)
    BY <2>1, InvFacts DEF InOrder
  <2>3. Orderly(k') /\ Awakened(k', k, {u}, "ETIMEOUT") /\ ~Suspended(k', k'.cur)
    BY <2>1, <2>2, TimeoutOrderly, InvFacts
  <2>4. Moves({u}, "ETIMEOUT", {}) /\ Leaves'
    BY <1>1, <2>2, <2>3, KernelStep
  <2> QED BY <1>1, <1>2, <2>4, StayStep
<1> QED BY <1>3, <1>4

-----------------------------------------------------------------------------
(* The specification *)

LEMMA InitInv ==
  ASSUME Init
  PROVE  Inv /\ Abs!Init
<1>1. /\ k = StartedKernel /\ pc = [t \in Thread |-> "run"]
      /\ msg_pool = [i \in Slot |-> NoMail]
      /\ entry = 0 /\ in_offset = 0 /\ out_offset = 0 /\ alive = TRUE
      /\ arg = [t \in Thread |-> NoCall] /\ got = [t \in Thread |-> NoMail]
  BY DEF Init
<1>2. /\ Orderly(k) /\ Receivers \in WaitObj /\ Senders \in WaitObj
      /\ \A t \in Thread : ~Suspended(k, t)
      /\ k.cur \in Thread /\ k \in Kernel
      /\ ToSet(k.wait[Receivers]) = {} /\ ToSet(k.wait[Senders]) = {}
      /\ ~HasWaiter(k, Receivers) /\ ~HasWaiter(k, Senders)
  <2>1. Receivers \in WaitObj /\ Senders \in WaitObj
    BY MailboxAssumption
  <2>2. /\ Orderly(k) /\ \A t \in Thread : ~Suspended(k, t)
        /\ k.cur \in Thread /\ k \in Kernel
        /\ \A o \in WaitObj : ToSet(k.wait[o]) = {} /\ ~HasWaiter(k, o)
    BY <1>1, StartedLemma
  <2> QED BY <2>1, <2>2
<1>3. /\ ~HasWaiter(k, Receivers) /\ ~HasWaiter(k, Senders) /\ k.cur \in Thread /\ k \in Kernel
      /\ \A t \in Thread : ~Waits(k, t, Receivers) /\ ~Waits(k, t, Senders)
  BY <1>2 DEF Waits
<1>4. pc \in [Thread -> PC] /\ \A t \in Thread : ~InRecv(t) /\ ~InSend(t)
  BY <1>1 DEF PC, InRecv, InSend
<1>5. RingOK
  <2>1. Size \in Nat /\ 0 < Size
    BY MailboxAssumption
  <2> QED BY <1>1, <2>1 DEF RingOK, Slot, Place
<1>6. TypeOK
  <2>1. NoCall \in [mail : Mail \cup {NoMail}, timed : BOOLEAN]
    BY DEF NoCall
  <2> QED BY <1>1, <1>3, <1>4, <1>5, <2>1 DEF TypeOK, RingOK
<1>7. Consistent
  <2>1. Leaves /\ ~InSend(Idle) /\ ~InRecv(Idle)
    BY <1>2, <1>3, <1>4 DEF Leaves
  <2>2. in_offset = Place(entry + 1)
    BY <1>5 DEF RingOK
  <2> QED BY <1>2, <1>3, <1>4, <1>6, <2>1, <2>2 DEF Consistent
<1>8. NoWakeUpLost
  BY <1>3 DEF NoWakeUpLost
<1>9. Queue = <<>>
  BY <1>1, <1>5, QueueFacts DEF QueueIs
<1> QED BY <1>1, <1>7, <1>8, <1>9 DEF Inv, Abs!Init, Queue

LEMMA NextStep ==
  ASSUME Inv, [Next]_vars
  PROVE  Inv' /\ [Abs!Next]_(Abs!vars)
<1>1. CASE UNCHANGED vars
  <2>1. k' = k /\ UNCHANGED <<pc, mb, alive, arg, got>>
    BY <1>1 DEF vars
  <2>2. Orderly(k') /\ Awakened(k', k, {}, "EOK") /\ k'.cur = k.cur
    BY <2>1, SameKernel
  <2>3. Moves({}, "EOK", {}) /\ Leaves'
    BY <2>1, <2>2, KernelStep
  <2>4. Typed'
    BY <2>1, InvFacts DEF Typed
  <2> QED BY <2>1, <2>3, <2>4, StayStep
<1>2. ASSUME NEW t \in Thread, ThreadStep(t)
      PROVE  Inv' /\ [Abs!Next]_(Abs!vars)
  <2>1. CASE RecvNow(t) \/ RecvAgain(t)
    <3>1. /\ At(t, "run") \/ At(t, "recvWoken")
          /\ GetSection(t) /\ AfterWake(t, Senders)
      BY <2>1 DEF RecvNow, RecvAgain, Calls, Woken
    <3> QED BY <3>1, ReceiveStep DEF Abs!Next
  <2>2. CASE SendAgain(t)
    <3>1. /\ At(t, "sendWoken") /\ PutSection(arg[t].mail)
          /\ EndCall(t) /\ AfterWake(t, Receivers)
      BY <2>2 DEF SendAgain, Woken
    <3>2. arg[t].mail \in Mail
      BY <3>1, AtFacts, InvFacts
    <3> QED BY <3>1, <3>2, SendStep DEF Abs!Next
  <2>3. CASE Reset(t)
    BY <2>3, ResetStep DEF Abs!Next
  <2>4. CASE DoSchedule(t)
    BY <2>4, DoScheduleStep
  <2>5. CASE WaitFailed(t)
    BY <2>5, WaitFailedStep
  <2>6. CASE WaitAgain(t)
    BY <2>6, WaitAgainStep
  <2>7. CASE TimeUsedUp(t)
    BY <2>7, TimeUsedUpStep
  <2>8. CASE Detach(t) \/ DrainLook(t) \/ DetachObject(t)
    BY <2>8, DetachStep
  <2>9. CASE DrainOne(t, Receivers, "oneR", "drainR") \/ DrainOne(t, Senders, "oneS", "drainS")
    BY <2>9, DrainOneStep, MailboxAssumption
  <2>10. CASE \E timed \in Timed : RecvWait(t, timed)
    BY <2>10, FirstWaitStep
  <2>11. ASSUME NEW v \in Mail, SendNow(t, v)
         PROVE  Inv' /\ [Abs!Next]_(Abs!vars)
    <3>1. At(t, "run") /\ PutSection(v) /\ EndCall(t) /\ AfterWake(t, Receivers)
      BY <2>11 DEF SendNow, Calls
    <3> QED BY <3>1, SendStep DEF Abs!Next
  <2>12. CASE \E v \in Mail : Urgent(t, v)
    BY <2>12, UrgentStep DEF Abs!Next
  <2>13. CASE \E v \in Mail, timed \in Timed : SendWait(t, v, timed)
    BY <2>13, FirstWaitStep
  <2>14. CASE InitAgain(t)
    BY <2>14, InitAgainStep DEF Abs!Next
  <2> QED
    BY <1>2, <2>1, <2>2, <2>3, <2>4, <2>5, <2>6, <2>7, <2>8, <2>9, <2>10, <2>11, <2>12, <2>13,
       <2>14
    DEF ThreadStep
<1>3. CASE \E v \in Mail : IsrSend(v)
  BY <1>3, IsrSendStep DEF Abs!Next
<1>4. CASE Tick \/ \E u \in Thread : TimerExpire(u)
  BY <1>4, KernelOnlyStep
<1> QED BY <1>1, <1>2, <1>3, <1>4 DEF Next

\* The kernel's lists and the ring stay in order: who waits for a mail or for a
\* place is in the list for it, through timeouts, resets and a detach, and the
\* offsets go round (rt_mb_send_wait, rt_mb_urgent, rt_mb_recv, rt_mb_detach).
THEOREM MailboxConsistent == Spec => []Consistent
<1>1. Init => Inv
  BY InitInv
<1>2. Inv /\ [Next]_vars => Inv'
  BY NextStep
<1>3. Inv => Consistent
  BY DEF Inv
<1> QED BY <1>1, <1>2, <1>3, PTL DEF Spec

\* No wake-up is lost: each mail has a receiver that comes for it while others
\* sleep, and each place a sender, although whoever comes first takes it.
THEOREM MailboxNoWakeUpLost == Spec => []NoWakeUpLost
<1>1. Init => Inv
  BY InitInv
<1>2. Inv /\ [Next]_vars => Inv'
  BY NextStep
<1>3. Inv => NoWakeUpLost
  BY DEF Inv
<1> QED BY <1>1, <1>2, <1>3, PTL DEF Spec

\* The ring of ipc.c's mailbox implements the bounded queue: no mail is lost,
\* received twice or out of order, whatever the size and the threads.
THEOREM MailboxImplements == Spec => Implements
<1>1. Init => Inv /\ Abs!Init
  BY InitInv
<1>2. Inv /\ [Next]_vars => Inv' /\ [Abs!Next]_(Abs!vars)
  BY NextStep
<1> QED BY <1>1, <1>2, PTL DEF Spec, Implements, Abs!Spec
=============================================================================
