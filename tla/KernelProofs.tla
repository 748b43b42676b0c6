---------------------------- MODULE KernelProofs ----------------------------
(***************************************************************************)
(* What the kernel's operations do, whatever threads, priorities and       *)
(* objects there are.  In the first half each lemma says of one function   *)
(* of scheduler_up.c or thread.c, run with interrupts disabled, that it    *)
(* keeps the ready lists, the bitmap and the thread states consistent      *)
(* (QueueInv).  In the second half each lemma says of one function that    *)
(* the objects of ipc.c share that it keeps the kernel Orderly, and which  *)
(* threads wait afterwards, where, and with which error.                   *)
(***************************************************************************)
EXTENDS IpcOps, FiniteSetTheorems, SequenceTheorems, WellFoundedInduction, TLAPS

-----------------------------------------------------------------------------
(* Lists as sequences: the members after a node is linked or unlinked, and  *)
(* that a list stays free of repetitions                                    *)

\* rt_list_insert_after(list head, node): the new node becomes the first one.
LEMMA ConsLemma ==
  ASSUME NEW T, NEW s \in Seq(T), NEW t \in T
  PROVE  /\ Cons(t, s) \in Seq(T)
         /\ Cons(t, s) # <<>>
         /\ ToSet(Cons(t, s)) = ToSet(s) \cup {t}
         /\ IsInjective(s) /\ t \notin ToSet(s) => IsInjective(Cons(t, s))
<1> DEFINE c == Cons(t, s)
<1>1. <<t>> \in Seq(T) /\ Len(<<t>>) = 1 /\ <<t>>[1] = t
  OBVIOUS
<1>2. /\ c \in Seq(T)
      /\ Len(c) = 1 + Len(s)
      /\ \A i \in 1..(1 + Len(s)) : c[i] = IF i <= 1 THEN <<t>>[i] ELSE s[i - 1]
  BY <1>1, ConcatProperties DEF Cons
<1>3. /\ c[1] = t
      /\ \A i \in 1..Len(s) : c[i + 1] = s[i]
      /\ DOMAIN c = 1..(Len(s) + 1) /\ DOMAIN s = 1..Len(s)
      /\ Len(s) \in Nat
  BY <1>1, <1>2
<1> HIDE DEF c
<1>4. ToSet(c) = ToSet(s) \cup {t}
  <2>1. ASSUME NEW x \in ToSet(c) PROVE x \in ToSet(s) \cup {t}
    <3>1. PICK i \in 1..(Len(s) + 1) : x = c[i]
      BY <1>3 DEF ToSet
    <3>2. i = 1 \/ (i - 1 \in 1..Len(s) /\ x = s[i - 1])
      BY <3>1, <1>3
    <3> QED BY <3>1, <3>2, <1>3 DEF ToSet
  <2>2. ASSUME NEW x \in ToSet(s) PROVE x \in ToSet(c)
    <3>1. PICK i \in 1..Len(s) : x = s[i]
      BY <1>3 DEF ToSet
    <3>2. i + 1 \in 1..(Len(s) + 1) /\ x = c[i + 1]
      BY <3>1, <1>3
    <3> QED BY <3>2, <1>3 DEF ToSet
  <2>3. t \in ToSet(c)
    BY <1>3 DEF ToSet
  <2> QED BY <2>1, <2>2, <2>3
<1>5. ASSUME IsInjective(s), t \notin ToSet(s) PROVE IsInjective(c)
  <2>1. \A i \in 1..Len(s) : s[i] # t
    BY <1>5, <1>3 DEF ToSet
  <2>2. ASSUME NEW i \in 1..(Len(s) + 1), NEW j \in 1..(Len(s) + 1), c[i] = c[j]
        PROVE  i = j
    <3>1. \A n \in 1..(Len(s) + 1) : n = 1 \/ (n - 1 \in 1..Len(s) /\ c[n] = s[n - 1])
      BY <1>3
    <3>2. CASE i = 1 \/ j = 1
      BY <3>1, <3>2, <2>2, <2>1, <1>3
    <3>3. CASE i # 1 /\ j # 1
      <4>1. i - 1 \in 1..Len(s) /\ j - 1 \in 1..Len(s) /\ s[i - 1] = s[j - 1]
        BY <3>1, <3>3, <2>2
      <4>2. i - 1 = j - 1
        BY <4>1, <1>3, <1>5 DEF IsInjective
      <4> QED BY <4>2
    <3> QED BY <3>2, <3>3
  <2> QED BY <2>2, <1>3 DEF IsInjective
<1> QED
  BY <1>2, <1>3, <1>4, <1>5 DEF c

\* rt_list_insert_before(list head, node): the new node becomes the last one.
LEMMA AppendLemma ==
  ASSUME NEW T, NEW s \in Seq(T), NEW t \in T
  PROVE  /\ Append(s, t) \in Seq(T)
         /\ Append(s, t) # <<>>
         /\ ToSet(Append(s, t)) = ToSet(s) \cup {t}
         /\ IsInjective(s) /\ t \notin ToSet(s) => IsInjective(Append(s, t))
<1> DEFINE c == Append(s, t)
<1>1. /\ c \in Seq(T)
      /\ c[Len(s) + 1] = t
      /\ \A i \in 1..Len(s) : c[i] = s[i]
      /\ DOMAIN c = 1..(Len(s) + 1) /\ DOMAIN s = 1..Len(s)
      /\ Len(s) \in Nat
  OBVIOUS
<1>2. c # <<>>
  BY <1>1
<1> HIDE DEF c
<1>3. ToSet(c) = ToSet(s) \cup {t}
  <2>1. ASSUME NEW x \in ToSet(c) PROVE x \in ToSet(s) \cup {t}
    <3>1. PICK i \in 1..(Len(s) + 1) : x = c[i]
      BY <1>1 DEF ToSet
    <3>2. i = Len(s) + 1 \/ (i \in 1..Len(s) /\ x = s[i])
      BY <3>1, <1>1
    <3> QED BY <3>1, <3>2, <1>1 DEF ToSet
  <2>2. ASSUME NEW x \in ToSet(s) PROVE x \in ToSet(c)
    <3>1. PICK i \in 1..Len(s) : x = s[i]
      BY <1>1 DEF ToSet
    <3>2. i \in 1..(Len(s) + 1) /\ x = c[i]
      BY <3>1, <1>1
    <3> QED BY <3>2, <1>1 DEF ToSet
  <2>3. t \in ToSet(c)
    BY <1>1 DEF ToSet
  <2> QED BY <2>1, <2>2, <2>3
<1>4. ASSUME IsInjective(s), t \notin ToSet(s) PROVE IsInjective(c)
  <2>1. \A i \in 1..Len(s) : s[i] # t
    BY <1>4, <1>1 DEF ToSet
  <2>2. ASSUME NEW i \in 1..(Len(s) + 1), NEW j \in 1..(Len(s) + 1), c[i] = c[j]
        PROVE  i = j
    <3>1. CASE i = Len(s) + 1 \/ j = Len(s) + 1
      <4>1. \A n \in 1..(Len(s) + 1) : n = Len(s) + 1 \/ (n \in 1..Len(s) /\ c[n] # t)
        BY <2>1, <1>1
      <4> QED BY <4>1, <3>1, <2>2, <1>1
    <3>2. CASE i # Len(s) + 1 /\ j # Len(s) + 1
      <4>1. i \in 1..Len(s) /\ j \in 1..Len(s)
        BY <3>2, <1>1
      <4>2. s[i] = s[j]
        BY <4>1, <2>2, <1>1
      <4> QED BY <4>1, <4>2, <1>1, <1>4 DEF IsInjective
    <3> QED BY <3>1, <3>2
  <2> QED BY <2>2, <1>1 DEF IsInjective
<1> QED
  BY <1>1, <1>2, <1>3, <1>4 DEF c

\* rt_list_remove(node): the node, linked or not, leaves the list, and nothing
\* else does.
LEMMA UnlinkLemma ==
  ASSUME NEW T, NEW s \in Seq(T), NEW t \in T, IsInjective(s)
  PROVE  /\ Unlink(s, t) \in Seq(T)
         /\ ToSet(Unlink(s, t)) = ToSet(s) \ {t}
         /\ IsInjective(Unlink(s, t))
<1>0. DOMAIN s = 1..Len(s) /\ Len(s) \in Nat
  OBVIOUS
<1>1. CASE t \notin ToSet(s)
  BY <1>1 DEF Unlink
<1>2. CASE t \in ToSet(s)
  <2> DEFINE n == CHOOSE i \in DOMAIN s : s[i] = t
             r == RemoveAt(s, n)
             front == SubSeq(s, 1, n - 1)
             back == SubSeq(s, n + 1, Len(s))
  <2>1. n \in 1..Len(s) /\ s[n] = t
    BY <1>0, <1>2 DEF ToSet
  <2>2. Unlink(s, t) = r
    BY <1>2 DEF Unlink
  <2> HIDE DEF n
  <2>3. /\ front \in Seq(T) /\ Len(front) = n - 1
        /\ \A i \in 1..(n - 1) : front[i] = s[i]
    <3>1. \A i \in 1..(n - 1) : s[i] \in T
      BY <2>1, <1>0
    <3>2. n - 1 \in Int /\ 1 \in Int
      BY <2>1
    <3> QED BY <3>1, <3>2, <2>1, SubSeqProperties
  <2>4. /\ back \in Seq(T) /\ Len(back) = Len(s) - n
        /\ \A i \in 1..(Len(s) - n) : back[i] = s[n + i]
    <3>1. \A i \in (n + 1)..Len(s) : s[i] \in T
      BY <2>1, <1>0
    <3>2. n + 1 \in Int /\ Len(s) \in Int
      BY <2>1, <1>0
    <3>3. /\ back \in Seq(T)
          /\ Len(back) = IF n + 1 <= Len(s) THEN Len(s) - (n + 1) + 1 ELSE 0
          /\ \A i \in 1..(Len(s) - (n + 1) + 1) : back[i] = s[n + 1 + i - 1]
      BY <3>1, <3>2, SubSeqProperties
    <3>4. Len(s) - (n + 1) + 1 = Len(s) - n
      BY <2>1, <1>0
    <3>5. (IF n + 1 <= Len(s) THEN Len(s) - (n + 1) + 1 ELSE 0) = Len(s) - n
      <4>1. CASE n = Len(s)
        BY <4>1, <1>0
      <4>2. CASE n # Len(s)
        <5>1. n + 1 <= Len(s)
          <6>1. n \in Int /\ n <= Len(s) /\ Len(s) \in Int
            BY <2>1, <1>0
          <6> QED BY <6>1, <4>2
        <5> QED BY <5>1, <3>4
      <4> QED BY <4>1, <4>2
    <3>6. ASSUME NEW i \in 1..(Len(s) - n) PROVE back[i] = s[n + i]
      <4>1. n + 1 + i - 1 = n + i
        BY <2>1
      <4> HIDE DEF back
      <4> QED BY <3>3, <3>4, <4>1
    <3> HIDE DEF back
    <3> QED BY <3>3, <3>5, <3>6
  <2>5. r = front \o back
    BY DEF RemoveAt
  <2> HIDE DEF front, back
  <2>6. /\ r \in Seq(T) /\ Len(r) = Len(s) - 1
        /\ \A i \in 1..(Len(s) - 1) : r[i] = IF i <= n - 1 THEN front[i] ELSE back[i - (n - 1)]
    <3>1. /\ front \o back \in Seq(T)
          /\ Len(front \o back) = Len(front) + Len(back)
          /\ \A i \in 1..(Len(front) + Len(back)) : (front \o back)[i] =
                IF i <= Len(front) THEN front[i] ELSE back[i - Len(front)]
      BY <2>3, <2>4, ConcatProperties
    <3>2. Len(front) + Len(back) = Len(s) - 1
      BY <2>1, <2>3, <2>4, <1>0
    <3> QED BY <3>1, <3>2, <2>3, <2>5
  <2> HIDE DEF r
  <2>7. \A i \in 1..(Len(s) - 1) : r[i] = IF i < n THEN s[i] ELSE s[i + 1]
    <3> TAKE i \in 1..(Len(s) - 1)
    <3>1. CASE i < n
      BY <3>1, <2>1, <2>3, <2>6, <1>0
    <3>2. CASE i >= n
      <4>1. i - (n - 1) \in 1..(Len(s) - n) /\ ~(i <= n - 1) /\ ~(i < n)
        BY <3>2, <2>1, <1>0
      <4>2. r[i] = back[i - (n - 1)]
        BY <4>1, <2>6
      <4>3. back[i - (n - 1)] = s[n + (i - (n - 1))]
        BY <4>1, <2>4
      <4>4. n + (i - (n - 1)) = i + 1
        BY <2>1, <1>0
      <4> QED BY <4>1, <4>2, <4>3, <4>4
    <3> QED BY <3>1, <3>2, <2>1, <1>0
  <2>8. DOMAIN r = 1..(Len(s) - 1)
    BY <2>6, <1>0
  <2>9. \A i, j \in 1..Len(s) : s[i] = s[j] => i = j
    BY <1>0 DEF IsInjective
  <2>10. ToSet(r) = ToSet(s) \ {t}
    <3>1. ASSUME NEW x \in ToSet(r) PROVE x \in ToSet(s) \ {t}
      <4>1. PICK i \in 1..(Len(s) - 1) : x = r[i]
        BY <2>8 DEF ToSet
      <4>2. PICK j \in 1..Len(s) : j # n /\ x = s[j]
        BY <4>1, <2>7, <2>1, <1>0
      <4>3. x # t
        BY <4>2, <2>1, <2>9
      <4> QED BY <4>2, <4>3, <1>0 DEF ToSet
    <3>2. ASSUME NEW x \in ToSet(s) \ {t} PROVE x \in ToSet(r)
      <4>1. PICK j \in 1..Len(s) : x = s[j]
        BY <1>0 DEF ToSet
      <4>2. j # n
        BY <4>1, <3>2, <2>1
      <4>3. CASE j < n
        <5>1. j \in 1..(Len(s) - 1) /\ r[j] = s[j]
          BY <4>3, <2>1, <2>7, <1>0
        <5> QED BY <5>1, <4>1, <2>8 DEF ToSet
      <4>4. CASE j > n
        <5>1. j - 1 \in 1..(Len(s) - 1) /\ ~(j - 1 < n) /\ (j - 1) + 1 = j
          BY <4>4, <2>1, <1>0
        <5>2. r[j - 1] = s[j]
          BY <5>1, <2>7
        <5> QED BY <5>1, <5>2, <4>1, <2>8 DEF ToSet
      <4> QED BY <4>2, <4>3, <4>4, <2>1
    <3> QED BY <3>1, <3>2
  <2>11. IsInjective(r)
    <3>1. ASSUME NEW i \in 1..(Len(s) - 1), NEW j \in 1..(Len(s) - 1), r[i] = r[j]
          PROVE  i = j
      <4> DEFINE ii == IF i < n THEN i ELSE i + 1
                 jj == IF j < n THEN j ELSE j + 1
      <4>1. ii \in 1..Len(s) /\ jj \in 1..Len(s) /\ r[i] = s[ii] /\ r[j] = s[jj]
        BY <2>1, <2>7, <1>0
      <4>2. ii = jj
        BY <4>1, <3>1, <2>9
      <4> QED BY <4>2, <2>1, <1>0
    <3> QED BY <3>1, <2>8 DEF IsInjective
  <2> QED BY <2>2, <2>6, <2>10, <2>11
<1> QED BY <1>1, <1>2

\* Taking the head of a list that has one.
LEMMA HeadLemma ==
  ASSUME NEW T, NEW s \in Seq(T)
  PROVE  /\ s # <<>> => Head(s) \in ToSet(s)
         /\ (s = <<>>) <=> (ToSet(s) = {})
         /\ ToSet(s) \subseteq T
         /\ ToSet(<<>>) = {} /\ IsInjective(<<>>)
<1>1. s # <<>> => 1 \in DOMAIN s /\ Head(s) = s[1]
  OBVIOUS
<1>2. \A i \in DOMAIN s : s[i] \in T
  OBVIOUS
<1>3. DOMAIN <<>> = {}
  OBVIOUS
<1> QED BY <1>1, <1>2, <1>3 DEF ToSet, IsInjective

\* A set of naturals that is not empty has a least element.
LEMMA LeastNatural ==
  ASSUME NEW S \in SUBSET Nat, S # {}
  PROVE  \E m \in S : \A n \in S : m <= n
<1> DEFINE less == {ss \in Nat \X Nat : ss[1] < ss[2]}
<1>1. IsWellFoundedOn(less, Nat)
  BY NatLessThanWellFounded DEF OpToRel
<1> HIDE DEF less
<1>2. PICK m \in S : \A n \in S : <<n, m>> \notin less
  BY <1>1, WFMin
<1>3. \A n \in S : ~(n < m)
  BY <1>2 DEF less
<1> QED BY <1>3

\* Inserting a node in front of the i-th one, or at the end.
LEMMA InsertAtLemma ==
  ASSUME NEW T, NEW s \in Seq(T), NEW t \in T, NEW n \in 1..(Len(s) + 1)
  PROVE  LET r == InsertAt(s, n, t)
         IN /\ r \in Seq(T) /\ Len(r) = Len(s) + 1
            /\ \A i \in 1..(Len(s) + 1) :
                 r[i] = IF i < n THEN s[i] ELSE IF i = n THEN t ELSE s[i - 1]
            /\ ToSet(r) = ToSet(s) \cup {t}
            /\ IsInjective(s) /\ t \notin ToSet(s) => IsInjective(r)
<1> DEFINE r == InsertAt(s, n, t)
           front == SubSeq(s, 1, n - 1)
           back == SubSeq(s, n, Len(s))
<1>0. DOMAIN s = 1..Len(s) /\ Len(s) \in Nat /\ n \in Nat /\ \A i \in 1..Len(s) : s[i] \in T
  OBVIOUS
<1>1. /\ front \in Seq(T) /\ Len(front) = n - 1
      /\ \A i \in 1..(n - 1) : front[i] = s[i]
  <2>1. \A i \in 1..(n - 1) : s[i] \in T
    BY <1>0
  <2>2. n - 1 \in Int /\ 1 \in Int
    BY <1>0
  <2> QED BY <2>1, <2>2, <1>0, SubSeqProperties
<1>2. /\ back \in Seq(T) /\ Len(back) = Len(s) - n + 1
      /\ \A i \in 1..(Len(s) - n + 1) : back[i] = s[n + i - 1]
  <2>1. \A i \in n..Len(s) : s[i] \in T
    BY <1>0
  <2>2. n \in Int /\ Len(s) \in Int
    BY <1>0
  <2>3. /\ back \in Seq(T)
        /\ Len(back) = IF n <= Len(s) THEN Len(s) - n + 1 ELSE 0
        /\ \A i \in 1..(Len(s) - n + 1) : back[i] = s[n + i - 1]
    BY <2>1, <2>2, SubSeqProperties
  <2> HIDE DEF back
  <2>4. (IF n <= Len(s) THEN Len(s) - n + 1 ELSE 0) = Len(s) - n + 1
    BY <1>0
  <2> QED BY <2>3, <2>4
<1>3. <<t>> \in Seq(T) /\ Len(<<t>>) = 1 /\ <<t>>[1] = t
  OBVIOUS
<1> DEFINE start == front \o <<t>>
<1>4. r = start \o back
  BY DEF InsertAt
<1> HIDE DEF r, front, back
<1>5. /\ start \in Seq(T) /\ Len(start) = n
      /\ \A i \in 1..n : start[i] = IF i <= n - 1 THEN s[i] ELSE t
  <2>1. /\ start \in Seq(T) /\ Len(start) = Len(front) + Len(<<t>>)
        /\ \A i \in 1..(Len(front) + Len(<<t>>)) : start[i] =
              IF i <= Len(front) THEN front[i] ELSE <<t>>[i - Len(front)]
    BY <1>1, <1>3, ConcatProperties
  <2> HIDE DEF start
  <2>2. Len(front) + Len(<<t>>) = n
    BY <1>0, <1>1, <1>3
  <2>3. ASSUME NEW i \in 1..n PROVE start[i] = IF i <= n - 1 THEN s[i] ELSE t
    <3>1. CASE i <= n - 1
      BY <3>1, <2>1, <2>2, <1>0, <1>1
    <3>2. CASE ~(i <= n - 1)
      <4>1. i = n /\ n - (n - 1) = 1
        BY <3>2, <1>0
      <4> QED BY <4>1, <3>2, <2>1, <2>2, <1>1, <1>3
    <3> QED BY <3>1, <3>2
  <2> QED BY <2>1, <2>2, <2>3
<1> HIDE DEF start
<1>6. /\ r \in Seq(T) /\ Len(r) = Len(s) + 1
      /\ \A i \in 1..(Len(s) + 1) : r[i] = IF i <= n THEN start[i] ELSE back[i - n]
  <2>1. /\ start \o back \in Seq(T) /\ Len(start \o back) = Len(start) + Len(back)
        /\ \A i \in 1..(Len(start) + Len(back)) : (start \o back)[i] =
              IF i <= Len(start) THEN start[i] ELSE back[i - Len(start)]
    BY <1>2, <1>5, ConcatProperties
  <2>2. Len(start) + Len(back) = Len(s) + 1
    BY <1>0, <1>2, <1>5
  <2> QED BY <2>1, <2>2, <1>4, <1>5
<1>7. \A i \in 1..(Len(s) + 1) :
        r[i] = IF i < n THEN s[i] ELSE IF i = n THEN t ELSE s[i - 1]
  <2> TAKE i \in 1..(Len(s) + 1)
  <2>1. CASE i <= n
    BY <2>1, <1>0, <1>5, <1>6
  <2>2. CASE i > n
    <3>1. i - n \in 1..(Len(s) - n + 1) /\ n + (i - n) - 1 = i - 1 /\ ~(i <= n)
      BY <2>2, <1>0
    <3>2. r[i] = back[i - n]
      BY <3>1, <1>6
    <3>3. back[i - n] = s[n + (i - n) - 1]
      BY <3>1, <1>2
    <3> QED BY <3>1, <3>2, <3>3, <2>2, <1>0
  <2> QED BY <2>1, <2>2, <1>0
<1>8. DOMAIN r = 1..(Len(s) + 1)
  BY <1>0, <1>6
<1>9. ToSet(r) = ToSet(s) \cup {t}
  <2>1. ASSUME NEW x \in ToSet(r) PROVE x \in ToSet(s) \cup {t}
    <3>1. PICK i \in 1..(Len(s) + 1) : x = r[i]
      BY <1>8 DEF ToSet
    <3>2. CASE i < n
      BY <3>1, <3>2, <1>0, <1>7 DEF ToSet
    <3>3. CASE i = n
      BY <3>1, <3>3, <1>0, <1>7
    <3>4. CASE i > n
      <4>1. i - 1 \in 1..Len(s) /\ r[i] = s[i - 1]
        BY <3>1, <3>4, <1>0, <1>7
      <4> QED BY <4>1, <3>1, <1>0 DEF ToSet
    <3> QED BY <3>2, <3>3, <3>4, <1>0
  <2>2. ASSUME NEW x \in ToSet(s) PROVE x \in ToSet(r)
    <3>1. PICK i \in 1..Len(s) : x = s[i]
      BY <1>0 DEF ToSet
    <3>2. CASE i < n
      <4>1. i \in 1..(Len(s) + 1) /\ r[i] = s[i]
        BY <3>2, <1>0, <1>7
      <4> QED BY <4>1, <3>1, <1>8 DEF ToSet
    <3>3. CASE ~(i < n)
      <4>1. i + 1 \in 1..(Len(s) + 1) /\ r[i + 1] = s[i]
        <5>1. i + 1 \in 1..(Len(s) + 1) /\ ~(i + 1 < n) /\ i + 1 # n /\ (i + 1) - 1 = i
          BY <3>3, <1>0
        <5> QED BY <5>1, <1>7
      <4> QED BY <4>1, <3>1, <1>8 DEF ToSet
    <3> QED BY <3>2, <3>3
  <2>3. t \in ToSet(r)
    BY <1>0, <1>7, <1>8 DEF ToSet
  <2> QED BY <2>1, <2>2, <2>3
<1>10. ASSUME IsInjective(s), t \notin ToSet(s) PROVE IsInjective(r)
  <2>1. \A i, j \in 1..Len(s) : s[i] # t /\ (s[i] = s[j] => i = j)
    BY <1>10, <1>0 DEF ToSet, IsInjective
  <2>2. ASSUME NEW i \in 1..(Len(s) + 1), NEW j \in 1..(Len(s) + 1), r[i] = r[j]
        PROVE  i = j
    <3> DEFINE at(x) == IF x < n THEN x ELSE x - 1
    <3>1. \A x \in 1..(Len(s) + 1) : x # n => at(x) \in 1..Len(s) /\ r[x] = s[at(x)]
      BY <1>0, <1>7
    <3>2. r[n] = t /\ n \in 1..(Len(s) + 1)
      BY <1>0, <1>7
    <3>3. CASE i = n \/ j = n
      <4>1. i = n /\ j = n
        BY <3>1, <3>2, <3>3, <2>1, <2>2
      <4> QED BY <4>1
    <3>4. CASE i # n /\ j # n
      <4>1. at(i) = at(j)
        BY <3>1, <3>4, <2>1, <2>2
      <4> QED BY <4>1, <3>4, <1>0
    <3> QED BY <3>3, <3>4
  <2> QED BY <2>2, <1>8 DEF IsInjective
<1> QED BY <1>6, <1>7, <1>9, <1>10 DEF r

\* A function on the first n numbers is a sequence of length n.
LEMMA SeqByIndex ==
  ASSUME NEW T, NEW n \in Nat, NEW f, f = [i \in 1..n |-> f[i]], \A i \in 1..n : f[i] \in T
  PROVE  f \in Seq(T) /\ Len(f) = n
<1>1. f \in [1..n -> T]
  OBVIOUS
<1> QED BY <1>1

\* Two sequences with the same elements are one.
LEMMA SameSeq ==
  ASSUME NEW T, NEW s \in Seq(T), NEW r \in Seq(T), Len(s) = Len(r),
         \A i \in 1..Len(s) : s[i] = r[i]
  PROVE  s = r
<1>1. s = [i \in 1..Len(s) |-> s[i]] /\ r = [i \in 1..Len(s) |-> r[i]]
  OBVIOUS
<1> QED BY <1>1

\* The elements of a sequence that is extended at its end, at its front, and of
\* one that has lost its first element.
LEMMA AppendElements ==
  ASSUME NEW T, NEW s \in Seq(T), NEW v \in T
  PROVE  LET r == Append(s, v)
         IN /\ r \in Seq(T) /\ Len(r) = Len(s) + 1
            /\ \A i \in 1..(Len(s) + 1) : r[i] = IF i <= Len(s) THEN s[i] ELSE v
OBVIOUS

LEMMA TailElements ==
  ASSUME NEW T, NEW s \in Seq(T), s # <<>>
  PROVE  LET r == Tail(s)
         IN /\ r \in Seq(T) /\ Len(r) = Len(s) - 1
            /\ \A i \in 1..(Len(s) - 1) : r[i] = s[i + 1]
OBVIOUS

LEMMA FrontElements ==
  ASSUME NEW T, NEW s \in Seq(T), NEW v \in T
  PROVE  LET r == <<v>> \o s
         IN /\ r \in Seq(T) /\ Len(r) = Len(s) + 1
            /\ \A i \in 1..(Len(s) + 1) : r[i] = IF i = 1 THEN v ELSE s[i - 1]
<1> DEFINE r == <<v>> \o s
<1>1. <<v>> \in Seq(T) /\ Len(<<v>>) = 1 /\ <<v>>[1] = v
  OBVIOUS
<1>2. r \in Seq(T) /\ Len(r) = Len(s) + 1
  BY <1>1
<1>3. \A i \in 1..(Len(s) + 1) : r[i] = IF i = 1 THEN v ELSE s[i - 1]
  BY <1>1
<1> QED BY <1>2, <1>3

\* The first node stays the first one when another is unlinked.
LEMMA UnlinkHead ==
  ASSUME NEW T, NEW s \in Seq(T), NEW t \in T, s # <<>>, Head(s) # t
  PROVE  Head(Unlink(s, t)) = Head(s)
<1>0. DOMAIN s = 1..Len(s) /\ Len(s) \in Nat \ {0} /\ Head(s) = s[1]
  OBVIOUS
<1>1. CASE t \notin ToSet(s)
  BY <1>1 DEF Unlink
<1>2. CASE t \in ToSet(s)
  <2> DEFINE n == CHOOSE i \in DOMAIN s : s[i] = t
             front == SubSeq(s, 1, n - 1)
             back == SubSeq(s, n + 1, Len(s))
  <2>1. n \in 1..Len(s) /\ s[n] = t
    BY <1>0, <1>2 DEF ToSet
  <2>2. Unlink(s, t) = front \o back
    BY <1>2 DEF Unlink, RemoveAt
  <2> HIDE DEF n
  <2>3. n \in 2..Len(s)
    BY <1>0, <2>1
  <2>4. front \in Seq(T) /\ Len(front) = n - 1 /\ front[1] = s[1]
    <3>1. \A i \in 1..(n - 1) : s[i] \in T
      BY <2>1, <1>0
    <3>2. n - 1 \in Int /\ 1 \in Int /\ 1 \in 1..(n - 1)
      BY <2>3
    <3> QED BY <3>1, <3>2, <2>3, SubSeqProperties
  <2>5. back \in Seq(T)
    <3>1. \A i \in (n + 1)..Len(s) : s[i] \in T
      BY <2>1, <1>0
    <3>2. n + 1 \in Int /\ Len(s) \in Int
      BY <2>1, <1>0
    <3> QED BY <3>1, <3>2, SubSeqProperties
  <2> HIDE DEF front, back
  <2>6. front \o back # <<>> /\ (front \o back)[1] = front[1]
    BY <2>3, <2>4, <2>5
  <2>7. front \o back \in Seq(T)
    BY <2>4, <2>5
  <2>8. Head(front \o back) = (front \o back)[1]
    BY <2>6, <2>7
  <2> QED BY <1>0, <2>2, <2>4, <2>6, <2>8
<1> QED BY <1>1, <1>2

USE PrioAssumption, SliceAssumption

-----------------------------------------------------------------------------
(* What an operation leaves alone *)

SameLists(n, k) == /\ n.ready = k.ready /\ n.wait = k.wait /\ n.defunct = k.defunct
                   /\ n.group = k.group /\ n.prio = k.prio

SameRest(n, k) == /\ n.cur = k.cur /\ n.prio = k.prio
                  /\ n.timer = k.timer /\ n.nest = k.nest

\* only the state of t changes, to st
OneStat(n, k, t, st) == n.stat = [k.stat EXCEPT ![t] = st]

SameOthers(n, k) == WaitSet(n) = WaitSet(k) /\ DefunctSet(n) = DefunctSet(k)

\* t is in no list other than the ready lists
NoOther(k, t) == t \notin WaitSet(k) /\ t \notin DefunctSet(k)

-----------------------------------------------------------------------------
(* The fields that an operation changes *)

LEMMA ListRemoveFields ==
  ASSUME NEW k \in Kernel, NEW t \in Thread, NoRepeats(k)
  PROVE  LET u == ListRemove(k, t)
         IN /\ u \in Kernel
            /\ NoRepeats(u)
            /\ \A p \in Prio : u.ready[p] = Unlink(k.ready[p], t)
            /\ \A p \in Prio : ToSet(u.ready[p]) = ToSet(k.ready[p]) \ {t}
            /\ \A o \in WaitObj : ToSet(u.wait[o]) = ToSet(k.wait[o]) \ {t}
            /\ ToSet(u.defunct) = ToSet(k.defunct) \ {t}
            /\ u.cur = k.cur /\ u.stat = k.stat /\ u.prio = k.prio
            /\ u.yield = k.yield /\ u.group = k.group /\ u.nest = k.nest
            /\ u.timer = k.timer /\ u.error = k.error /\ u.left = k.left
<1> DEFINE u == ListRemove(k, t)
<1>1. /\ k.ready \in [Prio -> Seq(Thread)]
      /\ k.wait \in [WaitObj -> Seq(Thread)]
      /\ k.defunct \in Seq(Thread)
  BY DEF Kernel
<1>2. /\ u.ready = [p \in Prio |-> Unlink(k.ready[p], t)]
      /\ u.wait = [o \in WaitObj |-> Unlink(k.wait[o], t)]
      /\ u.defunct = Unlink(k.defunct, t)
      /\ u.cur = k.cur /\ u.stat = k.stat /\ u.prio = k.prio
      /\ u.yield = k.yield /\ u.group = k.group /\ u.nest = k.nest
      /\ u.timer = k.timer /\ u.error = k.error /\ u.left = k.left
  BY DEF Kernel, ListRemove
<1>3. \A p \in Prio : /\ Unlink(k.ready[p], t) \in Seq(Thread)
                      /\ ToSet(Unlink(k.ready[p], t)) = ToSet(k.ready[p]) \ {t}
                      /\ IsInjective(Unlink(k.ready[p], t))
  BY <1>1, UnlinkLemma DEF NoRepeats
<1>4. \A o \in WaitObj : /\ Unlink(k.wait[o], t) \in Seq(Thread)
                         /\ ToSet(Unlink(k.wait[o], t)) = ToSet(k.wait[o]) \ {t}
                         /\ IsInjective(Unlink(k.wait[o], t))
  BY <1>1, UnlinkLemma DEF NoRepeats
<1>5. /\ Unlink(k.defunct, t) \in Seq(Thread)
      /\ ToSet(Unlink(k.defunct, t)) = ToSet(k.defunct) \ {t}
      /\ IsInjective(Unlink(k.defunct, t))
  BY <1>1, UnlinkLemma DEF NoRepeats
<1>6. u \in Kernel
  BY <1>3, <1>4, <1>5 DEF Kernel, ListRemove
<1>7. NoRepeats(u)
  BY <1>2, <1>3, <1>4, <1>5 DEF NoRepeats
<1> QED
  BY <1>2, <1>3, <1>4, <1>5, <1>6, <1>7

LEMMA RemoveFields ==
  ASSUME NEW k \in Kernel, NEW t \in Thread, NoRepeats(k), Bitmap(k),
         \A p \in Prio : p # k.prio[t] => t \notin ToSet(k.ready[p])
  PROVE  LET u == RemoveThread(k, t)
         IN /\ u \in Kernel
            /\ NoRepeats(u)
            /\ Bitmap(u)
            /\ \A p \in Prio : ToSet(u.ready[p]) = ToSet(k.ready[p]) \ {t}
            /\ \A o \in WaitObj : ToSet(u.wait[o]) = ToSet(k.wait[o]) \ {t}
            /\ ToSet(u.defunct) = ToSet(k.defunct) \ {t}
            /\ u.cur = k.cur /\ u.stat = k.stat /\ u.prio = k.prio
            /\ u.yield = k.yield /\ u.nest = k.nest
            /\ u.timer = k.timer /\ u.error = k.error /\ u.left = k.left
<1> DEFINE l == ListRemove(k, t)
           u == RemoveThread(k, t)
           q == k.prio[t]
<1>1. /\ l \in Kernel
      /\ NoRepeats(l)
      /\ \A p \in Prio : l.ready[p] = Unlink(k.ready[p], t)
      /\ \A p \in Prio : ToSet(l.ready[p]) = ToSet(k.ready[p]) \ {t}
      /\ \A o \in WaitObj : ToSet(l.wait[o]) = ToSet(k.wait[o]) \ {t}
      /\ ToSet(l.defunct) = ToSet(k.defunct) \ {t}
      /\ l.cur = k.cur /\ l.stat = k.stat /\ l.prio = k.prio
      /\ l.yield = k.yield /\ l.group = k.group /\ l.nest = k.nest
      /\ l.timer = k.timer /\ l.error = k.error /\ l.left = k.left
  BY ListRemoveFields
<1>2. q \in Prio
  BY DEF Kernel
<1>3. u = IF l.ready[q] = <<>> THEN [l EXCEPT !.group = @ \ {q}] ELSE l
  BY DEF RemoveThread
<1> HIDE DEF l, u
<1>4. /\ u \in Kernel
      /\ u.ready = l.ready /\ u.wait = l.wait /\ u.defunct = l.defunct
      /\ u.group = IF l.ready[q] = <<>> THEN k.group \ {q} ELSE k.group
      /\ u.cur = l.cur /\ u.stat = l.stat /\ u.prio = l.prio
      /\ u.yield = l.yield /\ u.nest = l.nest
      /\ u.timer = l.timer /\ u.error = l.error /\ u.left = l.left
  BY <1>1, <1>3 DEF Kernel
<1>5. NoRepeats(u)
  BY <1>1, <1>4 DEF NoRepeats
<1>6. ASSUME NEW p \in Prio, p # q
      PROVE  u.ready[p] = k.ready[p]
  BY <1>1, <1>4, <1>6 DEF Unlink
<1>7. Bitmap(u)
  <2>1. \A p \in Prio : p # q => u.ready[p] = k.ready[p]
    BY <1>6
  <2>2. k.group = {p \in Prio : k.ready[p] # <<>>}
    BY DEF Bitmap
  <2>3. \A p \in Prio : p # q => (p \in u.group <=> u.ready[p] # <<>>)
    BY <1>4, <2>1, <2>2
  <2>4. q \in u.group <=> u.ready[q] # <<>>
    <3>1. CASE u.ready[q] = <<>>
      BY <3>1, <1>4
    <3>2. CASE u.ready[q] # <<>>
      <4>1. u.group = k.group
        BY <3>2, <1>4
      <4>2. k.ready[q] \in Seq(Thread) /\ u.ready[q] \in Seq(Thread)
        BY <1>2, <1>4 DEF Kernel
      <4>3. /\ ToSet(u.ready[q]) # {}
            /\ (k.ready[q] = <<>>) <=> (ToSet(k.ready[q]) = {})
        <5>1. (k.ready[q] = <<>>) <=> (ToSet(k.ready[q]) = {})
          BY <4>2, HeadLemma
        <5>2. (u.ready[q] = <<>>) <=> (ToSet(u.ready[q]) = {})
          BY <4>2, HeadLemma
        <5> QED BY <5>1, <5>2, <3>2
      <4>4. k.ready[q] # <<>>
        <5>1. ToSet(u.ready[q]) = ToSet(k.ready[q]) \ {t}
          BY <1>1, <1>2, <1>4
        <5>2. ToSet(k.ready[q]) # {}
          BY <4>3, <5>1
        <5> QED BY <4>3, <5>2
      <4> QED BY <4>1, <4>4, <3>2, <2>2, <1>2
    <3> QED BY <3>1, <3>2
  <2>5. u.group \subseteq Prio
    BY <1>4 DEF Kernel
  <2> QED BY <2>3, <2>4, <2>5, <1>2 DEF Bitmap
<1> QED
  BY <1>1, <1>4, <1>5, <1>6, <1>7 DEF u

-----------------------------------------------------------------------------
(* The operations keep QueueLists *)

\* A thread that is not READY may be counted as unlinked or not.
LEMMA RemovedNotReady ==
  ASSUME NEW k, NEW R, NEW t \in Thread, k.stat[t] # "READY"
  PROVE  QueueLists(k, R \cup {t}) <=> QueueLists(k, R)
BY DEF QueueLists, ReadyLists

\* rt_schedule_insert_thread of a thread that is linked nowhere: it ends up in
\* the ready list of its priority, or RUNNING if it is the current one.
LEMMA InsertLemma ==
  ASSUME NEW k, NEW R, NEW t \in Thread, QueueLists(k, R \cup {t}),
         t \notin R, NoOther(k, t)
  PROVE  LET n == InsertThread(k, t)
         IN /\ QueueLists(n, R)
            /\ SameRest(n, k) /\ SameOthers(n, k)
            /\ OneStat(n, k, t, IF t = k.cur THEN "RUNNING" ELSE "READY")
<1> DEFINE n == InsertThread(k, t)
           q == k.prio[t]
           newlist == IF t \in k.yield THEN Append(k.ready[q], t) ELSE Cons(t, k.ready[q])
<1>1. /\ k \in Kernel /\ q \in Prio
      /\ k.ready \in [Prio -> Seq(Thread)] /\ k.stat \in [Thread -> Stat]
  BY DEF QueueLists, Kernel
<1>2. \A p \in Prio : t \notin ToSet(k.ready[p])
  BY DEF QueueLists, ReadyLists
<1>3. CASE t = k.cur
  <2>1. n = [k EXCEPT !.stat[t] = "RUNNING"]
    BY <1>3 DEF InsertThread
  <2> HIDE DEF n
  <2>2. /\ n \in Kernel
        /\ n.stat = [k.stat EXCEPT ![t] = "RUNNING"]
        /\ n.cur = k.cur /\ n.prio = k.prio /\ n.timer = k.timer
        /\ n.nest = k.nest /\ n.group = k.group
        /\ n.ready = k.ready /\ n.wait = k.wait /\ n.defunct = k.defunct
    BY <2>1, <1>1 DEF Kernel, Stat
  <2>3. WaitSet(n) = WaitSet(k) /\ DefunctSet(n) = DefunctSet(k)
    BY <2>2 DEF WaitSet, DefunctSet
  <2>4. ReadyLists(n, R)
    BY <2>2, <1>1, <1>2 DEF ReadyLists, QueueLists
  <2>5. Bitmap(n) /\ NoRepeats(n)
    BY <2>2 DEF Bitmap, NoRepeats, QueueLists
  <2>7. OtherLists(n)
    BY <2>2, <2>3, <1>1 DEF OtherLists, QueueLists, NoOther
  <2>8. QueueLists(n, R)
    BY <2>2, <2>4, <2>5, <2>7 DEF QueueLists
  <2> QED BY <2>2, <2>3, <2>8, <1>3 DEF n, SameRest, SameOthers, OneStat
<1>4. CASE t # k.cur
  <2>1. n = [k EXCEPT !.stat[t] = "READY",
                      !.ready[q] = newlist,
                      !.group = @ \cup {q}]
    BY <1>4 DEF InsertThread
  <2>2. /\ newlist \in Seq(Thread) /\ newlist # <<>>
        /\ ToSet(newlist) = ToSet(k.ready[q]) \cup {t}
        /\ IsInjective(newlist)
    <3>1. k.ready[q] \in Seq(Thread) /\ t \notin ToSet(k.ready[q])
      BY <1>1, <1>2
    <3>2. IsInjective(k.ready[q])
      BY <1>1 DEF QueueLists, NoRepeats
    <3>3. CASE t \in k.yield
      BY <3>1, <3>2, <3>3, AppendLemma
    <3>4. CASE t \notin k.yield
      <4> DEFINE old == k.ready[q]
      <4>1. newlist = Cons(t, old)
        BY <3>4
      <4>2. old \in Seq(Thread) /\ t \notin ToSet(old) /\ IsInjective(old)
        BY <3>1, <3>2
      <4> HIDE DEF old, newlist
      <4>3. /\ newlist \in Seq(Thread) /\ newlist # <<>>
            /\ ToSet(newlist) = ToSet(old) \cup {t}
            /\ IsInjective(newlist)
        <5>1. /\ Cons(t, old) \in Seq(Thread) /\ Cons(t, old) # <<>>
              /\ ToSet(Cons(t, old)) = ToSet(old) \cup {t}
          BY <4>2, ConsLemma
        <5>2. IsInjective(Cons(t, old))
          BY <4>2, ConsLemma
        <5> QED BY <4>1, <5>1, <5>2
      <4> QED BY <4>3 DEF old
    <3> QED BY <3>3, <3>4
  <2> HIDE DEF n, newlist
  <2>3. /\ n \in Kernel
        /\ n.stat = [k.stat EXCEPT ![t] = "READY"]
        /\ n.ready = [k.ready EXCEPT ![q] = newlist]
        /\ n.group = k.group \cup {q}
        /\ n.cur = k.cur /\ n.prio = k.prio /\ n.timer = k.timer
        /\ n.nest = k.nest
        /\ n.wait = k.wait /\ n.defunct = k.defunct
    BY <2>1, <2>2, <1>1 DEF Kernel, Stat
  <2>4. WaitSet(n) = WaitSet(k) /\ DefunctSet(n) = DefunctSet(k)
    BY <2>3 DEF WaitSet, DefunctSet
  <2>5. ReadyLists(n, R)
    <3> SUFFICES ASSUME NEW p \in Prio, NEW x \in Thread
                 PROVE  x \in ToSet(n.ready[p])
                          <=> n.stat[x] = "READY" /\ n.prio[x] = p /\ x \notin R
      BY DEF ReadyLists
    <3>1. x \in ToSet(k.ready[p])
            <=> k.stat[x] = "READY" /\ k.prio[x] = p /\ x \notin R \cup {t}
      BY DEF QueueLists, ReadyLists
    <3>2. CASE x = t
      BY <3>2, <1>1, <1>2, <2>2, <2>3
    <3>3. CASE x # t
      BY <3>1, <3>3, <1>1, <2>2, <2>3
    <3> QED BY <3>2, <3>3
  <2>6. Bitmap(n)
    BY <2>2, <2>3, <1>1 DEF Bitmap, QueueLists
  <2>7. NoRepeats(n)
    BY <2>2, <2>3, <1>1 DEF NoRepeats, QueueLists
  <2>9. OtherLists(n)
    BY <2>3, <2>4, <1>1 DEF OtherLists, QueueLists, NoOther
  <2>10. QueueLists(n, R)
    BY <2>3, <2>5, <2>6, <2>7, <2>9 DEF QueueLists
  <2> QED BY <2>3, <2>4, <2>10, <1>4 DEF n, SameRest, SameOthers, OneStat
<1> QED BY <1>3, <1>4

\* rt_schedule_remove_thread: the thread is linked nowhere afterwards.
LEMMA RemoveLemma ==
  ASSUME NEW k, NEW R, NEW t \in Thread, QueueLists(k, R)
  PROVE  LET n == RemoveThread(k, t)
         IN /\ QueueLists(n, R \cup {t})
            /\ SameRest(n, k) /\ n.stat = k.stat
            /\ WaitSet(n) = WaitSet(k) \ {t}
            /\ DefunctSet(n) = DefunctSet(k) \ {t}
<1> DEFINE n == RemoveThread(k, t)
<1>1. k \in Kernel /\ NoRepeats(k) /\ Bitmap(k) /\ ReadyLists(k, R)
  BY DEF QueueLists
<1>2. \A p \in Prio : p # k.prio[t] => t \notin ToSet(k.ready[p])
  BY <1>1 DEF ReadyLists
<1>3. /\ n \in Kernel /\ NoRepeats(n) /\ Bitmap(n)
      /\ \A p \in Prio : ToSet(n.ready[p]) = ToSet(k.ready[p]) \ {t}
      /\ \A o \in WaitObj : ToSet(n.wait[o]) = ToSet(k.wait[o]) \ {t}
      /\ ToSet(n.defunct) = ToSet(k.defunct) \ {t}
      /\ n.cur = k.cur /\ n.stat = k.stat /\ n.prio = k.prio
      /\ n.nest = k.nest /\ n.timer = k.timer
  BY <1>1, <1>2, RemoveFields
<1> HIDE DEF n
<1>4. ReadyLists(n, R \cup {t})
  BY <1>1, <1>3 DEF ReadyLists
<1>5. WaitSet(n) = WaitSet(k) \ {t} /\ DefunctSet(n) = DefunctSet(k) \ {t}
  BY <1>3 DEF WaitSet, DefunctSet
<1>6. OtherLists(n)
  BY <1>3, <1>5 DEF OtherLists, QueueLists
<1> QED BY <1>3, <1>4, <1>5, <1>6 DEF QueueLists, SameRest, n

\* What RemoveLemma says of a thread that no other list held.
LEMMA RemoveReadyLemma ==
  ASSUME NEW k, NEW R, NEW t \in Thread, QueueLists(k, R), NoOther(k, t)
  PROVE  LET n == RemoveThread(k, t)
         IN /\ QueueLists(n, R \cup {t})
            /\ SameRest(n, k) /\ n.stat = k.stat /\ SameOthers(n, k)
            /\ NoOther(n, t)
<1> DEFINE n == RemoveThread(k, t)
<1>1. /\ QueueLists(n, R \cup {t})
      /\ SameRest(n, k) /\ n.stat = k.stat
      /\ WaitSet(n) = WaitSet(k) \ {t}
      /\ DefunctSet(n) = DefunctSet(k) \ {t}
  BY RemoveLemma, Zenon
<1> HIDE DEF n
<1>2. SameOthers(n, k) /\ NoOther(n, t)
  BY <1>1 DEF SameOthers, NoOther
<1> QED BY <1>1, <1>2 DEF n

\* Two fields the lists depend on only through QueueLists.
LEMMA StatFields ==
  ASSUME NEW u \in Kernel, NEW t \in Thread, NEW st \in Stat, NEW y \in SUBSET Thread
  PROVE  LET n == [u EXCEPT !.yield = y, !.stat[t] = st]
         IN /\ n \in Kernel /\ SameLists(n, u) /\ SameRest(n, u)
            /\ OneStat(n, u, t, st)
BY DEF Kernel, SameLists, SameRest, OneStat

\* The fields the lists do not depend on.
LEMMA FrameLemma ==
  ASSUME NEW k, NEW R, NEW n \in Kernel, QueueLists(k, R),
         SameLists(n, k), n.stat = k.stat
  PROVE  QueueLists(n, R) /\ SameOthers(n, k)
<1>1. WaitSet(n) = WaitSet(k) /\ DefunctSet(n) = DefunctSet(k)
  BY DEF WaitSet, DefunctSet, SameLists
<1> QED
  BY <1>1 DEF QueueLists, ReadyLists, Bitmap, NoRepeats, OtherLists, SameLists, SameOthers

\* A thread that is linked nowhere may get any state but READY.
LEMMA SetStatLemma ==
  ASSUME NEW k, NEW R, NEW t \in Thread, NEW st \in Stat \ {"READY"}, NEW n \in Kernel,
         QueueLists(k, R \cup {t}), NoOther(k, t),
         SameLists(n, k), OneStat(n, k, t, st)
  PROVE  QueueLists(n, R) /\ SameOthers(n, k)
<1>0. /\ n.ready = k.ready /\ n.wait = k.wait /\ n.defunct = k.defunct
      /\ n.group = k.group /\ n.prio = k.prio /\ n.stat = [k.stat EXCEPT ![t] = st]
  BY DEF SameLists, OneStat
<1>1. WaitSet(n) = WaitSet(k) /\ DefunctSet(n) = DefunctSet(k)
  BY <1>0 DEF WaitSet, DefunctSet
<1>2. k.stat \in [Thread -> Stat]
  BY DEF QueueLists, Kernel
<1>3. ReadyLists(n, R)
  BY <1>0, <1>2 DEF QueueLists, ReadyLists
<1>4. Bitmap(n) /\ NoRepeats(n)
  BY <1>0 DEF QueueLists, Bitmap, NoRepeats
<1>5. WaitSet(k) \subseteq Thread /\ DefunctSet(k) \subseteq Thread
  <2>1. \A o \in WaitObj : k.wait[o] \in Seq(Thread)
    BY DEF QueueLists, Kernel
  <2>2. \A o \in WaitObj : ToSet(k.wait[o]) \subseteq Thread
    BY <2>1, HeadLemma
  <2>3. k.defunct \in Seq(Thread)
    BY DEF QueueLists, Kernel
  <2>4. ToSet(k.defunct) \subseteq Thread
    BY <2>3, HeadLemma
  <2> QED BY <2>2, <2>4 DEF WaitSet, DefunctSet
<1>6. OtherLists(n)
  BY <1>0, <1>1, <1>2, <1>5 DEF QueueLists, OtherLists, NoOther
<1> QED BY <1>1, <1>3, <1>4, <1>6 DEF QueueLists, SameOthers

\* _scheduler_get_highest_priority_thread finds a READY thread of the highest
\* priority that has one.
LEMMA HighestLemma ==
  ASSUME NEW k, NEW R, QueueLists(k, R), k.group # {}
  PROVE  /\ HighestPrio(k) \in Prio
         /\ HighestThread(k) \in Thread
         /\ k.stat[HighestThread(k)] = "READY"
         /\ k.prio[HighestThread(k)] = HighestPrio(k)
         /\ HighestThread(k) \notin R
         /\ \A t \in Thread : k.stat[t] = "READY" /\ t \notin R =>
                HighestPrio(k) <= k.prio[t]
<1> DEFINE hp == HighestPrio(k)
           top == HighestThread(k)
<1>1. k.group \in SUBSET Prio /\ k.ready \in [Prio -> Seq(Thread)] /\ k.prio \in [Thread -> Prio]
  BY DEF QueueLists, Kernel
<1>2. \E m \in k.group : \A n \in k.group : m <= n
  BY <1>1, LeastNatural
<1>3. hp \in k.group /\ \A n \in k.group : hp <= n
  BY <1>2 DEF HighestPrio, Min
<1> HIDE DEF hp
<1>4. hp \in Prio /\ k.ready[hp] # <<>>
  BY <1>1, <1>3 DEF QueueLists, Bitmap
<1>5. top = Head(k.ready[hp])
  BY DEF HighestThread, hp
<1> HIDE DEF top
<1>6. k.ready[hp] \in Seq(Thread)
  BY <1>1, <1>4
<1>7. top \in ToSet(k.ready[hp]) /\ top \in Thread
  BY <1>4, <1>5, <1>6, HeadLemma
<1>8. k.stat[top] = "READY" /\ k.prio[top] = hp /\ top \notin R
  BY <1>4, <1>7 DEF QueueLists, ReadyLists
<1>9. ASSUME NEW t \in Thread, k.stat[t] = "READY", t \notin R PROVE hp <= k.prio[t]
  <2>1. k.prio[t] \in Prio /\ t \in ToSet(k.ready[k.prio[t]])
    BY <1>1, <1>9 DEF QueueLists, ReadyLists
  <2>2. k.ready[k.prio[t]] \in Seq(Thread)
    BY <1>1, <2>1
  <2>3. k.ready[k.prio[t]] # <<>>
    BY <2>1, <2>2, HeadLemma
  <2>4. k.prio[t] \in k.group
    BY <2>1, <2>3 DEF QueueLists, Bitmap
  <2> QED BY <1>3, <2>4
<1> QED BY <1>4, <1>7, <1>8, <1>9 DEF hp, top

-----------------------------------------------------------------------------
(* rt_schedule keeps QueueInv *)

\* The current thread t keeps the processor.
LEMMA KeepLemma ==
  ASSUME NEW k, NEW R, NEW t \in Thread, QueueInv(k, R),
         t = k.cur, k.stat[t] = "RUNNING"
  PROVE  LET n == [RemoveThread(k, t) EXCEPT !.yield = @ \ {t}, !.stat[t] = "RUNNING"]
         IN /\ QueueInv(n, R) /\ SameRest(n, k) /\ SameOthers(n, k)
            /\ n.stat = k.stat
<1> DEFINE u == RemoveThread(k, t)
           n == [u EXCEPT !.yield = u.yield \ {t}, !.stat[t] = "RUNNING"]
<1>1. /\ QueueLists(k, R) /\ OneRunning(k) /\ k.stat \in [Thread -> Stat]
  BY DEF QueueInv, QueueLists, Kernel
<1>2. NoOther(k, t)
  BY <1>1 DEF QueueLists, OtherLists, NoOther
<1>3. /\ QueueLists(u, R \cup {t})
      /\ SameRest(u, k) /\ u.stat = k.stat /\ SameOthers(u, k)
      /\ NoOther(u, t)
  BY <1>1, <1>2, RemoveReadyLemma
<1> HIDE DEF u
<1>4. u \in Kernel /\ u.yield \ {t} \in SUBSET Thread
  BY <1>3 DEF QueueLists, Kernel
<1>5. "RUNNING" \in Stat \ {"READY"} /\ "RUNNING" \in Stat
  BY DEF Stat
<1>6. /\ n \in Kernel /\ SameLists(n, u) /\ SameRest(n, u)
      /\ OneStat(n, u, t, "RUNNING")
  BY <1>4, <1>5, StatFields
<1> HIDE DEF n
<1>7. QueueLists(n, R) /\ SameOthers(n, u)
  BY <1>3, <1>5, <1>6, SetStatLemma
<1>8. n.stat = k.stat
  BY <1>1, <1>3, <1>6 DEF OneStat
<1>9. SameRest(n, k) /\ SameOthers(n, k)
  BY <1>3, <1>6, <1>7 DEF SameRest, SameOthers
<1>10. OneRunning(n)
  BY <1>1, <1>8, <1>9 DEF OneRunning, SameRest
<1> QED BY <1>7, <1>8, <1>9, <1>10 DEF QueueInv, n, u

\* The switch from the current thread t to the ready thread to.
LEMMA SwitchLemma ==
  ASSUME NEW k, NEW R, NEW t \in Thread, NEW to \in Thread, QueueInv(k, R),
         t = k.cur, t \notin R, k.stat[to] = "READY", to \notin R
  PROVE  LET n == SwitchTo(k, to)
         IN /\ QueueInv(n, R)
            /\ n.cur = to /\ n.prio = k.prio /\ n.timer = k.timer /\ n.nest = k.nest
            /\ SameOthers(n, k)
            /\ n.stat[to] = "RUNNING"
            /\ n.stat[t] = IF k.stat[t] = "RUNNING" THEN "READY" ELSE k.stat[t]
            /\ \A x \in Thread : x # t /\ x # to => n.stat[x] = k.stat[x]
<1> DEFINE running == k.stat[t] = "RUNNING"
           from == [k EXCEPT !.yield = IF running THEN @ \ {t} ELSE @, !.cur = to]
           queued == IF running THEN InsertThread(from, t) ELSE from
           u == RemoveThread(queued, to)
           n == [u EXCEPT !.yield = u.yield, !.stat[to] = "RUNNING"]
<1>1. /\ QueueLists(k, R) /\ OneRunning(k) /\ k \in Kernel
      /\ k.stat \in [Thread -> Stat] /\ t # to
  BY DEF QueueInv, QueueLists, Kernel, OneRunning
<1>2. /\ from \in Kernel /\ SameLists(from, k)
      /\ from.cur = to /\ from.stat = k.stat
      /\ from.timer = k.timer /\ from.nest = k.nest
  BY <1>1 DEF Kernel, SameLists
<1>3. u \in Kernel => SwitchTo(k, to) = n
  <2>1. SwitchTo(k, to) = [u EXCEPT !.stat[to] = "RUNNING"]
    BY DEF SwitchTo
  <2> HIDE DEF u
  <2> QED BY <2>1 DEF Kernel
<1> HIDE DEF from
<1>4. QueueLists(from, R) /\ SameOthers(from, k)
  BY <1>1, <1>2, FrameLemma
<1>5. /\ QueueLists(queued, R)
      /\ SameRest(queued, from) /\ SameOthers(queued, from)
      /\ IF running THEN OneStat(queued, from, t, "READY") ELSE queued.stat = from.stat
  <2>1. CASE ~running
    BY <2>1, <1>4 DEF SameRest, SameOthers
  <2>2. CASE running
    <3>1. QueueLists(from, R \cup {t})
      BY <2>2, <1>2, <1>4, RemovedNotReady
    <3>2. NoOther(from, t)
      BY <2>2, <1>1, <1>4 DEF QueueLists, OtherLists, SameOthers, NoOther
    <3> DEFINE q == InsertThread(from, t)
    <3>3. /\ QueueLists(q, R)
          /\ SameRest(q, from) /\ SameOthers(q, from)
          /\ OneStat(q, from, t, IF t = from.cur THEN "RUNNING" ELSE "READY")
      BY <3>1, <3>2, InsertLemma
    <3> HIDE DEF q
    <3>4. OneStat(q, from, t, "READY")
      BY <3>3, <1>1, <1>2
    <3> QED BY <2>2, <3>3, <3>4 DEF q
  <2> QED BY <2>1, <2>2
<1> HIDE DEF queued
<1>6. /\ queued.cur = to /\ queued.prio = k.prio
      /\ queued.timer = k.timer /\ queued.nest = k.nest
      /\ SameOthers(queued, k)
      /\ queued.stat = IF running THEN [k.stat EXCEPT ![t] = "READY"] ELSE k.stat
  <2>1. from.prio = k.prio
    BY <1>2 DEF SameLists
  <2> QED BY <2>1, <1>2, <1>4, <1>5 DEF SameRest, SameOthers, OneStat
<1>7. NoOther(queued, to)
  BY <1>1, <1>6 DEF QueueLists, OtherLists, SameOthers, NoOther
<1>8. /\ QueueLists(u, R \cup {to})
      /\ SameRest(u, queued) /\ u.stat = queued.stat /\ SameOthers(u, queued)
      /\ NoOther(u, to)
  BY <1>5, <1>7, RemoveReadyLemma
<1> HIDE DEF u
<1>9. u \in Kernel /\ u.yield \in SUBSET Thread
  BY <1>8 DEF QueueLists, Kernel
<1>10. "RUNNING" \in Stat \ {"READY"} /\ "RUNNING" \in Stat
  BY DEF Stat
<1>11. /\ n \in Kernel /\ SameLists(n, u) /\ SameRest(n, u)
       /\ OneStat(n, u, to, "RUNNING")
  BY <1>9, <1>10, StatFields
<1> HIDE DEF n
<1>12. QueueLists(n, R) /\ SameOthers(n, u)
  BY <1>8, <1>10, <1>11, SetStatLemma
<1>13. /\ n.stat[to] = "RUNNING"
       /\ n.stat[t] = IF running THEN "READY" ELSE k.stat[t]
       /\ \A x \in Thread : x # t /\ x # to => n.stat[x] = k.stat[x]
  BY <1>1, <1>6, <1>8, <1>11 DEF OneStat
<1>14. /\ n.cur = to /\ n.prio = k.prio /\ n.timer = k.timer /\ n.nest = k.nest
       /\ SameOthers(n, k)
  BY <1>6, <1>8, <1>11, <1>12 DEF SameRest, SameOthers
<1>15. OneRunning(n)
  BY <1>1, <1>13, <1>14 DEF OneRunning
<1>16. SwitchTo(k, to) = n
  BY <1>3, <1>9
<1> QED BY <1>12, <1>13, <1>14, <1>15, <1>16 DEF QueueInv

\* What rt_schedule may change: the current thread, and which of the runnable
\* threads is RUNNING.
Scheduled(n, k) ==
  /\ n.prio = k.prio /\ n.timer = k.timer /\ n.nest = k.nest
  /\ SameOthers(n, k)
  /\ n.cur = k.cur \/ (k.nest = 0 /\ k.stat[n.cur] = "READY")
  /\ \A x \in Thread : \/ n.stat[x] = k.stat[x]
                       \/ {n.stat[x], k.stat[x]} = {"READY", "RUNNING"}

\* rt_schedule keeps the invariant, and does not pick an unlinked thread.
LEMMA ScheduleLemma ==
  ASSUME NEW k, NEW R, QueueInv(k, R), k.cur \notin R
  PROVE  LET n == Schedule(k)
         IN QueueInv(n, R) /\ n.cur \notin R /\ Scheduled(n, k)
<1> DEFINE n == Schedule(k)
<1>1. PICK t : t = k.cur
  OBVIOUS
<1>2. /\ QueueLists(k, R) /\ OneRunning(k) /\ k.stat \in [Thread -> Stat]
      /\ t \in Thread /\ t \notin R
  BY <1>1 DEF QueueInv, QueueLists, Kernel
<1>3. CASE k.nest # 0 \/ k.group = {}
  <2>1. n = k
    BY <1>3 DEF Schedule
  <2> HIDE DEF n
  <2> QED BY <2>1 DEF Scheduled, SameOthers, n
<1>4. CASE k.nest = 0 /\ k.group # {}
  <2> DEFINE top == HighestThread(k)
             pick == PickThread(k)
  <2>1. top \in Thread /\ k.stat[top] = "READY" /\ top \notin R
    BY <1>2, <1>4, HighestLemma
  <2>2. top # t
    BY <2>1, <1>1, <1>2 DEF OneRunning
  <2>3. \/ pick = t /\ k.stat[t] = "RUNNING"
        \/ pick = top
    BY <1>1 DEF PickThread
  <2> HIDE DEF top, pick
  <2>4. CASE pick = t /\ k.stat[t] = "RUNNING"
    <3> DEFINE m == [RemoveThread(k, t) EXCEPT !.yield = @ \ {t}, !.stat[t] = "RUNNING"]
    <3>1. n = m
      BY <1>1, <1>4, <2>4 DEF Schedule, pick
    <3>2. QueueInv(m, R) /\ SameRest(m, k) /\ SameOthers(m, k) /\ m.stat = k.stat
      BY <1>1, <1>2, <2>4, KeepLemma
    <3> HIDE DEF m, n
    <3>3. m.cur = k.cur /\ m.cur \notin R
      BY <3>2 DEF SameRest
    <3>4. Scheduled(m, k)
      BY <3>2, <3>3 DEF Scheduled, SameRest
    <3> QED BY <3>1, <3>2, <3>3, <3>4 DEF n
  <2>5. CASE pick = top
    <3> DEFINE m == SwitchTo(k, top)
    <3>1. n = m
      BY <1>1, <1>4, <2>2, <2>5 DEF Schedule, pick
    <3>2. /\ QueueInv(m, R)
          /\ m.cur = top /\ m.prio = k.prio /\ m.timer = k.timer /\ m.nest = k.nest
          /\ SameOthers(m, k)
          /\ m.stat[top] = "RUNNING"
          /\ m.stat[t] = IF k.stat[t] = "RUNNING" THEN "READY" ELSE k.stat[t]
          /\ \A x \in Thread : x # t /\ x # top => m.stat[x] = k.stat[x]
      BY <1>1, <1>2, <2>1, SwitchLemma
    <3> HIDE DEF m, n
    <3>3. \A x \in Thread : \/ m.stat[x] = k.stat[x]
                            \/ {m.stat[x], k.stat[x]} = {"READY", "RUNNING"}
      BY <2>1, <3>2
    <3>4. Scheduled(m, k) /\ m.cur \notin R
      BY <1>4, <2>1, <3>2, <3>3 DEF Scheduled
    <3> QED BY <3>1, <3>2, <3>4 DEF n
  <2> QED BY <2>3, <2>4, <2>5
<1>5. k.nest # 0 \/ k.nest = 0
  OBVIOUS
<1> QED BY <1>3, <1>4, <1>5

-----------------------------------------------------------------------------
(* rt_schedule picks a thread of the highest priority *)

\* the current thread runs and no READY thread is more urgent
Top(k, R) == /\ k.stat[k.cur] = "RUNNING"
             /\ \A x \in Thread :
                  k.stat[x] = "READY" /\ x \notin R => k.prio[k.cur] <= k.prio[x]

LEMMA ScheduleTop ==
  ASSUME NEW k, NEW R, QueueInv(k, R), k.cur \notin R, k.nest = 0,
         k.group = {} => k.stat[k.cur] = "RUNNING"
  PROVE  Top(Schedule(k), R)
<1> DEFINE n == Schedule(k)
<1>1. PICK t : t = k.cur
  OBVIOUS
<1>2. /\ QueueLists(k, R) /\ OneRunning(k) /\ t \in Thread /\ k \in Kernel
      /\ k.prio \in [Thread -> Prio] /\ k.ready \in [Prio -> Seq(Thread)]
  BY <1>1 DEF QueueInv, QueueLists, Kernel
<1>3. CASE k.group = {}
  <2>1. n = k
    BY <1>3 DEF Schedule
  <2>2. ASSUME NEW x \in Thread, k.stat[x] = "READY", x \notin R PROVE FALSE
    <3>1. k.prio[x] \in Prio /\ x \in ToSet(k.ready[k.prio[x]])
      BY <1>2, <2>2 DEF QueueLists, ReadyLists
    <3>2. k.ready[k.prio[x]] \in Seq(Thread)
      BY <1>2, <3>1
    <3>3. k.ready[k.prio[x]] # <<>>
      BY <3>1, <3>2, HeadLemma
    <3> QED BY <1>2, <1>3, <3>1, <3>3 DEF QueueLists, Bitmap
  <2> HIDE DEF n
  <2> QED BY <1>3, <2>1, <2>2 DEF Top, n
<1>4. CASE k.group # {}
  <2> DEFINE top == HighestThread(k)
             hp == HighestPrio(k)
             pick == PickThread(k)
  <2>1. /\ top \in Thread /\ k.stat[top] = "READY" /\ k.prio[top] = hp /\ top \notin R
        /\ hp \in Nat
        /\ \A x \in Thread : k.stat[x] = "READY" /\ x \notin R => hp <= k.prio[x]
    BY <1>2, <1>4, HighestLemma
  <2>2. top # t
    BY <1>1, <1>2, <2>1 DEF OneRunning
  <2>3. \/ pick = t /\ k.stat[t] = "RUNNING" /\ k.prio[t] <= hp
        \/ pick = top /\ (k.stat[t] = "RUNNING" => hp <= k.prio[t])
    <3>1. k.prio[t] \in Nat
      BY <1>2
    <3> QED BY <1>1, <2>1, <3>1 DEF PickThread
  <2> HIDE DEF top, hp, pick
  <2>4. CASE pick = t /\ k.stat[t] = "RUNNING" /\ k.prio[t] <= hp
    <3> DEFINE m == [RemoveThread(k, t) EXCEPT !.yield = @ \ {t}, !.stat[t] = "RUNNING"]
    <3>1. n = m
      BY <1>1, <1>4, <2>4 DEF Schedule, pick
    <3>2. SameRest(m, k) /\ m.stat = k.stat
      BY <1>1, <1>2, <2>4, KeepLemma
    <3> HIDE DEF m, n
    <3>3. m.cur = t /\ m.prio = k.prio /\ m.stat = k.stat
      BY <1>1, <3>2 DEF SameRest
    <3>4. \A x \in Thread : k.prio[x] \in Nat
      BY <1>2
    <3> QED BY <1>2, <2>1, <2>4, <3>1, <3>3, <3>4 DEF Top, n
  <2>5. CASE pick = top /\ (k.stat[t] = "RUNNING" => hp <= k.prio[t])
    <3> DEFINE m == SwitchTo(k, top)
    <3>1. n = m
      BY <1>1, <1>4, <2>2, <2>5 DEF Schedule, pick
    <3>2. /\ m.cur = top /\ m.prio = k.prio
          /\ m.stat[top] = "RUNNING"
          /\ m.stat[t] = IF k.stat[t] = "RUNNING" THEN "READY" ELSE k.stat[t]
          /\ \A x \in Thread : x # t /\ x # top => m.stat[x] = k.stat[x]
      BY <1>1, <1>2, <2>1, SwitchLemma
    <3> HIDE DEF m, n
    <3>3. ASSUME NEW x \in Thread, m.stat[x] = "READY", x \notin R
          PROVE  hp <= k.prio[x]
      <4>1. CASE x = t
        <5>1. k.stat[t] # "READY"
          BY <1>1, <1>2 DEF OneRunning
        <5> QED BY <2>5, <3>2, <3>3, <4>1, <5>1
      <4>2. CASE x # t
        BY <2>1, <3>2, <3>3, <4>2
      <4> QED BY <4>1, <4>2
    <3> QED BY <2>1, <3>1, <3>2, <3>3 DEF Top, n
  <2> QED BY <2>3, <2>4, <2>5
<1> QED BY <1>3, <1>4

-----------------------------------------------------------------------------
(* The primitives of thread.c and idle.c keep QueueInv *)

\* A change of the fields that QueueInv does not look at.
LEMMA FrameInv ==
  ASSUME NEW k, NEW R, NEW n \in Kernel, QueueInv(k, R),
         SameLists(n, k), n.stat = k.stat, n.cur = k.cur
  PROVE  QueueInv(n, R) /\ SameOthers(n, k)
<1>1. QueueLists(n, R) /\ SameOthers(n, k)
  BY FrameLemma DEF QueueInv
<1>2. OneRunning(n)
  BY DEF QueueInv, OneRunning
<1> QED BY <1>1, <1>2 DEF QueueInv

\* A thread in no list stops being runnable, or changes between states in
\* which it is not.
LEMMA SetStatInv ==
  ASSUME NEW k, NEW R, NEW t \in Thread, NEW st \in Stat \ {"READY", "RUNNING"},
         NEW n \in Kernel, QueueLists(k, R \cup {t}), OneRunning(k), NoOther(k, t),
         SameLists(n, k), OneStat(n, k, t, st), n.cur = k.cur
  PROVE  QueueInv(n, R) /\ SameOthers(n, k)
<1>1. QueueLists(n, R) /\ SameOthers(n, k)
  BY SetStatLemma
<1>2. k.stat \in [Thread -> Stat] /\ k.cur \in Thread
  BY DEF QueueLists, Kernel
<1>3. OneRunning(n)
  BY <1>2 DEF OneRunning, OneStat
<1> QED BY <1>1, <1>3 DEF QueueInv

\* A thread that is neither suspended nor closed is in no list but a ready list.
LEMMA NoOtherLemma ==
  ASSUME NEW k, NEW R, NEW t, QueueLists(k, R), k.stat[t] \notin {"SUSPEND", "CLOSE"}
  PROVE  NoOther(k, t)
BY DEF QueueLists, OtherLists, NoOther

\* rt_schedule_insert_thread of a thread that is in no list
LEMMA InsertInv ==
  ASSUME NEW k, NEW R, NEW t \in Thread, QueueLists(k, R \cup {t}), OneRunning(k),
         t \notin R, NoOther(k, t)
  PROVE  LET n == InsertThread(k, t)
         IN /\ QueueInv(n, R)
            /\ SameRest(n, k) /\ SameOthers(n, k)
            /\ OneStat(n, k, t, IF t = k.cur THEN "RUNNING" ELSE "READY")
<1> DEFINE n == InsertThread(k, t)
<1>1. /\ QueueLists(n, R) /\ SameRest(n, k) /\ SameOthers(n, k)
      /\ OneStat(n, k, t, IF t = k.cur THEN "RUNNING" ELSE "READY")
  BY InsertLemma
<1>2. k.stat \in [Thread -> Stat] /\ k.cur \in Thread
  BY DEF QueueLists, Kernel
<1> HIDE DEF n
<1>3. OneRunning(n)
  BY <1>1, <1>2 DEF OneRunning, OneStat, SameRest
<1> QED BY <1>1, <1>3 DEF QueueInv, n

\* rt_schedule_remove_thread in rt_thread_detach
LEMMA RemoveInv ==
  ASSUME NEW k, NEW R, NEW t \in Thread, QueueInv(k, R)
  PROVE  LET n == RemoveThread(k, t)
         IN /\ QueueInv(n, R \cup {t})
            /\ SameRest(n, k) /\ n.stat = k.stat
            /\ WaitSet(n) = WaitSet(k) \ {t}
            /\ DefunctSet(n) = DefunctSet(k) \ {t}
<1> DEFINE n == RemoveThread(k, t)
<1>1. QueueLists(k, R) /\ OneRunning(k)
  BY DEF QueueInv
<1>2. /\ QueueLists(n, R \cup {t})
      /\ SameRest(n, k) /\ n.stat = k.stat
      /\ WaitSet(n) = WaitSet(k) \ {t}
      /\ DefunctSet(n) = DefunctSet(k) \ {t}
  BY <1>1, RemoveLemma
<1> HIDE DEF n
<1>3. OneRunning(n)
  BY <1>1, <1>2 DEF OneRunning, SameRest
<1> QED BY <1>2, <1>3 DEF QueueInv, n

\* rt_list_remove of a suspended or closed thread
LEMMA ListRemoveInv ==
  ASSUME NEW k, NEW R, NEW t \in Thread, QueueInv(k, R), k.stat[t] # "READY"
  PROVE  LET n == ListRemove(k, t)
         IN /\ QueueInv(n, R)
            /\ SameRest(n, k) /\ n.stat = k.stat
            /\ WaitSet(n) = WaitSet(k) \ {t}
            /\ DefunctSet(n) = DefunctSet(k) \ {t}
<1> DEFINE n == ListRemove(k, t)
<1>1. /\ k \in Kernel /\ NoRepeats(k) /\ Bitmap(k) /\ ReadyLists(k, R)
      /\ OtherLists(k) /\ OneRunning(k)
  BY DEF QueueInv, QueueLists
<1>2. /\ n \in Kernel
      /\ NoRepeats(n)
      /\ \A p \in Prio : n.ready[p] = Unlink(k.ready[p], t)
      /\ \A p \in Prio : ToSet(n.ready[p]) = ToSet(k.ready[p]) \ {t}
      /\ \A o \in WaitObj : ToSet(n.wait[o]) = ToSet(k.wait[o]) \ {t}
      /\ ToSet(n.defunct) = ToSet(k.defunct) \ {t}
      /\ n.cur = k.cur /\ n.stat = k.stat /\ n.prio = k.prio
      /\ n.group = k.group /\ n.nest = k.nest /\ n.timer = k.timer
  BY <1>1, ListRemoveFields
<1> HIDE DEF n
<1>3. \A p \in Prio : t \notin ToSet(k.ready[p])
  BY <1>1 DEF ReadyLists
<1>4. ReadyLists(n, R)
  BY <1>1, <1>2, <1>3 DEF ReadyLists
<1>5. \A p \in Prio : n.ready[p] = <<>> <=> k.ready[p] = <<>>
  <2> TAKE p \in Prio
  <2>1. n.ready[p] \in Seq(Thread) /\ k.ready[p] \in Seq(Thread)
    BY <1>1, <1>2 DEF Kernel
  <2>2. ToSet(n.ready[p]) = ToSet(k.ready[p])
    BY <1>2, <1>3
  <2>3. (n.ready[p] = <<>> <=> ToSet(n.ready[p]) = {})
    BY <2>1, HeadLemma
  <2>4. (k.ready[p] = <<>> <=> ToSet(k.ready[p]) = {})
    BY <2>1, HeadLemma
  <2> QED BY <2>2, <2>3, <2>4
<1>6. Bitmap(n)
  BY <1>1, <1>2, <1>5 DEF Bitmap
<1>7. WaitSet(n) = WaitSet(k) \ {t} /\ DefunctSet(n) = DefunctSet(k) \ {t}
  BY <1>2 DEF WaitSet, DefunctSet
<1>8. OtherLists(n)
  BY <1>1, <1>2, <1>7 DEF OtherLists
<1>9. OneRunning(n)
  BY <1>1, <1>2 DEF OneRunning
<1>10. SameRest(n, k)
  BY <1>2 DEF SameRest
<1> QED
  BY <1>2, <1>4, <1>6, <1>7, <1>8, <1>9, <1>10 DEF QueueInv, QueueLists, n

\* rt_thread_suspend of the current thread
LEMMA SuspendSelfLemma ==
  ASSUME NEW k, NEW R, NEW t \in Thread, QueueInv(k, R), t = k.cur, k.stat[t] = "RUNNING"
  PROVE  LET n == SuspendSelf(k)
         IN /\ QueueInv(n, R)
            /\ n.cur = k.cur /\ n.nest = k.nest /\ n.timer = k.timer \ {t}
            /\ SameOthers(n, k) /\ OneStat(n, k, t, "SUSPEND")
<1> DEFINE u == RemoveThread(k, t)
           n == [u EXCEPT !.stat[t] = "SUSPEND", !.timer = @ \ {t}]
<1>1. QueueLists(k, R) /\ OneRunning(k) /\ k.stat \in [Thread -> Stat]
  BY DEF QueueInv, QueueLists, Kernel
<1>2. NoOther(k, t)
  BY <1>1, NoOtherLemma
<1>3. /\ QueueLists(u, R \cup {t})
      /\ SameRest(u, k) /\ u.stat = k.stat /\ SameOthers(u, k)
      /\ NoOther(u, t)
  BY <1>1, <1>2, RemoveReadyLemma
<1>4. SuspendSelf(k) = n
  BY DEF SuspendSelf
<1> HIDE DEF u
<1>5. u \in Kernel
  BY <1>3 DEF QueueLists
<1>6. /\ n \in Kernel /\ SameLists(n, u) /\ OneStat(n, u, t, "SUSPEND")
      /\ n.cur = u.cur /\ n.nest = u.nest /\ n.timer = u.timer \ {t}
  BY <1>5 DEF Kernel, Stat, SameLists, OneStat
<1> HIDE DEF n
<1>7. "SUSPEND" \in Stat \ {"READY", "RUNNING"}
  BY DEF Stat
<1>8. OneRunning(u)
  BY <1>1, <1>3 DEF OneRunning, SameRest
<1>9. QueueInv(n, R) /\ SameOthers(n, u)
  BY <1>3, <1>6, <1>7, <1>8, SetStatInv
<1>10. n.cur = k.cur /\ n.nest = k.nest /\ n.timer = k.timer \ {t} /\ SameOthers(n, k)
  BY <1>3, <1>6, <1>9 DEF SameRest, SameOthers
<1>11. OneStat(n, k, t, "SUSPEND")
  BY <1>3, <1>6 DEF OneStat
<1> QED BY <1>4, <1>9, <1>10, <1>11

\* the first section of rt_thread_resume
LEMMA ResumeUnlinkLemma ==
  ASSUME NEW k, NEW R, NEW t \in Thread, QueueInv(k, R), k.stat[t] = "SUSPEND"
  PROVE  LET n == ResumeUnlink(k, t)
         IN /\ QueueInv(n, R)
            /\ n.cur = k.cur /\ n.nest = k.nest /\ n.timer = k.timer \ {t}
            /\ n.stat = k.stat
            /\ WaitSet(n) = WaitSet(k) \ {t} /\ DefunctSet(n) = DefunctSet(k)
<1> DEFINE u == ListRemove(k, t)
           n == [u EXCEPT !.timer = @ \ {t}]
<1>1. ResumeUnlink(k, t) = n
  BY DEF ResumeUnlink
<1>2. /\ QueueInv(u, R)
      /\ SameRest(u, k) /\ u.stat = k.stat
      /\ WaitSet(u) = WaitSet(k) \ {t}
      /\ DefunctSet(u) = DefunctSet(k) \ {t}
  BY ListRemoveInv
<1>3. t \notin DefunctSet(k)
  BY DEF QueueInv, QueueLists, OtherLists
<1> HIDE DEF u
<1>4. u \in Kernel
  BY <1>2 DEF QueueInv, QueueLists
<1>5. /\ n \in Kernel /\ SameLists(n, u) /\ n.stat = u.stat
      /\ n.cur = u.cur /\ n.nest = u.nest /\ n.timer = u.timer \ {t}
  BY <1>4 DEF Kernel, SameLists
<1> HIDE DEF n
<1>6. QueueInv(n, R) /\ SameOthers(n, u)
  BY <1>2, <1>5, FrameInv
<1>7. WaitSet(n) = WaitSet(k) \ {t} /\ DefunctSet(n) = DefunctSet(k)
  BY <1>2, <1>3, <1>6 DEF SameOthers
<1>8. n.cur = k.cur /\ n.nest = k.nest /\ n.timer = k.timer \ {t} /\ n.stat = k.stat
  BY <1>2, <1>5 DEF SameRest
<1> QED BY <1>1, <1>6, <1>7, <1>8

\* _thread_timeout before it calls rt_schedule
Expired(k, t) ==
  InsertThread([ListRemove(k, t) EXCEPT !.timer = @ \ {t}, !.error[t] = "ETIMEOUT"], t)

\* The timed out thread is ready, or runs on if it has not left the processor yet.
LEMMA ExpiredLemma ==
  ASSUME NEW k, NEW R, NEW t \in Thread, QueueInv(k, R), k.stat[t] = "SUSPEND",
         t \notin R
  PROVE  LET r == Expired(k, t)
         IN /\ QueueInv(r, R)
            /\ r.cur = k.cur /\ r.nest = k.nest /\ r.timer = k.timer \ {t}
            /\ r.stat[t] = IF t = k.cur THEN "RUNNING" ELSE "READY"
            /\ \A x \in Thread : x # t => r.stat[x] = k.stat[x]
            /\ WaitSet(r) = WaitSet(k) \ {t} /\ DefunctSet(r) = DefunctSet(k)
<1> DEFINE u == ListRemove(k, t)
           e == [u EXCEPT !.timer = @ \ {t}, !.error[t] = "ETIMEOUT"]
           r == InsertThread(e, t)
<1>1. Expired(k, t) = r
  BY DEF Expired
<1>2. /\ QueueInv(u, R)
      /\ SameRest(u, k) /\ u.stat = k.stat
      /\ WaitSet(u) = WaitSet(k) \ {t}
      /\ DefunctSet(u) = DefunctSet(k) \ {t}
  BY ListRemoveInv
<1>3. t \notin DefunctSet(k) /\ k.stat \in [Thread -> Stat]
  BY DEF QueueInv, QueueLists, OtherLists, Kernel
<1> HIDE DEF u
<1>4. u \in Kernel
  BY <1>2 DEF QueueInv, QueueLists
<1>5. /\ e \in Kernel /\ SameLists(e, u) /\ e.stat = u.stat
      /\ e.cur = u.cur /\ e.nest = u.nest /\ e.timer = u.timer \ {t}
  BY <1>4 DEF Kernel, Error, SameLists
<1> HIDE DEF e
<1>6. QueueInv(e, R) /\ SameOthers(e, u)
  BY <1>2, <1>5, FrameInv
<1>7. QueueLists(e, R \cup {t}) /\ OneRunning(e)
  <2>1. e.stat[t] # "READY"
    BY <1>2, <1>5
  <2> QED BY <2>1, <1>6, RemovedNotReady DEF QueueInv
<1>8. NoOther(e, t)
  BY <1>2, <1>6 DEF NoOther, SameOthers
<1>9. /\ QueueInv(r, R) /\ SameRest(r, e) /\ SameOthers(r, e)
      /\ OneStat(r, e, t, IF t = e.cur THEN "RUNNING" ELSE "READY")
  BY <1>7, <1>8, InsertInv
<1> HIDE DEF r
<1>10. /\ r.cur = k.cur /\ r.nest = k.nest /\ r.timer = k.timer \ {t}
       /\ r.stat[t] = IF t = k.cur THEN "RUNNING" ELSE "READY"
       /\ \A x \in Thread : x # t => r.stat[x] = k.stat[x]
       /\ WaitSet(r) = WaitSet(k) \ {t} /\ DefunctSet(r) = DefunctSet(k)
  <2>1. r.stat = [k.stat EXCEPT ![t] = IF t = e.cur THEN "RUNNING" ELSE "READY"]
    BY <1>2, <1>5, <1>9 DEF OneStat
  <2>4. e.cur = k.cur
    BY <1>2, <1>5 DEF SameRest
  <2>2. r.cur = k.cur /\ r.nest = k.nest /\ r.timer = k.timer \ {t}
    BY <1>2, <1>5, <1>9 DEF SameRest
  <2>3. WaitSet(r) = WaitSet(k) \ {t} /\ DefunctSet(r) = DefunctSet(k)
    BY <1>2, <1>3, <1>6, <1>9 DEF SameOthers
  <2> QED BY <2>1, <2>2, <2>3, <2>4, <1>3
<1> QED BY <1>1, <1>9, <1>10

\* _thread_timeout of a suspended thread
LEMMA TimeoutLemma ==
  ASSUME NEW k, NEW R, NEW t \in Thread, QueueInv(k, R), k.stat[t] = "SUSPEND",
         t \notin R, k.cur \notin R
  PROVE  LET n == ThreadTimeout(k, t)
         IN /\ QueueInv(n, R) /\ n.cur \notin R
            /\ n.nest = k.nest /\ n.timer = k.timer \ {t}
            /\ WaitSet(n) = WaitSet(k) \ {t} /\ DefunctSet(n) = DefunctSet(k)
            /\ n.cur = k.cur \/ (k.nest = 0 /\ (k.stat[n.cur] = "READY" \/ n.cur = t))
            /\ n.stat[t] \in {"READY", "RUNNING"}
            /\ \A x \in Thread : \/ x = t
                                 \/ n.stat[x] = k.stat[x]
                                 \/ {n.stat[x], k.stat[x]} = {"READY", "RUNNING"}
<1> DEFINE r == Expired(k, t)
           n == Schedule(r)
<1>1. ThreadTimeout(k, t) = n
  BY DEF ThreadTimeout, Expired
<1>10. /\ QueueInv(r, R)
       /\ r.cur = k.cur /\ r.nest = k.nest /\ r.timer = k.timer \ {t}
       /\ r.stat[t] \in {"READY", "RUNNING"}
       /\ \A x \in Thread : x # t => r.stat[x] = k.stat[x]
       /\ WaitSet(r) = WaitSet(k) \ {t} /\ DefunctSet(r) = DefunctSet(k)
  BY ExpiredLemma
<1> HIDE DEF r
<1>11. r.cur \notin R
  BY <1>10
<1>12. QueueInv(n, R) /\ n.cur \notin R /\ Scheduled(n, r)
  BY <1>10, <1>11, ScheduleLemma
<1> HIDE DEF n
<1>13. /\ n.nest = k.nest /\ n.timer = k.timer \ {t}
       /\ WaitSet(n) = WaitSet(k) \ {t} /\ DefunctSet(n) = DefunctSet(k)
  BY <1>10, <1>12 DEF Scheduled, SameOthers
<1>14. \A x \in Thread : \/ n.stat[x] = r.stat[x]
                         \/ {n.stat[x], r.stat[x]} = {"READY", "RUNNING"}
  BY <1>12 DEF Scheduled
<1>15. n.stat[t] \in {"READY", "RUNNING"}
  BY <1>10, <1>14
<1>16. \A x \in Thread : \/ x = t
                         \/ n.stat[x] = k.stat[x]
                         \/ {n.stat[x], k.stat[x]} = {"READY", "RUNNING"}
  BY <1>10, <1>14
<1>17. n.cur = k.cur \/ (k.nest = 0 /\ (k.stat[n.cur] = "READY" \/ n.cur = t))
  <2>1. n.cur = r.cur \/ (r.nest = 0 /\ r.stat[n.cur] = "READY")
    BY <1>12 DEF Scheduled
  <2>2. n.cur \in Thread
    BY <1>12 DEF QueueInv, QueueLists, Kernel
  <2> QED BY <2>1, <2>2, <1>10
<1> QED BY <1>1, <1>12, <1>13, <1>15, <1>16, <1>17

\* the closing half of rt_thread_detach, rt_thread_delete and _thread_exit
LEMMA CloseLemma ==
  ASSUME NEW k, NEW R, NEW t \in Thread, QueueLists(k, R \cup {t}), OneRunning(k),
         t \notin R, NoOther(k, t)
  PROVE  LET n == CloseThread(k, t)
         IN /\ QueueInv(n, R)
            /\ n.cur = k.cur /\ n.nest = k.nest /\ n.timer = k.timer \ {t}
            /\ OneStat(n, k, t, "CLOSE")
            /\ WaitSet(n) = WaitSet(k) /\ DefunctSet(n) = DefunctSet(k) \cup {t}
<1> DEFINE m == [k EXCEPT !.timer = @ \ {t}, !.stat[t] = "CLOSE", !.yield = @ \ {t}]
           n == CloseThread(k, t)
<1>1. k \in Kernel
  BY DEF QueueLists
<1>2. /\ m \in Kernel /\ SameLists(m, k) /\ OneStat(m, k, t, "CLOSE")
      /\ m.cur = k.cur /\ m.nest = k.nest /\ m.timer = k.timer \ {t}
  BY <1>1 DEF Kernel, Stat, SameLists, OneStat
<1>3. "CLOSE" \in Stat \ {"READY", "RUNNING"}
  BY DEF Stat
<1>4. n = [m EXCEPT !.defunct = Cons(t, k.defunct)]
  BY <1>1 DEF CloseThread, Kernel
<1> HIDE DEF m, n
<1>5. QueueInv(m, R) /\ SameOthers(m, k)
  BY <1>2, <1>3, SetStatInv
<1> DEFINE d == Cons(t, k.defunct)
<1>6. /\ d \in Seq(Thread) /\ ToSet(d) = ToSet(k.defunct) \cup {t} /\ IsInjective(d)
  <2>1. k.defunct \in Seq(Thread) /\ IsInjective(k.defunct) /\ t \notin ToSet(k.defunct)
    BY <1>1 DEF Kernel, QueueLists, NoRepeats, NoOther, DefunctSet
  <2>2. d \in Seq(Thread) /\ ToSet(d) = ToSet(k.defunct) \cup {t}
    BY <2>1, ConsLemma
  <2>3. IsInjective(d)
    BY <2>1, ConsLemma
  <2> QED BY <2>2, <2>3
<1> HIDE DEF d
<1>7. n = [m EXCEPT !.defunct = d]
  BY <1>4 DEF d
<1>8. /\ n \in Kernel
      /\ n.ready = m.ready /\ n.wait = m.wait /\ n.group = m.group /\ n.defunct = d
      /\ n.prio = m.prio /\ n.stat = m.stat /\ n.cur = m.cur
      /\ n.nest = m.nest /\ n.timer = m.timer
  BY <1>2, <1>6, <1>7 DEF Kernel
<1>9. WaitSet(n) = WaitSet(k) /\ DefunctSet(n) = DefunctSet(k) \cup {t}
  BY <1>5, <1>6, <1>8 DEF WaitSet, DefunctSet, SameOthers
<1>10. n.stat = [k.stat EXCEPT ![t] = "CLOSE"] /\ n.stat[t] = "CLOSE"
  BY <1>1, <1>2, <1>8 DEF OneStat, Kernel
<1>11. ReadyLists(n, R) /\ Bitmap(n)
  BY <1>5, <1>8 DEF QueueInv, QueueLists, ReadyLists, Bitmap
<1>12. NoRepeats(n)
  BY <1>5, <1>6, <1>8 DEF QueueInv, QueueLists, NoRepeats
<1>13. OtherLists(n)
  <2>1. OtherLists(m) /\ DefunctSet(m) = DefunctSet(k) /\ WaitSet(m) = WaitSet(k)
    BY <1>5 DEF QueueInv, QueueLists, SameOthers
  <2> QED BY <2>1, <1>8, <1>9, <1>10 DEF OtherLists
<1>14. OneRunning(n)
  BY <1>5, <1>8 DEF QueueInv, OneRunning
<1>15. n.cur = k.cur /\ n.nest = k.nest /\ n.timer = k.timer \ {t}
  BY <1>2, <1>8
<1> QED
  BY <1>8, <1>9, <1>10, <1>11, <1>12, <1>13, <1>14, <1>15 DEF QueueInv, QueueLists, OneStat, n

\* RT_THREAD_CTRL_CHANGE_PRIORITY
LEMMA ChangePriorityLemma ==
  ASSUME NEW k, NEW R, NEW t \in Thread, NEW p \in Prio, QueueInv(k, R), t \notin R
  PROVE  LET n == ChangePriority(k, t, p)
         IN /\ QueueInv(n, R)
            /\ n.cur = k.cur /\ n.nest = k.nest /\ n.timer = k.timer
            /\ n.stat = k.stat /\ SameOthers(n, k)
<1>1. /\ QueueLists(k, R) /\ OneRunning(k) /\ k \in Kernel /\ k.stat \in [Thread -> Stat]
  BY DEF QueueInv, QueueLists, Kernel
<1>2. CASE k.stat[t] = "READY"
  <2> DEFINE u == RemoveThread(k, t)
             c == [u EXCEPT !.prio[t] = p]
             n == InsertThread(c, t)
  <2>1. ChangePriority(k, t, p) = n
    BY <1>2 DEF ChangePriority
  <2>2. NoOther(k, t)
    BY <1>1, <1>2, NoOtherLemma
  <2>3. /\ QueueLists(u, R \cup {t})
        /\ SameRest(u, k) /\ u.stat = k.stat /\ SameOthers(u, k)
        /\ NoOther(u, t)
    BY <1>1, <2>2, RemoveReadyLemma
  <2> HIDE DEF u
  <2>4. u \in Kernel
    BY <2>3 DEF QueueLists
  <2>5. /\ c \in Kernel /\ c.prio = [u.prio EXCEPT ![t] = p]
        /\ c.ready = u.ready /\ c.wait = u.wait /\ c.defunct = u.defunct
        /\ c.group = u.group /\ c.stat = u.stat /\ c.cur = u.cur
        /\ c.nest = u.nest /\ c.timer = u.timer
    BY <2>4 DEF Kernel
  <2> HIDE DEF c
  <2>6. WaitSet(c) = WaitSet(u) /\ DefunctSet(c) = DefunctSet(u)
    BY <2>5 DEF WaitSet, DefunctSet
  <2>7. ReadyLists(c, R \cup {t})
    BY <2>3, <2>4, <2>5 DEF QueueLists, ReadyLists, Kernel
  <2>8. QueueLists(c, R \cup {t})
    BY <2>3, <2>5, <2>6, <2>7 DEF QueueLists, Bitmap, NoRepeats, OtherLists
  <2>9. OneRunning(c) /\ NoOther(c, t)
    BY <1>1, <2>3, <2>5, <2>6 DEF OneRunning, SameRest, NoOther
  <2>10. /\ QueueInv(n, R) /\ SameRest(n, c) /\ SameOthers(n, c)
         /\ OneStat(n, c, t, IF t = c.cur THEN "RUNNING" ELSE "READY")
    BY <2>8, <2>9, InsertInv
  <2> HIDE DEF n
  <2>11. t # c.cur
    BY <1>1, <1>2, <2>3, <2>5 DEF OneRunning, SameRest
  <2>12. n.stat = k.stat
    BY <1>1, <1>2, <2>3, <2>5, <2>10, <2>11 DEF OneStat
  <2>13. n.cur = k.cur /\ n.nest = k.nest /\ n.timer = k.timer /\ SameOthers(n, k)
    BY <2>3, <2>5, <2>6, <2>10 DEF SameRest, SameOthers
  <2> QED BY <2>1, <2>10, <2>12, <2>13
<1>3. CASE k.stat[t] # "READY"
  <2> DEFINE n == [k EXCEPT !.prio[t] = p]
  <2>1. ChangePriority(k, t, p) = n
    BY <1>3 DEF ChangePriority
  <2>2. /\ n \in Kernel /\ n.prio = [k.prio EXCEPT ![t] = p]
        /\ n.ready = k.ready /\ n.wait = k.wait /\ n.defunct = k.defunct
        /\ n.group = k.group /\ n.stat = k.stat /\ n.cur = k.cur
        /\ n.nest = k.nest /\ n.timer = k.timer
    BY <1>1 DEF Kernel
  <2> HIDE DEF n
  <2>3. WaitSet(n) = WaitSet(k) /\ DefunctSet(n) = DefunctSet(k)
    BY <2>2 DEF WaitSet, DefunctSet
  <2>4. ReadyLists(n, R)
    BY <1>1, <1>3, <2>2 DEF QueueLists, ReadyLists, Kernel
  <2>5. QueueLists(n, R)
    BY <1>1, <2>2, <2>3, <2>4 DEF QueueLists, Bitmap, NoRepeats, OtherLists
  <2>6. OneRunning(n)
    BY <1>1, <2>2 DEF OneRunning
  <2> QED BY <2>1, <2>2, <2>3, <2>5, <2>6 DEF QueueInv, SameOthers
<1> QED BY <1>2, <1>3

\* rt_thread_init and rt_thread_create: a thread that is in no list
LEMMA InitThreadLemma ==
  ASSUME NEW k, NEW R, NEW t \in Thread, NEW p \in Prio, QueueInv(k, R), k.stat[t] = "FREE"
  PROVE  LET n == InitThread(k, t, p)
         IN /\ QueueInv(n, R)
            /\ n.cur = k.cur /\ n.nest = k.nest /\ n.timer = k.timer
            /\ OneStat(n, k, t, "INIT") /\ SameOthers(n, k)
<1> DEFINE n == InitThread(k, t, p)
<1>1. /\ QueueLists(k, R) /\ OneRunning(k) /\ k \in Kernel /\ k.stat \in [Thread -> Stat]
  BY DEF QueueInv, QueueLists, Kernel
<1>2. /\ n \in Kernel /\ n.prio = [k.prio EXCEPT ![t] = p]
      /\ n.stat = [k.stat EXCEPT ![t] = "INIT"]
      /\ n.ready = k.ready /\ n.wait = k.wait /\ n.defunct = k.defunct
      /\ n.group = k.group /\ n.cur = k.cur
      /\ n.nest = k.nest /\ n.timer = k.timer
  <2>1. Slice \in 1..Slice
    BY SliceAssumption
  <2> QED BY <1>1, <2>1 DEF InitThread, Kernel, Stat, Error
<1> HIDE DEF n
<1>3. WaitSet(n) = WaitSet(k) /\ DefunctSet(n) = DefunctSet(k)
  BY <1>2 DEF WaitSet, DefunctSet
<1>4. ReadyLists(n, R)
  BY <1>1, <1>2 DEF QueueLists, ReadyLists, Kernel
<1>5. NoOther(k, t)
  BY <1>1, NoOtherLemma
<1>6. OtherLists(n)
  <2>1. \A x \in WaitSet(k) \cup DefunctSet(k) : n.stat[x] = k.stat[x]
    BY <1>1, <1>2, <1>5 DEF NoOther
  <2> QED BY <2>1, <1>1, <1>3 DEF QueueLists, OtherLists
<1>7. QueueLists(n, R)
  BY <1>1, <1>2, <1>4, <1>6 DEF QueueLists, Bitmap, NoRepeats
<1>8. OneRunning(n)
  BY <1>1, <1>2 DEF OneRunning
<1> QED BY <1>2, <1>3, <1>7, <1>8 DEF QueueInv, OneStat, SameOthers, n

\* the time slice in rt_tick_increase
LEMMA TickSliceLemma ==
  ASSUME NEW k, NEW R, QueueInv(k, R), k.cur \notin R
  PROVE  LET n == TickSlice(k)
         IN QueueInv(n, R) /\ n.cur \notin R /\ Scheduled(n, k)
<1> DEFINE less == [k EXCEPT !.left[k.cur] = @ - 1]
           over == Yield(k, k.cur)
           n == Schedule(over)
<1>1. k \in Kernel /\ k.cur \in Thread /\ k.left[k.cur] \in 1..Slice
  BY DEF QueueInv, QueueLists, Kernel
<1>2. CASE k.left[k.cur] > 1
  <2>1. TickSlice(k) = less
    BY <1>2 DEF TickSlice
  <2>2. k.left[k.cur] - 1 \in 1..Slice
    BY <1>1, <1>2
  <2>3. /\ less \in Kernel /\ SameLists(less, k) /\ less.stat = k.stat
        /\ less.cur = k.cur /\ less.timer = k.timer /\ less.nest = k.nest
    BY <1>1, <2>2 DEF Kernel, SameLists
  <2> HIDE DEF less
  <2>4. QueueInv(less, R) /\ SameOthers(less, k)
    BY <2>3, FrameInv
  <2>5. Scheduled(less, k)
    BY <2>3, <2>4 DEF Scheduled, SameLists
  <2> QED BY <2>1, <2>3, <2>4, <2>5
<1>3. CASE ~(k.left[k.cur] > 1)
  <2>1. TickSlice(k) = n
    BY <1>3 DEF TickSlice
  <2>2. /\ over \in Kernel /\ SameLists(over, k) /\ over.stat = k.stat
        /\ over.cur = k.cur /\ over.timer = k.timer /\ over.nest = k.nest
    <3>1. Slice \in 1..Slice
      BY SliceAssumption
    <3> QED BY <1>1, <3>1 DEF Yield, Kernel, SameLists
  <2> HIDE DEF over
  <2>3. QueueInv(over, R) /\ SameOthers(over, k)
    BY <2>2, FrameInv
  <2>4. over.cur \notin R
    BY <2>2
  <2>5. QueueInv(n, R) /\ n.cur \notin R /\ Scheduled(n, over)
    BY <2>3, <2>4, ScheduleLemma
  <2> HIDE DEF n
  <2>6. Scheduled(n, k)
    BY <2>2, <2>3, <2>5 DEF Scheduled, SameOthers, SameLists
  <2> QED BY <2>1, <2>5, <2>6
<1> QED BY <1>2, <1>3

-----------------------------------------------------------------------------
(* Threads that wait and are woken *)

USE IpcAssumption, ThreadAssumption

\* The threads W stop waiting, with the error e; what the others wait for, and
\* their errors, stay as they are; no timer is started.
Awakened(n, k, W, e) ==
  /\ \A o \in WaitObj : ToSet(n.wait[o]) = ToSet(k.wait[o]) \ W
  /\ \A t \in Thread : n.error[t] = IF t \in W THEN e ELSE k.error[t]
  /\ \A t \in Thread : Suspended(n, t) <=> Suspended(k, t) /\ t \notin W
  /\ n.timer \subseteq k.timer

\* Nobody stops waiting or starts to.
Keeps(n, k) == Awakened(n, k, {}, "EOK")

\* The current thread t starts to wait in the lists O, which is at most one.
Blocked(n, k, t, O) ==
  /\ \A o \in WaitObj : ToSet(n.wait[o]) =
                          IF o \in O THEN ToSet(k.wait[o]) \cup {t} ELSE ToSet(k.wait[o])
  /\ n.error = k.error
  /\ \A x \in Thread : Suspended(n, x) <=> Suspended(k, x) \/ x = t
  /\ n.timer \subseteq k.timer \cup {t}

BlockedOn(n, k, t, o) == Blocked(n, k, t, {o})

\* Those of W that wait for o stop waiting.
AwakenedOf(n, k, o, W, e) == Awakened(n, k, ToSet(k.wait[o]) \cap W, e)

\* The thread t starts to wait for o, its error set to e.
Sleeps(n, k, t, o, e) ==
  /\ \A q \in WaitObj : ToSet(n.wait[q]) = IF q = o THEN ToSet(k.wait[q]) \cup {t}
                                                   ELSE ToSet(k.wait[q])
  /\ \A x \in Thread : n.error[x] = IF x = t THEN e ELSE k.error[x]
  /\ \A x \in Thread : Suspended(n, x) <=> Suspended(k, x) \/ x = t
  /\ n.timer \subseteq k.timer \cup {t}

-----------------------------------------------------------------------------
(* The fields that the scheduler's functions leave alone *)

\* rt_schedule_insert_thread touches no suspend list and no error.
LEMMA InsertKeeps ==
  ASSUME NEW k \in Kernel, NEW t \in Thread
  PROVE  LET n == InsertThread(k, t) IN n.wait = k.wait /\ n.error = k.error
BY DEF InsertThread, Kernel

\* rt_schedule_remove_thread takes the thread out of every suspend list.
LEMMA RemoveWait ==
  ASSUME NEW k \in Kernel, NEW t \in Thread, NoRepeats(k)
  PROVE  LET n == RemoveThread(k, t)
         IN n.wait = [o \in WaitObj |-> Unlink(k.wait[o], t)] /\ n.error = k.error
<1> DEFINE l == ListRemove(k, t)
<1>1. l.wait = [o \in WaitObj |-> Unlink(k.wait[o], t)] /\ l.error = k.error
  BY DEF ListRemove, Kernel
<1>2. RemoveThread(k, t) \in {l, [l EXCEPT !.group = @ \ {k.prio[t]}]}
  BY DEF RemoveThread
<1>3. l \in Kernel
  BY ListRemoveFields
<1> HIDE DEF l
<1> QED BY <1>1, <1>2, <1>3 DEF Kernel

\* A thread that waits nowhere is removed from nowhere.
LEMMA RemoveKeeps ==
  ASSUME NEW k \in Kernel, NEW t \in Thread, NoRepeats(k), t \notin WaitSet(k)
  PROVE  LET n == RemoveThread(k, t) IN n.wait = k.wait /\ n.error = k.error
<1>1. \A o \in WaitObj : Unlink(k.wait[o], t) = k.wait[o]
  BY DEF WaitSet, Unlink
<1>2. k.wait = [o \in WaitObj |-> k.wait[o]]
  BY DEF Kernel
<1> QED BY <1>1, <1>2, RemoveWait

\* rt_schedule touches no suspend list and no error.
LEMMA ScheduleFields ==
  ASSUME NEW k, QueueInv(k, {})
  PROVE  LET n == Schedule(k) IN n.wait = k.wait /\ n.error = k.error
<1> DEFINE n == Schedule(k)
           t == k.cur
           top == HighestThread(k)
<1>1. /\ QueueLists(k, {}) /\ OneRunning(k) /\ k \in Kernel /\ t \in Thread
      /\ \A x \in WaitSet(k) : k.stat[x] = "SUSPEND"
      /\ NoRepeats(k)
  BY DEF QueueInv, QueueLists, Kernel, OtherLists
<1>2. CASE k.nest # 0 \/ k.group = {}
  BY <1>2 DEF Schedule
<1>3. CASE k.nest = 0 /\ k.group # {} /\ PickThread(k) = t /\ k.stat[t] = "RUNNING"
  <2> DEFINE u == RemoveThread(k, t)
  <2>1. u.wait = k.wait /\ u.error = k.error
    BY <1>1, <1>3, RemoveKeeps
  <2>2. n = [u EXCEPT !.yield = @ \ {t}, !.stat[t] = "RUNNING"]
    BY <1>3 DEF Schedule
  <2>3. u \in Kernel
    <3>1. QueueLists(u, {} \cup {t})
      BY <1>1, RemoveLemma
    <3> QED BY <3>1 DEF QueueLists
  <2> HIDE DEF u
  <2> QED BY <2>1, <2>2, <2>3 DEF Kernel
<1>4. CASE k.nest = 0 /\ k.group # {} /\ PickThread(k) = top
  <2>1. top \in Thread /\ k.stat[top] = "READY"
    BY <1>1, <1>4, HighestLemma
  <2>2. top # t
    BY <2>1, <1>1 DEF OneRunning
  <2> HIDE DEF top
  <2> DEFINE running == k.stat[t] = "RUNNING"
             from == [k EXCEPT !.yield = IF running THEN @ \ {t} ELSE @, !.cur = top]
             queued == IF running THEN InsertThread(from, t) ELSE from
             u == RemoveThread(queued, top)
  <2>3. n = [u EXCEPT !.stat[top] = "RUNNING"]
    BY <1>4, <2>2 DEF Schedule, SwitchTo
  <2>4. from \in Kernel /\ SameLists(from, k) /\ from.stat = k.stat /\ from.error = k.error
    BY <1>1, <2>1 DEF Kernel, SameLists
  <2> HIDE DEF from
  <2>5. QueueLists(from, {}) /\ WaitSet(from) = WaitSet(k)
    BY <1>1, <2>4, FrameLemma DEF SameOthers
  <2>6. /\ QueueLists(queued, {}) /\ WaitSet(queued) = WaitSet(k)
        /\ queued.wait = k.wait /\ queued.error = k.error
    <3>1. CASE ~running
      BY <3>1, <2>4, <2>5 DEF SameLists
    <3>2. CASE running
      <4>1. QueueLists(from, {t}) /\ NoOther(from, t)
        <5>1. from.stat[t] = "RUNNING"
          BY <2>4, <3>2
        <5>2. {} \cup {t} = {t}
          OBVIOUS
        <5>3. QueueLists(from, {} \cup {t})
          BY <5>1, <2>5, <1>1, RemovedNotReady
        <5>4. NoOther(from, t)
          BY <5>1, <2>5, NoOtherLemma
        <5> QED BY <5>2, <5>3, <5>4
      <4>2. /\ QueueLists(InsertThread(from, t), {})
            /\ SameOthers(InsertThread(from, t), from)
        <5>1. {} \cup {t} = {t}
          OBVIOUS
        <5> QED BY <4>1, <5>1, <1>1, InsertLemma
      <4>3. /\ InsertThread(from, t).wait = from.wait
            /\ InsertThread(from, t).error = from.error
        BY <2>4, <1>1, InsertKeeps
      <4> QED BY <3>2, <4>2, <4>3, <2>4, <2>5 DEF SameOthers, SameLists
    <3> QED BY <3>1, <3>2
  <2> HIDE DEF queued
  <2>7. u.wait = k.wait /\ u.error = k.error
    <3>1. queued \in Kernel /\ NoRepeats(queued) /\ top \notin WaitSet(queued)
      BY <2>1, <2>6, <1>1 DEF QueueLists
    <3> QED BY <3>1, <2>1, <2>6, RemoveKeeps
  <2>8. u \in Kernel
    <3>1. QueueLists(u, {} \cup {top})
      BY <2>1, <2>6, RemoveLemma
    <3> QED BY <3>1 DEF QueueLists
  <2> HIDE DEF u
  <2> QED BY <2>3, <2>7, <2>8 DEF Kernel
<1>5. (PickThread(k) = t /\ k.stat[t] = "RUNNING") \/ PickThread(k) = top
  BY DEF PickThread
<1> QED BY <1>2, <1>3, <1>4, <1>5, <1>1 DEF Kernel

-----------------------------------------------------------------------------
(* The scheduler's functions keep the kernel Orderly *)

\* What is known of a kernel that is Orderly, and what makes a step to n keep it so.
LEMMA OrderlyFacts ==
  ASSUME NEW k, NEW C, InOrder(k, C)
  PROVE  /\ k \in Kernel /\ QueueInv(k, {}) /\ QueueLists(k, {}) /\ OneRunning(k)
         /\ k.cur \in Thread /\ k.stat \in [Thread -> Stat] /\ k.error \in [Thread -> Error]
         /\ k.wait \in [WaitObj -> Seq(Thread)]
         /\ OnlyClosed(k, C) /\ k.cur \notin C
         /\ \A o \in WaitObj : /\ k.wait[o] \in Seq(Thread)
                               /\ ToSet(k.wait[o]) \subseteq Thread
                               /\ HasWaiter(k, o) <=> ToSet(k.wait[o]) # {}
                               /\ HasWaiter(k, o) => Head(k.wait[o]) \in ToSet(k.wait[o])
         /\ \A o \in WaitObj : \A t \in ToSet(k.wait[o]) : k.stat[t] = "SUSPEND"
         /\ ~Suspended(k, k.cur) => k.stat[k.cur] = "RUNNING"
         /\ \A t \in Thread : t # k.cur /\ t \notin C => k.stat[t] \in {"READY", "SUSPEND"}
<1>1. /\ k \in Kernel /\ QueueInv(k, {}) /\ QueueLists(k, {}) /\ OneRunning(k)
      /\ k.cur \in Thread /\ k.stat \in [Thread -> Stat] /\ k.error \in [Thread -> Error]
      /\ k.wait \in [WaitObj -> Seq(Thread)]
      /\ OnlyClosed(k, C) /\ k.cur \notin C
      /\ \A o \in WaitObj : k.wait[o] \in Seq(Thread)
      /\ \A t \in WaitSet(k) : k.stat[t] = "SUSPEND"
  BY DEF InOrder, QueueInv, QueueLists, Kernel, OtherLists
<1>2. \A o \in WaitObj : /\ ToSet(k.wait[o]) \subseteq Thread
                         /\ HasWaiter(k, o) <=> ToSet(k.wait[o]) # {}
                         /\ HasWaiter(k, o) => Head(k.wait[o]) \in ToSet(k.wait[o])
  BY <1>1, HeadLemma DEF HasWaiter
<1>3. \A o \in WaitObj : \A t \in ToSet(k.wait[o]) : k.stat[t] = "SUSPEND"
  BY <1>1 DEF WaitSet
<1>4. /\ ~Suspended(k, k.cur) => k.stat[k.cur] = "RUNNING"
      /\ \A t \in Thread : t # k.cur /\ t \notin C => k.stat[t] \in {"READY", "SUSPEND"}
  BY <1>1 DEF OneRunning, Suspended, OnlyClosed
<1> QED BY <1>1, <1>2, <1>3, <1>4

\* A step after which some threads no longer wait.
LEMMA OrderlyStep ==
  ASSUME NEW k, NEW C, NEW n, NEW W, NEW e, InOrder(k, C), Awakened(n, k, W, e),
         QueueInv(n, {}), n.nest = k.nest, n.timer \subseteq k.timer \ W,
         n.cur = k.cur \/ k.stat[n.cur] = "READY", OnlyClosed(n, C)
  PROVE  InOrder(n, C)
<1>1. OneNode(n)
  <2>1. NoRepeats(n)
    BY DEF QueueInv, QueueLists
  <2>2. \A o \in WaitObj : ToSet(n.wait[o]) \subseteq ToSet(k.wait[o])
    BY DEF Awakened
  <2>3. \A o, q \in WaitObj : o # q => ToSet(k.wait[o]) \cap ToSet(k.wait[q]) = {}
    BY DEF InOrder, OneNode
  <2> QED BY <2>1, <2>2, <2>3 DEF OneNode
<1>2. k.timer \subseteq Thread
  BY OrderlyFacts DEF Kernel
<1>3. ~Suspended(n, Idle) /\ \A t \in n.timer : Suspended(n, t)
  BY <1>2 DEF InOrder, Awakened
<1>4. n.cur \notin C
  <2>1. n.cur \in Thread
    BY DEF QueueInv, QueueLists, Kernel
  <2> QED BY <2>1, OrderlyFacts DEF OnlyClosed
<1> QED BY <1>1, <1>3, <1>4 DEF InOrder

\* rt_schedule: afterwards the current thread runs, since the idle thread can.
LEMMA ScheduleOrderly ==
  ASSUME NEW k, NEW C, InOrder(k, C)
  PROVE  LET n == Schedule(k)
         IN InOrder(n, C) /\ Keeps(n, k) /\ ~Suspended(n, n.cur)
<1> DEFINE n == Schedule(k)
<1>1. /\ QueueInv(k, {}) /\ QueueLists(k, {}) /\ k \in Kernel
      /\ k.stat \in [Thread -> Stat] /\ k.nest = 0 /\ k.timer \subseteq Thread
      /\ OnlyClosed(k, C)
  BY OrderlyFacts DEF InOrder, Kernel
<1>2. QueueInv(n, {}) /\ Scheduled(n, k)
  BY <1>1, ScheduleLemma
<1>3. n.wait = k.wait /\ n.error = k.error
  BY <1>1, ScheduleFields
<1>4. Top(n, {})
  <2>1. k.group = {} => k.stat[k.cur] = "RUNNING"
    <3> SUFFICES ASSUME k.group = {} PROVE k.stat[k.cur] = "RUNNING"
      OBVIOUS
    <3>1. k.stat[Idle] # "READY"
      <4>1. k.prio[Idle] \in Prio /\ k.ready[k.prio[Idle]] = <<>> /\ ToSet(<<>>) = {}
        <5>1. k.prio[Idle] \in Prio
          BY <1>1 DEF Kernel
        <5>2. k.ready[k.prio[Idle]] = <<>>
          BY <5>1, <1>1 DEF QueueLists, Bitmap
        <5>3. <<>> \in Seq(Thread)
          OBVIOUS
        <5> QED BY <5>1, <5>2, <5>3, HeadLemma
      <4> QED BY <4>1, <1>1 DEF QueueLists, ReadyLists
    <3>2. k.stat[Idle] = "RUNNING"
      BY <3>1, <1>1 DEF InOrder, Suspended, OnlyClosed
    <3> QED BY <3>2, <1>1 DEF QueueInv, OneRunning
  <2> QED BY <1>1, <2>1, ScheduleTop
<1> HIDE DEF n
<1>5. \A t \in Thread : \/ n.stat[t] = k.stat[t]
                        \/ {n.stat[t], k.stat[t]} = {"READY", "RUNNING"}
  BY <1>2 DEF Scheduled
<1>6. /\ OnlyClosed(n, C)
      /\ \A t \in Thread : Suspended(n, t) <=> Suspended(k, t)
  BY <1>1, <1>5 DEF Suspended, OnlyClosed
<1>7. /\ n.nest = k.nest /\ n.timer = k.timer
      /\ n.cur = k.cur \/ k.stat[n.cur] = "READY"
  BY <1>2 DEF Scheduled
<1>8. Keeps(n, k)
  BY <1>3, <1>6, <1>7 DEF Keeps, Awakened
<1>9. InOrder(n, C)
  BY <1>2, <1>6, <1>7, <1>8, OrderlyStep DEF Keeps
<1>10. ~Suspended(n, n.cur)
  BY <1>4 DEF Top, Suspended
<1> QED BY <1>8, <1>9, <1>10 DEF n

\* The time slice in rt_tick_increase: the current thread changes only by rt_schedule.
LEMMA TickOrderly ==
  ASSUME NEW k, NEW C, InOrder(k, C)
  PROVE  LET n == TickSlice(k)
         IN InOrder(n, C) /\ Keeps(n, k) /\ (n.cur = k.cur \/ ~Suspended(n, n.cur))
<1> DEFINE n == TickSlice(k)
           over == Yield(k, k.cur)
<1>1. k \in Kernel /\ k.cur \in Thread /\ QueueInv(k, {})
  BY OrderlyFacts
<1>2. CASE k.left[k.cur] > 1
  <2>1. n = [k EXCEPT !.left[k.cur] = @ - 1]
    BY <1>2 DEF TickSlice
  <2>2. /\ n.wait = k.wait /\ n.error = k.error /\ n.stat = k.stat /\ n.cur = k.cur
        /\ n.nest = k.nest /\ n.timer = k.timer
    BY <2>1, <1>1 DEF Kernel
  <2>3. QueueInv(n, {})
    BY <1>1, TickSliceLemma
  <2> HIDE DEF n
  <2>4. Keeps(n, k) /\ OnlyClosed(n, C)
    BY <2>2, OrderlyFacts DEF Keeps, Awakened, Suspended, OnlyClosed
  <2>5. InOrder(n, C)
    BY <2>2, <2>3, <2>4, OrderlyStep DEF Keeps
  <2> QED BY <2>2, <2>4, <2>5 DEF n
<1>3. CASE ~(k.left[k.cur] > 1)
  <2>1. n = Schedule(over)
    BY <1>3 DEF TickSlice
  <2>2. /\ over \in Kernel /\ SameLists(over, k) /\ over.stat = k.stat
        /\ over.cur = k.cur /\ over.timer = k.timer /\ over.nest = k.nest
        /\ over.error = k.error
    <3>1. Slice \in 1..Slice
      BY SliceAssumption
    <3> QED BY <1>1, <3>1 DEF Yield, Kernel, SameLists
  <2> HIDE DEF over
  <2>3. QueueInv(over, {})
    BY <1>1, <2>2, FrameInv
  <2>4. Keeps(over, k) /\ OnlyClosed(over, C)
    BY <2>2, OrderlyFacts DEF Keeps, Awakened, Suspended, OnlyClosed, SameLists
  <2>5. InOrder(over, C)
    BY <2>2, <2>3, <2>4, OrderlyStep DEF Keeps
  <2>6. InOrder(n, C) /\ Keeps(n, over) /\ ~Suspended(n, n.cur)
    BY <2>1, <2>5, ScheduleOrderly
  <2> HIDE DEF n
  <2>7. Keeps(n, k)
    BY <2>4, <2>6 DEF Keeps, Awakened
  <2> QED BY <2>6, <2>7 DEF n
<1> QED BY <1>2, <1>3

\* RT_THREAD_CTRL_CHANGE_PRIORITY
LEMMA ChangePriorityOrderly ==
  ASSUME NEW k, NEW C, NEW t \in Thread, NEW p \in Prio, InOrder(k, C)
  PROVE  LET n == ChangePriority(k, t, p)
         IN InOrder(n, C) /\ Keeps(n, k) /\ n.cur = k.cur
<1> DEFINE n == ChangePriority(k, t, p)
<1>1. k \in Kernel /\ QueueInv(k, {}) /\ QueueLists(k, {}) /\ NoRepeats(k)
  BY OrderlyFacts DEF QueueLists
<1>2. /\ QueueInv(n, {})
      /\ n.cur = k.cur /\ n.nest = k.nest /\ n.timer = k.timer /\ n.stat = k.stat
  BY <1>1, ChangePriorityLemma
<1>3. n.wait = k.wait /\ n.error = k.error
  <2>1. CASE k.stat[t] = "READY"
    <3> DEFINE u == RemoveThread(k, t)
               c == [u EXCEPT !.prio[t] = p]
    <3>1. n = InsertThread(c, t)
      BY <2>1 DEF ChangePriority
    <3>2. t \notin WaitSet(k)
      BY <2>1, <1>1 DEF QueueLists, OtherLists
    <3>3. u.wait = k.wait /\ u.error = k.error
      BY <1>1, <3>2, RemoveKeeps
    <3>4. u \in Kernel
      <4>1. QueueLists(u, {} \cup {t})
        BY <1>1, RemoveLemma
      <4> QED BY <4>1 DEF QueueLists
    <3> HIDE DEF u
    <3>5. c \in Kernel /\ c.wait = u.wait /\ c.error = u.error
      BY <3>4 DEF Kernel
    <3> HIDE DEF c
    <3> QED BY <3>1, <3>3, <3>5, InsertKeeps
  <2>2. CASE k.stat[t] # "READY"
    BY <2>2, <1>1 DEF ChangePriority, Kernel
  <2> QED BY <2>1, <2>2
<1> HIDE DEF n
<1>4. Keeps(n, k) /\ OnlyClosed(n, C)
  BY <1>2, <1>3, OrderlyFacts DEF Keeps, Awakened, Suspended, OnlyClosed
<1>5. InOrder(n, C)
  BY <1>2, <1>4, OrderlyStep DEF Keeps
<1> QED BY <1>2, <1>4, <1>5 DEF n

-----------------------------------------------------------------------------
(* Threads that wait, and threads that are woken *)

SetError(k, t, e) == [k EXCEPT !.error[t] = e]

\* A write of thread->error changes nothing else.
LEMMA ErrorOrderly ==
  ASSUME NEW k, NEW C, NEW t \in Thread, NEW e \in Error, InOrder(k, C)
  PROVE  LET n == SetError(k, t, e)
         IN /\ InOrder(n, C) /\ n.cur = k.cur /\ n.stat = k.stat /\ n.wait = k.wait
            /\ n.timer = k.timer
            /\ \A x \in Thread : n.error[x] = IF x = t THEN e ELSE k.error[x]
<1> DEFINE n == SetError(k, t, e)
<1>0. n = [k EXCEPT !.error[t] = e]
  BY DEF SetError
<1> HIDE DEF n
<1>1. k \in Kernel /\ QueueInv(k, {})
  BY OrderlyFacts
<1>2. /\ n \in Kernel /\ SameLists(n, k) /\ n.stat = k.stat /\ n.cur = k.cur
      /\ n.nest = k.nest /\ n.timer = k.timer /\ n.wait = k.wait
      /\ \A x \in Thread : n.error[x] = IF x = t THEN e ELSE k.error[x]
  BY <1>0, <1>1 DEF Kernel, SameLists
<1>3. QueueInv(n, {})
  BY <1>1, <1>2, FrameInv
<1>4. OneNode(n)
  BY <1>2, <1>3 DEF InOrder, OneNode, QueueInv, QueueLists
<1>5. InOrder(n, C)
  BY <1>2, <1>3, <1>4 DEF InOrder, Suspended, OnlyClosed
<1> QED BY <1>2, <1>5 DEF n

\* rt_thread_resume of a thread that is suspended: it waits nowhere any more.
LEMMA ResumeOrderly ==
  ASSUME NEW k, NEW C, NEW t \in Thread, InOrder(k, C), Suspended(k, t)
  PROVE  LET n == Resume(k, t)
         IN InOrder(n, C) /\ Awakened(n, k, {t}, k.error[t]) /\ n.cur = k.cur
<1> DEFINE u == ResumeUnlink(k, t)
           n == InsertThread(u, t)
<1>1. /\ k \in Kernel /\ QueueInv(k, {}) /\ NoRepeats(k) /\ k.stat[t] = "SUSPEND"
      /\ k.stat \in [Thread -> Stat] /\ k.nest = 0
  BY OrderlyFacts DEF QueueLists, Suspended, InOrder
<1>2. Resume(k, t) = n
  BY <1>1 DEF Resume
<1>3. /\ QueueInv(u, {})
      /\ u.cur = k.cur /\ u.nest = k.nest /\ u.timer = k.timer \ {t} /\ u.stat = k.stat
      /\ WaitSet(u) = WaitSet(k) \ {t} /\ DefunctSet(u) = DefunctSet(k)
  <2>1. QueueInv(k, {}) /\ k.stat[t] = "SUSPEND"
    BY <1>1
  <2>2. LET v == ResumeUnlink(k, t)
        IN /\ QueueInv(v, {})
           /\ v.cur = k.cur /\ v.nest = k.nest /\ v.timer = k.timer \ {t}
           /\ v.stat = k.stat
           /\ WaitSet(v) = WaitSet(k) \ {t} /\ DefunctSet(v) = DefunctSet(k)
    BY <2>1, ResumeUnlinkLemma
  <2> QED BY <2>2
<1>4. /\ \A o \in WaitObj : ToSet(u.wait[o]) = ToSet(k.wait[o]) \ {t}
      /\ u.error = k.error
  <2> DEFINE l == ListRemove(k, t)
  <2>1. /\ l \in Kernel /\ \A o \in WaitObj : ToSet(l.wait[o]) = ToSet(k.wait[o]) \ {t}
        /\ l.error = k.error
    BY <1>1, ListRemoveFields
  <2>2. u = [l EXCEPT !.timer = @ \ {t}]
    BY DEF ResumeUnlink
  <2> HIDE DEF l
  <2> QED BY <2>1, <2>2 DEF Kernel
<1> HIDE DEF u
<1>5. /\ QueueLists(u, {} \cup {t}) /\ OneRunning(u) /\ NoOther(u, t) /\ u \in Kernel
  <2>1. QueueLists(u, {}) /\ OneRunning(u) /\ u \in Kernel
    BY <1>3 DEF QueueInv, QueueLists
  <2>2. u.stat[t] # "READY"
    BY <1>1, <1>3
  <2>3. t \notin DefunctSet(k)
    BY <1>1 DEF QueueInv, QueueLists, OtherLists
  <2>4. QueueLists(u, {} \cup {t})
    BY <2>1, <2>2, RemovedNotReady
  <2> QED BY <2>1, <2>3, <2>4, <1>3 DEF NoOther
<1>6. /\ QueueInv(n, {}) /\ SameRest(n, u)
      /\ OneStat(n, u, t, IF t = u.cur THEN "RUNNING" ELSE "READY")
  BY <1>5, InsertInv
<1>7. n.wait = u.wait /\ n.error = u.error
  BY <1>5, InsertKeeps
<1> HIDE DEF n
<1>8. /\ n.stat[t] \in {"READY", "RUNNING"}
      /\ \A x \in Thread : x # t => n.stat[x] = k.stat[x]
  BY <1>1, <1>3, <1>6 DEF OneStat
<1>9. n.nest = k.nest /\ n.timer = k.timer \ {t} /\ n.cur = k.cur
  BY <1>3, <1>6 DEF SameRest
<1>10. Awakened(n, k, {t}, k.error[t])
  BY <1>1, <1>4, <1>7, <1>8, <1>9 DEF Awakened, Suspended
<1>11. OnlyClosed(n, C)
  <2>1. OnlyClosed(k, C)
    BY OrderlyFacts
  <2> QED BY <1>1, <1>8, <2>1 DEF OnlyClosed
<1>12. InOrder(n, C)
  BY <1>6, <1>9, <1>10, <1>11, OrderlyStep
<1> QED BY <1>2, <1>9, <1>10, <1>12

\* rt_thread_resume of a waiter whose thread->error has been written.
LEMMA WakeOrderly ==
  ASSUME NEW k, NEW C, NEW t \in Thread, NEW e \in Error, InOrder(k, C), Suspended(k, t)
  PROVE  LET n == ResumeWith(k, t, e)
         IN InOrder(n, C) /\ Awakened(n, k, {t}, e) /\ n.cur = k.cur
<1> DEFINE m == SetError(k, t, e)
           n == Resume(m, t)
<1>0. ResumeWith(k, t, e) = n
  BY DEF ResumeWith, SetError
<1>1. /\ InOrder(m, C) /\ m.cur = k.cur /\ m.stat = k.stat /\ m.wait = k.wait
      /\ m.timer = k.timer
      /\ \A x \in Thread : m.error[x] = IF x = t THEN e ELSE k.error[x]
  BY ErrorOrderly
<1> HIDE DEF m
<1>2. InOrder(n, C) /\ Awakened(n, m, {t}, m.error[t]) /\ n.cur = m.cur
  <2>1. InOrder(m, C) /\ Suspended(m, t)
    BY <1>1 DEF Suspended
  <2> QED BY <2>1, ResumeOrderly
<1> HIDE DEF n
<1>3. k.error \in [Thread -> Error]
  BY OrderlyFacts
<1>4. Awakened(n, k, {t}, e)
  BY <1>1, <1>2, <1>3 DEF Awakened, Suspended
<1> QED BY <1>0, <1>1, <1>2, <1>4 DEF n

\* _ipc_list_resume
LEMMA ResumeFirstOrderly ==
  ASSUME NEW k, NEW C, NEW o \in WaitObj, InOrder(k, C), HasWaiter(k, o)
  PROVE  LET n == ResumeFirst(k, o)
             t == Head(k.wait[o])
         IN /\ InOrder(n, C) /\ Awakened(n, k, {t}, "EOK") /\ n.cur = k.cur
            /\ t \in Thread /\ t \in ToSet(k.wait[o]) /\ Suspended(k, t)
<1> DEFINE t == Head(k.wait[o])
<1>1. t \in Thread /\ t \in ToSet(k.wait[o]) /\ Suspended(k, t)
  BY OrderlyFacts DEF Suspended
<1>2. ResumeFirst(k, o) = ResumeWith(k, t, "EOK")
  BY DEF ResumeFirst
<1> HIDE DEF t
<1>3. "EOK" \in Error
  BY DEF Error
<1>4. LET n == ResumeWith(k, t, "EOK")
      IN InOrder(n, C) /\ Awakened(n, k, {t}, "EOK") /\ n.cur = k.cur
  BY <1>1, <1>3, WakeOrderly
<1> QED BY <1>1, <1>2, <1>4 DEF t

\* one turn of _ipc_list_resume_all
LEMMA ResumeFailedOrderly ==
  ASSUME NEW k, NEW C, NEW t \in Thread, InOrder(k, C), Suspended(k, t)
  PROVE  LET n == ResumeFailed(k, t)
         IN InOrder(n, C) /\ Awakened(n, k, {t}, "ERROR") /\ n.cur = k.cur
<1>1. "ERROR" \in Error
  BY DEF Error
<1> QED BY <1>1, WakeOrderly DEF ResumeFailed

\* _thread_timeout
LEMMA TimeoutOrderly ==
  ASSUME NEW k, NEW C, NEW t \in Thread, InOrder(k, C), Suspended(k, t)
  PROVE  LET n == ThreadTimeout(k, t)
         IN InOrder(n, C) /\ Awakened(n, k, {t}, "ETIMEOUT") /\ ~Suspended(n, n.cur)
<1> DEFINE e == [ListRemove(k, t) EXCEPT !.timer = @ \ {t}, !.error[t] = "ETIMEOUT"]
           r == Expired(k, t)
           n == Schedule(r)
<1>1. k \in Kernel /\ QueueInv(k, {}) /\ NoRepeats(k) /\ k.stat[t] = "SUSPEND"
  BY OrderlyFacts DEF QueueLists, Suspended
<1>2. /\ QueueInv(r, {})
      /\ r.cur = k.cur /\ r.nest = k.nest /\ r.timer = k.timer \ {t}
      /\ r.stat[t] = IF t = k.cur THEN "RUNNING" ELSE "READY"
      /\ \A x \in Thread : x # t => r.stat[x] = k.stat[x]
  BY <1>1, ExpiredLemma
<1>3. /\ \A o \in WaitObj : ToSet(r.wait[o]) = ToSet(k.wait[o]) \ {t}
      /\ r.error = [k.error EXCEPT ![t] = "ETIMEOUT"]
  <2> DEFINE l == ListRemove(k, t)
  <2>0. k \in Kernel /\ NoRepeats(k)
    BY <1>1
  <2>1. /\ l \in Kernel /\ \A o \in WaitObj : ToSet(l.wait[o]) = ToSet(k.wait[o]) \ {t}
        /\ l.error = k.error
    BY <2>0, ListRemoveFields, Zenon DEF l
  <2> HIDE DEF l
  <2>2. e \in Kernel /\ e.wait = l.wait /\ e.error = [k.error EXCEPT ![t] = "ETIMEOUT"]
    BY <2>1 DEF Kernel, Error, l
  <2>3. r = InsertThread(e, t)
    BY DEF Expired
  <2> HIDE DEF e, r
  <2>4. r.wait = e.wait /\ r.error = e.error
    BY <2>2, <2>3, InsertKeeps
  <2> QED BY <2>1, <2>2, <2>4
<1>4. ThreadTimeout(k, t) = n
  BY DEF ThreadTimeout, Expired
<1> HIDE DEF r
<1>5. Awakened(r, k, {t}, "ETIMEOUT")
  <2>1. \A x \in Thread : Suspended(r, x) <=> Suspended(k, x) /\ x # t
    BY <1>2 DEF Suspended
  <2>2. \A x \in Thread : r.error[x] = IF x = t THEN "ETIMEOUT" ELSE k.error[x]
    BY <1>3, OrderlyFacts
  <2> QED BY <1>2, <1>3, <2>1, <2>2 DEF Awakened
<1>6. OnlyClosed(r, C)
  <2>1. OnlyClosed(k, C)
    BY OrderlyFacts
  <2> QED BY <1>1, <1>2, <2>1 DEF OnlyClosed
<1>7. InOrder(r, C)
  BY <1>2, <1>5, <1>6, OrderlyStep
<1>8. InOrder(n, C) /\ Keeps(n, r) /\ ~Suspended(n, n.cur)
  BY <1>7, ScheduleOrderly
<1> HIDE DEF n
<1>9. Awakened(n, k, {t}, "ETIMEOUT")
  BY <1>5, <1>8 DEF Awakened, Keeps
<1> QED BY <1>4, <1>8, <1>9

\* rt_thread_suspend of the current thread
LEMMA SuspendSelfOrderly ==
  ASSUME NEW k, NEW C, InOrder(k, C), ~Suspended(k, k.cur), k.cur # Idle
  PROVE  LET n == SuspendSelf(k)
         IN /\ InOrder(n, C) /\ Blocked(n, k, k.cur, {}) /\ n.cur = k.cur
            /\ n.timer \subseteq k.timer
<1> DEFINE t == k.cur
           u == RemoveThread(k, t)
           n == SuspendSelf(k)
<1>1. /\ QueueInv(k, {}) /\ QueueLists(k, {}) /\ NoRepeats(k) /\ k \in Kernel /\ t \in Thread
      /\ k.stat[t] = "RUNNING" /\ k.stat \in [Thread -> Stat] /\ t \notin WaitSet(k)
  BY OrderlyFacts DEF QueueLists, OtherLists
<1>2. /\ QueueInv(n, {})
      /\ n.cur = k.cur /\ n.nest = k.nest /\ n.timer = k.timer \ {t}
      /\ OneStat(n, k, t, "SUSPEND")
  BY <1>1, SuspendSelfLemma
<1>3. n.wait = k.wait /\ n.error = k.error
  <2>1. u.wait = k.wait /\ u.error = k.error
    BY <1>1, RemoveKeeps
  <2>2. u \in Kernel
    <3>1. QueueLists(u, {} \cup {t})
      BY <1>1, RemoveLemma
    <3> QED BY <3>1 DEF QueueLists
  <2>3. n = [u EXCEPT !.stat[t] = "SUSPEND", !.timer = @ \ {t}]
    BY DEF SuspendSelf
  <2> HIDE DEF u, n
  <2> QED BY <2>1, <2>2, <2>3 DEF Kernel
<1> HIDE DEF n
<1>4. \A x \in Thread : n.stat[x] = IF x = t THEN "SUSPEND" ELSE k.stat[x]
  BY <1>1, <1>2 DEF OneStat
<1>5. Blocked(n, k, t, {})
  BY <1>2, <1>3, <1>4 DEF Blocked, Suspended
<1>6. OneNode(n)
  BY <1>2, <1>3 DEF InOrder, OneNode, QueueInv, QueueLists
<1>7. /\ OnlyClosed(n, C)
      /\ ~Suspended(n, Idle)
      /\ \A x \in n.timer : Suspended(n, x)
  <2>1. n.timer \subseteq Thread
    BY <1>1, <1>2 DEF Kernel
  <2>2. OnlyClosed(k, C) /\ t \notin C
    BY OrderlyFacts
  <2>3. OnlyClosed(n, C)
    BY <1>4, <2>2 DEF OnlyClosed
  <2> QED BY <1>2, <1>4, <2>1, <2>3 DEF InOrder, Suspended
<1>8. InOrder(n, C)
  BY <1>2, <1>6, <1>7 DEF InOrder
<1> QED BY <1>2, <1>5, <1>8 DEF n

\* The place _ipc_list_suspend finds among the waiters of an object.
LEMMA EnqueueLists ==
  ASSUME NEW k \in Kernel, NEW o \in WaitObj, NEW t \in Thread, NoRepeats(k),
         t \notin ToSet(k.wait[o])
  PROVE  LET n == Enqueue(k, o, t)
         IN /\ n \in Kernel
            /\ n = [k EXCEPT !.wait = n.wait]
            /\ ToSet(n.wait[o]) = ToSet(k.wait[o]) \cup {t} /\ IsInjective(n.wait[o])
            /\ \A q \in WaitObj : q # o => n.wait[q] = k.wait[q]
<1> DEFINE s == k.wait[o]
           less == {i \in DOMAIN s : k.prio[t] < k.prio[s[i]]}
           at == IF less = {} THEN Len(s) + 1 ELSE Min(less)
           r == IF o \in Fifo THEN Append(s, t) ELSE InsertByPrio(k, s, t)
           n == Enqueue(k, o, t)
<1>1. s \in Seq(Thread) /\ IsInjective(s)
  BY DEF Kernel, NoRepeats
<1>2. n = [k EXCEPT !.wait[o] = r]
  BY DEF Enqueue
<1> HIDE DEF s
<1>3. at \in 1..(Len(s) + 1)
  <2>1. less \subseteq 1..Len(s) /\ Len(s) \in Nat
    BY <1>1
  <2>2. CASE less = {}
    BY <2>1, <2>2
  <2>3. CASE less # {}
    <3> HIDE DEF less
    <3>1. less \subseteq Nat
      BY <2>1
    <3>2. PICK m \in less : \A x \in less : m <= x
      BY <3>1, <2>3, LeastNatural
    <3>3. Min(less) \in less
      BY <3>2 DEF Min
    <3>4. at = Min(less)
      BY <2>3
    <3>5. Min(less) \in 1..Len(s)
      BY <2>1, <3>3
    <3> HIDE DEF at
    <3> QED BY <2>1, <3>4, <3>5
  <2> QED BY <2>2, <2>3
<1>4. r \in Seq(Thread) /\ ToSet(r) = ToSet(s) \cup {t} /\ IsInjective(r)
  <2>1. CASE o \in Fifo
    BY <2>1, <1>1, AppendLemma DEF s
  <2>2. CASE o \notin Fifo
    <3>1. r = InsertAt(s, at, t)
      BY <2>2 DEF InsertByPrio
    <3> HIDE DEF at, r
    <3>2. LET v == InsertAt(s, at, t)
          IN /\ v \in Seq(Thread) /\ ToSet(v) = ToSet(s) \cup {t}
             /\ IsInjective(s) /\ t \notin ToSet(s) => IsInjective(v)
      BY <1>1, <1>3, InsertAtLemma
    <3> QED BY <3>1, <3>2, <1>1 DEF s
  <2> QED BY <2>1, <2>2
<1> HIDE DEF r, n
<1>5. k.wait \in [WaitObj -> Seq(Thread)]
  BY DEF Kernel
<1>6. n \in Kernel /\ n.wait = [k.wait EXCEPT ![o] = r]
  BY <1>2, <1>4 DEF Kernel
<1>7. n = [k EXCEPT !.wait = n.wait]
  BY <1>2, <1>6
<1>8. n.wait[o] = r /\ \A q \in WaitObj : q # o => n.wait[q] = k.wait[q]
  BY <1>5, <1>6
<1> QED BY <1>4, <1>6, <1>7, <1>8 DEF n, s

LEMMA EnqueueOrderly ==
  ASSUME NEW k, NEW C, NEW o \in WaitObj, NEW t \in Thread, InOrder(k, C), Suspended(k, t),
         \A q \in WaitObj : t \notin ToSet(k.wait[q])
  PROVE  LET n == Enqueue(k, o, t)
         IN InOrder(n, C) /\ Blocked(n, k, t, {o}) /\ n.cur = k.cur /\ n.timer = k.timer
<1> DEFINE n == Enqueue(k, o, t)
<1>1. /\ QueueInv(k, {}) /\ QueueLists(k, {}) /\ NoRepeats(k) /\ k \in Kernel
      /\ OneRunning(k)
  BY OrderlyFacts DEF QueueLists
<1>2. /\ n \in Kernel /\ n = [k EXCEPT !.wait = n.wait]
      /\ ToSet(n.wait[o]) = ToSet(k.wait[o]) \cup {t} /\ IsInjective(n.wait[o])
      /\ \A q \in WaitObj : q # o => n.wait[q] = k.wait[q]
  BY <1>1, EnqueueLists
<1> HIDE DEF n
<1>3. /\ n.ready = k.ready /\ n.group = k.group /\ n.defunct = k.defunct /\ n.stat = k.stat
      /\ n.prio = k.prio /\ n.cur = k.cur /\ n.nest = k.nest /\ n.timer = k.timer
      /\ n.error = k.error
  BY <1>1, <1>2 DEF Kernel
<1>4. \A q \in WaitObj : ToSet(n.wait[q]) = IF q = o THEN ToSet(k.wait[q]) \cup {t}
                                                    ELSE ToSet(k.wait[q])
  BY <1>2
<1>5. Blocked(n, k, t, {o})
  BY <1>3, <1>4 DEF Blocked, Suspended
<1>6. NoRepeats(n)
  BY <1>1, <1>2, <1>3 DEF NoRepeats
<1>7. OtherLists(n)
  <2>1. \A x \in WaitSet(n) : x \in WaitSet(k) \/ x = t
    BY <1>4 DEF WaitSet
  <2> QED BY <1>1, <1>3, <2>1 DEF QueueLists, OtherLists, DefunctSet, Suspended
<1>8. QueueInv(n, {})
  BY <1>1, <1>2, <1>3, <1>6, <1>7 DEF QueueInv, QueueLists, ReadyLists, Bitmap, OneRunning
<1>9. OneNode(n)
  <2>1. \A q, r \in WaitObj : q # r => ToSet(k.wait[q]) \cap ToSet(k.wait[r]) = {}
    BY DEF InOrder, OneNode
  <2> QED BY <1>4, <1>6, <2>1 DEF OneNode
<1>10. InOrder(n, C)
  BY <1>3, <1>8, <1>9 DEF InOrder, Suspended, OnlyClosed
<1> QED BY <1>3, <1>5, <1>10 DEF n

\* _ipc_list_suspend of the current thread, which has a timeout or waits forever
LEMMA SuspendForOrderly ==
  ASSUME NEW k, NEW C, NEW o \in WaitObj, NEW timed,
         InOrder(k, C), ~Suspended(k, k.cur), k.cur # Idle
  PROVE  LET n == SuspendFor(k, o, timed)
         IN /\ InOrder(n, C) /\ BlockedOn(n, k, k.cur, o) /\ n.cur = k.cur
            /\ ~timed => n.timer \subseteq k.timer
<1> DEFINE t == k.cur
           u == SuspendSelf(k)
           e == Enqueue(u, o, t)
           n == SuspendFor(k, o, timed)
<1>1. /\ k \in Kernel /\ t \in Thread
      /\ \A q \in WaitObj : t \notin ToSet(k.wait[q])
  BY OrderlyFacts DEF Suspended
<1>2. InOrder(u, C) /\ Blocked(u, k, t, {}) /\ u.cur = t /\ u.timer \subseteq k.timer
  BY SuspendSelfOrderly
<1>3. e = SuspendOn(k, o)
  BY DEF SuspendOn
<1>4. n = IF timed THEN StartTimer(e, t) ELSE e
  BY <1>3 DEF SuspendFor
<1> HIDE DEF t, u, n
<1>5. Suspended(u, t) /\ \A q \in WaitObj : t \notin ToSet(u.wait[q])
  BY <1>1, <1>2 DEF Blocked
<1>6. InOrder(e, C) /\ Blocked(e, u, t, {o}) /\ e.cur = u.cur /\ e.timer = u.timer
  BY <1>1, <1>2, <1>5, EnqueueOrderly
<1> HIDE DEF e
<1>7. Blocked(e, k, t, {o})
  BY <1>2, <1>6 DEF Blocked
<1>8. CASE ~timed
  BY <1>2, <1>4, <1>6, <1>7, <1>8 DEF n, t, BlockedOn
<1>9. CASE timed
  <2>1. e \in Kernel /\ QueueInv(e, {})
    BY <1>6, OrderlyFacts
  <2>2. n = [e EXCEPT !.timer = @ \cup {t}]
    BY <1>4, <1>9 DEF StartTimer
  <2>3. /\ n \in Kernel /\ SameLists(n, e) /\ n.stat = e.stat /\ n.cur = e.cur
        /\ n.nest = e.nest /\ n.timer = e.timer \cup {t} /\ n.wait = e.wait
        /\ n.error = e.error
    BY <1>1, <2>1, <2>2 DEF Kernel, SameLists
  <2>4. QueueInv(n, {})
    BY <2>1, <2>3, FrameInv
  <2>5. OneNode(n)
    BY <1>6, <2>3, <2>4 DEF InOrder, OneNode, QueueInv, QueueLists
  <2>6. Suspended(e, t)
    BY <1>1, <1>7 DEF Blocked
  <2>7. InOrder(n, C)
    BY <1>6, <2>3, <2>4, <2>5, <2>6 DEF InOrder, Suspended, OnlyClosed
  <2>8. Blocked(n, k, t, {o})
    BY <1>7, <2>3 DEF Blocked, Suspended
  <2> QED BY <1>2, <1>6, <1>9, <2>3, <2>7, <2>8 DEF n, t, BlockedOn
<1> QED BY <1>8, <1>9

\* The same after the write of thread->error in front of it.
SleepFor(k, t, o, e, timed) == SuspendFor([k EXCEPT !.error[t] = e], o, timed)

LEMMA BlockOrderly ==
  ASSUME NEW k, NEW C, NEW t, NEW o \in WaitObj, NEW timed, NEW e \in Error,
         InOrder(k, C), t = k.cur, ~Suspended(k, t), t # Idle,
         NEW n, n = SleepFor(k, t, o, e, timed)
  PROVE  /\ InOrder(n, C) /\ n.cur = t /\ Sleeps(n, k, t, o, e)
         /\ ~timed => n.timer \subseteq k.timer
<1> DEFINE m == SetError(k, t, e)
<1>1. t \in Thread
  BY OrderlyFacts
<1>0. n = SuspendFor(m, o, timed)
  BY DEF SetError, SleepFor
<1>2. /\ InOrder(m, C) /\ m.cur = k.cur /\ m.stat = k.stat /\ m.wait = k.wait
      /\ m.timer = k.timer
      /\ \A x \in Thread : m.error[x] = IF x = t THEN e ELSE k.error[x]
  BY <1>1, ErrorOrderly
<1> HIDE DEF m
<1>3. /\ InOrder(n, C) /\ BlockedOn(n, m, m.cur, o) /\ n.cur = m.cur
      /\ ~timed => n.timer \subseteq m.timer
  <2>1. InOrder(m, C) /\ ~Suspended(m, m.cur) /\ m.cur # Idle
    BY <1>2 DEF Suspended
  <2>2. LET y == SuspendFor(m, o, timed)
        IN /\ InOrder(y, C) /\ BlockedOn(y, m, m.cur, o) /\ y.cur = m.cur
           /\ ~timed => y.timer \subseteq m.timer
    BY <2>1, SuspendForOrderly
  <2> QED BY <1>0, <2>2
<1>7. n.timer \subseteq k.timer \cup {t}
  BY <1>2, <1>3 DEF Blocked, BlockedOn
<1>4. \A q \in WaitObj : ToSet(n.wait[q]) = IF q = o THEN ToSet(k.wait[q]) \cup {t}
                                                    ELSE ToSet(k.wait[q])
  BY <1>2, <1>3 DEF Blocked, BlockedOn
<1>5. \A x \in Thread : n.error[x] = IF x = t THEN e ELSE k.error[x]
  BY <1>1, <1>2, <1>3 DEF Blocked, BlockedOn
<1>6. \A x \in Thread : Suspended(n, x) <=> Suspended(k, x) \/ x = t
  BY <1>2, <1>3 DEF Blocked, BlockedOn, Suspended
<1>8. Sleeps(n, k, t, o, e)
  BY <1>4, <1>5, <1>6, <1>7 DEF Sleeps
<1> QED BY <1>2, <1>3, <1>8

\* The waiters of a list, looked at one after the other.
Turn(x, t, W, e) == IF t \in W THEN ResumeWith(x, t, e) ELSE x
Turns(f, k, s, W, e, m) ==
  f = [n \in 0..m |-> IF n = 0 THEN k ELSE Turn(f[n - 1], s[n], W, e)]

\* There are turns for every list.
LEMMA TurnsExist ==
  ASSUME NEW k, NEW s, NEW W, NEW e, NEW m \in Nat
  PROVE  \E f : Turns(f, k, s, W, e, m)
<1> DEFINE without == {j \in Nat : ~\E f : Turns(f, k, s, W, e, j)}
<1> SUFFICES ASSUME without # {} PROVE FALSE
  OBVIOUS
<1>1. PICK j \in without : \A i \in without : j <= i
  <2>1. without \in SUBSET Nat
    OBVIOUS
  <2> HIDE DEF without
  <2> QED BY <2>1, LeastNatural
<1>2. CASE j = 0
  <2> DEFINE f == [n \in 0..0 |-> k]
  <2>1. Turns(f, k, s, W, e, 0)
    BY DEF Turns
  <2> QED BY <1>1, <1>2, <2>1
<1>3. CASE j # 0
  <2>1. j \in Nat /\ j - 1 \in Nat /\ ~(j <= j - 1)
    BY <1>1, <1>3
  <2>2. PICK f : Turns(f, k, s, W, e, j - 1)
    BY <1>1, <2>1
  <2> DEFINE g == [n \in 0..j |-> IF n = j THEN Turn(f[j - 1], s[j], W, e) ELSE f[n]]
  <2>3. \A n \in 0..j : g[n] = IF n = 0 THEN k ELSE Turn(g[n - 1], s[n], W, e)
    <3> SUFFICES ASSUME NEW n \in 0..j
                 PROVE  g[n] = IF n = 0 THEN k ELSE Turn(g[n - 1], s[n], W, e)
      OBVIOUS
    <3>1. CASE n = j
      <4>1. j - 1 \in 0..j /\ j - 1 # j /\ j # 0 /\ j \in 0..j
        BY <2>1, <1>3
      <4>2. g[j - 1] = f[j - 1] /\ g[j] = Turn(f[j - 1], s[j], W, e)
        BY <4>1
      <4> QED BY <3>1, <4>1, <4>2
    <3>2. CASE n # j
      <4>1. n \in 0..(j - 1) /\ g[n] = f[n]
        BY <2>1, <3>2
      <4>2. f[n] = IF n = 0 THEN k ELSE Turn(f[n - 1], s[n], W, e)
        BY <2>2, <4>1 DEF Turns
      <4>3. n # 0 => g[n - 1] = f[n - 1]
        BY <2>1, <3>2
      <4> QED BY <4>1, <4>2, <4>3
    <3> QED BY <3>1, <3>2
  <2>4. g = [n \in 0..j |-> g[n]]
    OBVIOUS
  <2> HIDE DEF g
  <2>5. Turns(g, k, s, W, e, j)
    BY <2>3, <2>4 DEF Turns
  <2> QED BY <1>1, <2>5
<1> QED BY <1>2, <1>3

\* A list is gone through with interrupts disabled: the waiters in W are woken.
LEMMA ResumeSomeOrderly ==
  ASSUME NEW k, NEW C, NEW o \in WaitObj, NEW W, NEW e \in Error, InOrder(k, C)
  PROVE  LET n == ResumeSome(k, o, W, e)
         IN InOrder(n, C) /\ AwakenedOf(n, k, o, W, e) /\ n.cur = k.cur
<1> DEFINE s == k.wait[o]
           after == CHOOSE f : Turns(f, k, s, W, e, Len(s))
           First(n) == {s[i] : i \in 1..n} \cap W
           Good(n) == /\ InOrder(after[n], C) /\ Awakened(after[n], k, First(n), e)
                      /\ after[n].cur = k.cur
           bad == {n \in 0..Len(s) : ~Good(n)}
<1>1. /\ s \in Seq(Thread) /\ IsInjective(s) /\ Len(s) \in Nat /\ DOMAIN s = 1..Len(s)
      /\ \A i \in 1..Len(s) : s[i] \in Thread /\ s[i] \in ToSet(s)
      /\ ToSet(s) \cap W = First(Len(s))
  <2>1. /\ s \in Seq(Thread) /\ IsInjective(s) /\ ToSet(s) \subseteq Thread
    BY OrderlyFacts DEF QueueLists, NoRepeats
  <2>2. Len(s) \in Nat /\ DOMAIN s = 1..Len(s) /\ ToSet(s) \cap W = First(Len(s))
    BY <2>1 DEF ToSet
  <2>3. \A i \in 1..Len(s) : s[i] \in ToSet(s)
    BY <2>2 DEF ToSet
  <2>4. \A i \in 1..Len(s) : s[i] \in Thread
    BY <2>1, <2>3
  <2> QED BY <2>1, <2>2, <2>3, <2>4
<1>2. ResumeSome(k, o, W, e) = after[Len(s)]
  BY DEF ResumeSome, Turns, Turn
<1>3. \A n \in 0..Len(s) :
        after[n] = IF n = 0 THEN k ELSE Turn(after[n - 1], s[n], W, e)
  <2>1. \E f : Turns(f, k, s, W, e, Len(s))
    BY <1>1, TurnsExist
  <2>2. Turns(after, k, s, W, e, Len(s))
    BY <2>1
  <2> HIDE DEF after
  <2> QED BY <2>2 DEF Turns
<1>4. \A t \in ToSet(s) : Suspended(k, t)
  BY OrderlyFacts DEF Suspended
<1> HIDE DEF s, after
<1>5. bad = {}
  <2> SUFFICES ASSUME bad # {} PROVE FALSE
    OBVIOUS
  <2>1. PICK n \in bad : \A i \in bad : n <= i
    <3>1. bad \in SUBSET Nat
      BY <1>1
    <3> HIDE DEF bad
    <3> QED BY <3>1, LeastNatural
  <2>2. n \in 0..Len(s) /\ n \in Nat /\ ~Good(n)
    BY <2>1, <1>1
  <2>3. \A i \in 0..Len(s) : ~(n <= i) => Good(i)
    BY <2>1
  <2> HIDE DEF Good, bad
  <2>4. CASE n = 0
    <3>1. after[0] = k /\ First(0) = {}
      BY <1>1, <1>3
    <3>2. Awakened(k, k, {}, e)
      BY DEF Awakened
    <3>3. Good(0)
      BY <3>1, <3>2 DEF Good
    <3> QED BY <2>2, <2>4, <3>3
  <2>5. CASE n # 0
    <3>1. n - 1 \in 0..Len(s) /\ n \in 1..Len(s) /\ ~(n <= n - 1)
      BY <2>2, <2>5, <1>1
    <3>2. Good(n - 1)
      BY <2>3, <3>1
    <3> DEFINE t == s[n]
               m == after[n - 1]
    <3>3. after[n] = Turn(m, t, W, e)
      BY <1>3, <3>1, <2>2, <2>5
    <3>4. t \in Thread /\ t \in ToSet(s) /\ t \notin First(n - 1)
      <4>1. t \in Thread /\ t \in ToSet(s)
        BY <1>1, <3>1
      <4>2. \A i \in 1..(n - 1) : s[i] # s[n]
        <5>1. \A i \in 1..(n - 1) : i \in DOMAIN s /\ n \in DOMAIN s /\ i # n
          BY <1>1, <2>2
        <5>2. \A i, j \in DOMAIN s : s[i] = s[j] => i = j
          BY <1>1 DEF IsInjective
        <5> QED BY <5>1, <5>2
      <4> QED BY <4>1, <4>2
    <3>5. Suspended(m, t)
      BY <3>2, <3>4, <1>4 DEF Awakened, Good
    <3>6. First(n) = IF t \in W THEN First(n - 1) \cup {t} ELSE First(n - 1)
      <4>1. \A i : i \in 1..n <=> i \in 1..(n - 1) \/ i = n
        BY <2>2, <3>1
      <4>2. {s[i] : i \in 1..n} = {s[i] : i \in 1..(n - 1)} \cup {t}
        BY <4>1
      <4> QED BY <4>2
    <3> HIDE DEF t, First, m
    <3>7. InOrder(m, C) /\ Awakened(m, k, First(n - 1), e) /\ m.cur = k.cur
      BY <3>2 DEF m, Good
    <3>8. Good(n)
      <4>1. CASE t \in W
        <5>1. LET v == ResumeWith(m, t, e)
              IN InOrder(v, C) /\ Awakened(v, m, {t}, e) /\ v.cur = m.cur
          BY <3>4, <3>5, <3>7, WakeOrderly
        <5>2. InOrder(after[n], C) /\ Awakened(after[n], m, {t}, e) /\ after[n].cur = m.cur
          BY <5>1, <3>3, <4>1 DEF Turn
        <5>3. Awakened(after[n], k, First(n), e)
          BY <5>2, <3>6, <3>7, <4>1 DEF Awakened
        <5> QED BY <5>2, <5>3, <3>7 DEF Good
      <4>2. CASE t \notin W
        <5>1. after[n] = m /\ First(n) = First(n - 1)
          BY <3>3, <3>6, <4>2 DEF Turn
        <5> QED BY <5>1, <3>7 DEF Good
      <4> QED BY <4>1, <4>2
    <3> QED BY <2>2, <3>8
  <2> QED BY <2>4, <2>5
<1>6. Good(Len(s))
  <2>1. Len(s) \in 0..Len(s)
    BY <1>1
  <2> HIDE DEF Good
  <2> QED BY <1>5, <2>1
<1> QED BY <1>1, <1>2, <1>6 DEF s, AwakenedOf

\* _ipc_list_resume_all: every waiter of the object is woken, with an error.
LEMMA ResumeAllOrderly ==
  ASSUME NEW k, NEW C, NEW o \in WaitObj, InOrder(k, C)
  PROVE  LET n == ResumeAll(k, o)
         IN InOrder(n, C) /\ Awakened(n, k, ToSet(k.wait[o]), "ERROR") /\ n.cur = k.cur
<1> DEFINE W == ToSet(k.wait[o])
<1>1. "ERROR" \in Error /\ W \cap W = W
  BY DEF Error
<1> HIDE DEF W
<1>2. LET n == ResumeSome(k, o, W, "ERROR")
      IN InOrder(n, C) /\ Awakened(n, k, W \cap W, "ERROR") /\ n.cur = k.cur
  <2>1. LET n == ResumeSome(k, o, W, "ERROR")
        IN InOrder(n, C) /\ AwakenedOf(n, k, o, W, "ERROR") /\ n.cur = k.cur
    BY <1>1, ResumeSomeOrderly
  <2> QED BY <2>1 DEF W, AwakenedOf
<1> QED BY <1>1, <1>2 DEF ResumeAll, W

\* An interrupt handler that wakes threads ends with the rt_schedule it asks for.
LEMMA WokenThenScheduled ==
  ASSUME NEW k, NEW C, NEW n, NEW W, NEW e, InOrder(n, C), Awakened(n, k, W, e)
  PROVE  LET m == Schedule(n)
         IN InOrder(m, C) /\ Awakened(m, k, W, e) /\ ~Suspended(m, m.cur)
<1> DEFINE m == Schedule(n)
<1>1. InOrder(m, C) /\ Keeps(m, n) /\ ~Suspended(m, m.cur)
  BY ScheduleOrderly
<1> HIDE DEF m
<1>2. Awakened(m, k, W, e)
  BY <1>1 DEF Awakened, Keeps
<1> QED BY <1>1, <1>2 DEF m

-----------------------------------------------------------------------------
(* Threads that change their place among the waiters, and threads that close *)

\* The thread t is taken out of whatever list it waits in, and stays suspended.
Unlinked(n, k, t) ==
  /\ \A o \in WaitObj : ToSet(n.wait[o]) = ToSet(k.wait[o]) \ {t}
  /\ n.stat = k.stat /\ n.error = k.error /\ n.timer = k.timer
  /\ n.cur = k.cur /\ n.prio = k.prio

LEMMA UnlinkStep ==
  ASSUME NEW k, NEW C, NEW t \in Thread, NEW n, InOrder(k, C), QueueInv(n, {}),
         n.nest = k.nest, Unlinked(n, k, t)
  PROVE  InOrder(n, C)
<1>1. NoRepeats(n)
  BY DEF QueueInv, QueueLists
<1>2. OneNode(n)
  <2>1. \A o, q \in WaitObj : o # q => ToSet(k.wait[o]) \cap ToSet(k.wait[q]) = {}
    BY DEF InOrder, OneNode
  <2>2. \A o \in WaitObj : ToSet(n.wait[o]) \subseteq ToSet(k.wait[o])
    BY DEF Unlinked
  <2> QED BY <1>1, <2>1, <2>2 DEF OneNode
<1> QED BY <1>2 DEF InOrder, Unlinked, Suspended, OnlyClosed

\* rt_list_remove of a suspended thread
LEMMA UnlinkOrderly ==
  ASSUME NEW k, NEW C, NEW t \in Thread, InOrder(k, C), Suspended(k, t)
  PROVE  LET n == ListRemove(k, t) IN InOrder(n, C) /\ Unlinked(n, k, t)
<1> DEFINE n == ListRemove(k, t)
<1>1. k \in Kernel /\ QueueInv(k, {}) /\ NoRepeats(k) /\ k.stat[t] # "READY"
  BY OrderlyFacts DEF QueueLists, Suspended
<1>2. /\ \A o \in WaitObj : ToSet(n.wait[o]) = ToSet(k.wait[o]) \ {t}
      /\ n.cur = k.cur /\ n.stat = k.stat /\ n.prio = k.prio /\ n.nest = k.nest
      /\ n.timer = k.timer /\ n.error = k.error
  BY <1>1, ListRemoveFields
<1>3. QueueInv(n, {})
  BY <1>1, ListRemoveInv
<1> HIDE DEF n
<1>4. Unlinked(n, k, t)
  BY <1>2 DEF Unlinked
<1>5. InOrder(n, C)
  BY <1>2, <1>3, <1>4, UnlinkStep
<1> QED BY <1>4, <1>5 DEF n

\* rt_schedule_remove_thread of a suspended thread
LEMMA RemoveOrderly ==
  ASSUME NEW k, NEW C, NEW t \in Thread, InOrder(k, C), Suspended(k, t)
  PROVE  LET n == RemoveThread(k, t) IN InOrder(n, C) /\ Unlinked(n, k, t)
<1> DEFINE n == RemoveThread(k, t)
<1>1. /\ k \in Kernel /\ QueueInv(k, {}) /\ NoRepeats(k) /\ k.stat[t] # "READY"
      /\ Bitmap(k) /\ ReadyLists(k, {})
  BY OrderlyFacts DEF QueueLists, Suspended
<1>2. \A p \in Prio : p # k.prio[t] => t \notin ToSet(k.ready[p])
  BY <1>1 DEF ReadyLists
<1>3. /\ \A o \in WaitObj : ToSet(n.wait[o]) = ToSet(k.wait[o]) \ {t}
      /\ n.cur = k.cur /\ n.stat = k.stat /\ n.prio = k.prio /\ n.nest = k.nest
      /\ n.timer = k.timer /\ n.error = k.error
  BY <1>1, <1>2, RemoveFields
<1>4. QueueInv(n, {} \cup {t})
  BY <1>1, RemoveInv
<1> HIDE DEF n
<1>5. QueueInv(n, {})
  <2>1. n.stat[t] # "READY"
    BY <1>1, <1>3
  <2> QED BY <1>4, <2>1, RemovedNotReady DEF QueueInv
<1>6. Unlinked(n, k, t)
  BY <1>3 DEF Unlinked
<1>7. InOrder(n, C)
  BY <1>3, <1>5, <1>6, UnlinkStep
<1> QED BY <1>6, <1>7 DEF n

\* A waiter is taken out of its list and put back at the place it is due.
LEMMA MoveOrderly ==
  ASSUME NEW k, NEW C, NEW t \in Thread, NEW o \in WaitObj, InOrder(k, C),
         t \in ToSet(k.wait[o])
  PROVE  LET n == Enqueue(ListRemove(k, t), o, t)
         IN InOrder(n, C) /\ Keeps(n, k) /\ n.cur = k.cur
<1> DEFINE u == ListRemove(k, t)
           n == Enqueue(u, o, t)
<1>1. Suspended(k, t) /\ \A q \in WaitObj : q # o => t \notin ToSet(k.wait[q])
  <2>1. Suspended(k, t)
    BY OrderlyFacts DEF Suspended
  <2>2. \A q \in WaitObj : q # o => ToSet(k.wait[o]) \cap ToSet(k.wait[q]) = {}
    BY DEF InOrder, OneNode
  <2> QED BY <2>1, <2>2
<1>2. InOrder(u, C) /\ Unlinked(u, k, t)
  BY <1>1, UnlinkOrderly
<1> HIDE DEF u
<1>3. Suspended(u, t) /\ \A q \in WaitObj : t \notin ToSet(u.wait[q])
  BY <1>1, <1>2 DEF Unlinked, Suspended
<1>4. InOrder(n, C) /\ Blocked(n, u, t, {o}) /\ n.cur = u.cur /\ n.timer = u.timer
  BY <1>2, <1>3, EnqueueOrderly
<1>5. BlockedOn(n, u, t, o)
  BY <1>4 DEF BlockedOn
<1> HIDE DEF n
<1>6. \A q \in WaitObj : ToSet(n.wait[q]) = ToSet(k.wait[q])
  <2> TAKE q \in WaitObj
  <2>1. ToSet(u.wait[q]) = ToSet(k.wait[q]) \ {t}
    BY <1>2 DEF Unlinked
  <2>2. ToSet(n.wait[q]) = IF q = o THEN ToSet(u.wait[q]) \cup {t} ELSE ToSet(u.wait[q])
    BY <1>5 DEF BlockedOn, Blocked
  <2> QED BY <1>1, <2>1, <2>2
<1>7. \A x \in Thread : Suspended(n, x) <=> Suspended(k, x)
  BY <1>1, <1>2, <1>5 DEF BlockedOn, Blocked, Unlinked, Suspended
<1>8. n.error = k.error /\ n.cur = k.cur
  BY <1>2, <1>4, <1>5 DEF BlockedOn, Blocked, Unlinked
<1>9. n.timer \subseteq k.timer
  BY <1>2, <1>4 DEF Unlinked
<1>10. Keeps(n, k)
  BY <1>6, <1>7, <1>8, <1>9 DEF Keeps, Awakened
<1> QED BY <1>4, <1>8, <1>10 DEF n, u

\* The place of a waiter that the mutex is handed to: it is unlinked, then resumed.
LEMMA PickOrderly ==
  ASSUME NEW k, NEW C, NEW t \in Thread, InOrder(k, C), Suspended(k, t)
  PROVE  LET n == Resume(ListRemove(k, t), t)
         IN InOrder(n, C) /\ Awakened(n, k, {t}, k.error[t]) /\ n.cur = k.cur
<1> DEFINE u == ListRemove(k, t)
           n == Resume(u, t)
<1>1. InOrder(u, C) /\ Unlinked(u, k, t)
  BY UnlinkOrderly
<1> HIDE DEF u
<1>2. Suspended(u, t) /\ u.error[t] = k.error[t]
  BY <1>1 DEF Unlinked, Suspended
<1>3. InOrder(n, C) /\ Awakened(n, u, {t}, u.error[t]) /\ n.cur = u.cur
  BY <1>1, <1>2, ResumeOrderly
<1> HIDE DEF n
<1>4. \A o \in WaitObj : ToSet(n.wait[o]) = ToSet(k.wait[o]) \ {t}
  BY <1>1, <1>3 DEF Awakened, Unlinked
<1>5. \A x \in Thread : n.error[x] = IF x \in {t} THEN k.error[t] ELSE k.error[x]
  BY <1>1, <1>3 DEF Awakened, Unlinked
<1>6. /\ \A x \in Thread : Suspended(n, x) <=> Suspended(k, x) /\ x \notin {t}
      /\ n.timer \subseteq k.timer /\ n.cur = k.cur
  BY <1>1, <1>3 DEF Awakened, Unlinked, Suspended
<1>7. Awakened(n, k, {t}, k.error[t])
  BY <1>4, <1>5, <1>6 DEF Awakened
<1> QED BY <1>3, <1>6, <1>7 DEF n, u

\* rt_timer_start of the timer of a thread that waits
LEMMA StartTimerOrderly ==
  ASSUME NEW k, NEW C, NEW t \in Thread, InOrder(k, C), Suspended(k, t)
  PROVE  LET n == StartTimer(k, t)
         IN /\ InOrder(n, C) /\ n.cur = k.cur /\ n.stat = k.stat /\ n.wait = k.wait
            /\ n.error = k.error
            /\ \A x \in n.timer : x \in k.timer \/ x = t
<1> DEFINE n == StartTimer(k, t)
<1>1. k \in Kernel /\ QueueInv(k, {})
  BY OrderlyFacts
<1>2. /\ n \in Kernel /\ SameLists(n, k) /\ n.stat = k.stat /\ n.cur = k.cur
      /\ n.nest = k.nest /\ n.timer = k.timer \cup {t} /\ n.wait = k.wait
      /\ n.error = k.error
  BY <1>1 DEF StartTimer, Kernel, SameLists
<1> HIDE DEF n
<1>3. QueueInv(n, {})
  BY <1>1, <1>2, FrameInv
<1>4. OneNode(n)
  BY <1>2, <1>3 DEF InOrder, OneNode, QueueInv, QueueLists
<1>5. InOrder(n, C)
  BY <1>2, <1>3, <1>4 DEF InOrder, Suspended, OnlyClosed
<1> QED BY <1>2, <1>5 DEF n

\* The closing half of rt_thread_detach, for a thread that has been unlinked: D is
\* the closed threads and this one.
Joined(D, C, t) == \A x \in Thread : x \in D <=> x \in C \/ x = t
Waitless(k, t) == \A o \in WaitObj : t \notin ToSet(k.wait[o])
Closes(n, k, t) ==
  /\ n.cur = k.cur /\ n.wait = k.wait /\ n.error = k.error /\ n.timer \subseteq k.timer
  /\ \A x \in Thread : n.stat[x] = IF x = t THEN "CLOSE" ELSE k.stat[x]

LEMMA CloseOrderly ==
  ASSUME NEW k, NEW C, NEW D, NEW t \in Thread, InOrder(k, C), Suspended(k, t),
         Waitless(k, t), t # k.cur, t # Idle, Joined(D, C, t)
  PROVE  LET n == CloseThread(k, t) IN InOrder(n, D) /\ Closes(n, k, t)
<1> DEFINE n == CloseThread(k, t)
<1>1. /\ k \in Kernel /\ QueueInv(k, {}) /\ QueueLists(k, {}) /\ OneRunning(k)
      /\ k.stat[t] = "SUSPEND" /\ k.nest = 0 /\ k.stat \in [Thread -> Stat]
      /\ k.timer \subseteq Thread /\ k.cur \in Thread
  BY OrderlyFacts DEF Suspended, InOrder, Kernel
<1>2. NoOther(k, t) /\ QueueLists(k, {} \cup {t}) /\ t \notin {}
  <2>1. t \notin WaitSet(k)
    BY DEF WaitSet, Waitless
  <2>2. t \notin DefunctSet(k)
    BY <1>1 DEF QueueLists, OtherLists
  <2>3. QueueLists(k, {} \cup {t})
    BY <1>1, RemovedNotReady
  <2> QED BY <2>1, <2>2, <2>3 DEF NoOther
<1>3. /\ QueueInv(n, {})
      /\ n.cur = k.cur /\ n.nest = k.nest /\ n.timer = k.timer \ {t}
      /\ OneStat(n, k, t, "CLOSE")
  BY <1>1, <1>2, CloseLemma
<1>4. n.wait = k.wait /\ n.error = k.error
  BY <1>1 DEF CloseThread, Kernel
<1> HIDE DEF n
<1>5. \A x \in Thread : n.stat[x] = IF x = t THEN "CLOSE" ELSE k.stat[x]
  BY <1>1, <1>3 DEF OneStat
<1>6. OneNode(n)
  BY <1>3, <1>4 DEF InOrder, OneNode, QueueInv, QueueLists
<1>7. OnlyClosed(n, D)
  <2>1. OnlyClosed(k, C)
    BY OrderlyFacts
  <2> QED BY <1>5, <2>1 DEF OnlyClosed, Joined
<1>8. n.cur \notin D /\ Idle \notin D /\ ~Suspended(n, Idle)
  BY <1>1, <1>3, <1>5 DEF InOrder, Suspended, Joined
<1>9. \A x \in n.timer : Suspended(n, x)
  BY <1>1, <1>3, <1>5 DEF InOrder, Suspended
<1>10. InOrder(n, D)
  BY <1>1, <1>3, <1>6, <1>7, <1>8, <1>9 DEF InOrder
<1>11. Closes(n, k, t)
  BY <1>1, <1>3, <1>4, <1>5 DEF Closes
<1> QED BY <1>10, <1>11 DEF n

-----------------------------------------------------------------------------
(* The kernel when the scheduler starts *)

\* The order that SetToSeq gives a finite set of threads.
LEMMA SetToSeqLemma ==
  ASSUME NEW S, IsFiniteSet(S)
  PROVE  LET s == SetToSeq(S)
         IN s \in Seq(S) /\ IsInjective(s) /\ ToSet(s) = S /\ Len(s) = Cardinality(S)
<1> DEFINE s == SetToSeq(S)
           n == Cardinality(S)
<1>1. n \in Nat /\ ExistsBijection(1..n, S)
  BY FS_CardinalityType
<1>2. s \in [1..n -> S] /\ IsInjective(s)
  <2>1. \E f \in [1..n -> S] : IsInjective(f)
    BY <1>1 DEF ExistsBijection, Bijection, Injection
  <2>2. s = CHOOSE f \in [1..n -> S] : IsInjective(f)
    BY DEF SetToSeq
  <2> HIDE DEF s, n
  <2> QED BY <2>1, <2>2
<1> HIDE DEF s
<1>3. s \in Surjection(1..n, S)
  <2>1. IsFiniteSet(1..n) /\ Cardinality(1..n) = n
    <3> HIDE DEF n
    <3>1. 1 \in Int /\ n \in Int
      BY <1>1
    <3>2. IsFiniteSet(1..n) /\ Cardinality(1..n) = IF 1 > n THEN 0 ELSE n - 1 + 1
      BY <3>1, FS_Interval
    <3> QED BY <1>1, <3>2
  <2>2. s \in Injection(1..n, S)
    BY <1>2 DEF Injection
  <2> QED BY <2>1, <2>2, FS_Injection
<1>4. s \in Seq(S) /\ DOMAIN s = 1..n
  <2> HIDE DEF n
  <2> QED BY <1>1, <1>2
<1>5. ToSet(s) = S
  BY <1>2, <1>3, <1>4 DEF Surjection, ToSet
<1>6. Len(s) = n
  <2> HIDE DEF n
  <2> QED BY <1>1, <1>4
<1> QED BY <1>2, <1>4, <1>5, <1>6 DEF s

\* Everyone is ready to go on but the one that runs, and nobody waits.
LEMMA StartedLemma ==
  LET n == StartedKernel
  IN /\ Orderly(n)
     /\ n \in Kernel /\ n.cur \in Thread
     /\ \A t \in Thread : ~Suspended(n, t) /\ n.error[t] = "EOK"
     /\ \A o \in WaitObj : ToSet(n.wait[o]) = {} /\ ~HasWaiter(n, o)
<1> DEFINE top == Min({InitPrio[t] : t \in Thread})
           first == Head(StartOrder(top))
           ready == [p \in Prio |-> Unlink(StartOrder(p), first)]
           n == StartedKernel
<1>1. \A p : /\ StartOrder(p) \in Seq(Thread) /\ IsInjective(StartOrder(p))
             /\ ToSet(StartOrder(p)) = {t \in Thread : InitPrio[t] = p}
  <2> TAKE p
  <2> DEFINE S == {t \in Thread : InitPrio[t] = p}
  <2>1. IsFiniteSet(S)
    BY FS_Subset
  <2>2. StartOrder(p) = SetToSeq(S)
    BY DEF StartOrder
  <2> HIDE DEF S
  <2>3. StartOrder(p) \in Seq(S) /\ IsInjective(StartOrder(p)) /\ ToSet(StartOrder(p)) = S
    BY <2>1, <2>2, SetToSeqLemma
  <2>4. S \subseteq Thread
    BY DEF S
  <2>5. StartOrder(p) \in Seq(Thread)
    BY <2>3, <2>4
  <2> QED BY <2>3, <2>5 DEF S
<1>2. top \in {InitPrio[t] : t \in Thread}
  <2> DEFINE P == {InitPrio[t] : t \in Thread}
  <2>1. P \subseteq Nat /\ P # {}
    BY PrioAssumption
  <2> HIDE DEF P
  <2>2. \E m \in P : \A x \in P : m <= x
    BY <2>1, LeastNatural
  <2>3. Min(P) \in P
    BY <2>2 DEF Min
  <2> QED BY <2>3 DEF P
<1> HIDE DEF top
<1>3. first \in Thread
  <2>1. ToSet(StartOrder(top)) # {}
    BY <1>1, <1>2
  <2>2. first \in ToSet(StartOrder(top))
    BY <1>1, <2>1, HeadLemma
  <2> QED BY <1>1, <2>2
<1> HIDE DEF first
<1>4. \A p \in Prio : /\ ready[p] \in Seq(Thread) /\ IsInjective(ready[p])
                      /\ ToSet(ready[p]) = {t \in Thread : InitPrio[t] = p} \ {first}
  <2> TAKE p \in Prio
  <2>1. ready[p] = Unlink(StartOrder(p), first)
    OBVIOUS
  <2> HIDE DEF ready
  <2>2. /\ Unlink(StartOrder(p), first) \in Seq(Thread)
        /\ ToSet(Unlink(StartOrder(p), first)) = ToSet(StartOrder(p)) \ {first}
        /\ IsInjective(Unlink(StartOrder(p), first))
    BY <1>1, <1>3, UnlinkLemma
  <2> QED BY <1>1, <2>1, <2>2
<1>5. ready \in [Prio -> Seq(Thread)]
  BY <1>4
<1>6. n = [cur |-> first,
           stat |-> [t \in Thread |-> IF t = first THEN "RUNNING" ELSE "READY"],
           yield |-> {},
           prio |-> InitPrio,
           ready |-> ready,
           wait |-> [o \in WaitObj |-> <<>>],
           defunct |-> <<>>,
           group |-> {p \in Prio : ready[p] # <<>>},
           nest |-> 0,
           timer |-> {},
           error |-> [t \in Thread |-> "EOK"],
           left |-> [t \in Thread |-> Slice]]
  BY DEF StartedKernel, top, first
<1> HIDE DEF ready, n
<1>7. <<>> \in Seq(Thread) /\ ToSet(<<>>) = {} /\ IsInjective(<<>>)
  <2>1. <<>> \in Seq(Thread)
    OBVIOUS
  <2> QED BY <2>1, HeadLemma
<1>8. /\ n.cur = first /\ n.nest = 0 /\ n.timer = {} /\ n.defunct = <<>> /\ n.prio = InitPrio
      /\ n.ready = ready /\ n.group = {p \in Prio : ready[p] # <<>>}
      /\ n.stat = [t \in Thread |-> IF t = first THEN "RUNNING" ELSE "READY"]
      /\ n.error = [t \in Thread |-> "EOK"]
      /\ \A o \in WaitObj : n.wait[o] = <<>>
  BY <1>6
<1>9. n \in Kernel
  <2>1. [t \in Thread |-> Slice] \in [Thread -> 1..Slice]
    BY SliceAssumption
  <2>2. /\ [t \in Thread |-> IF t = first THEN "RUNNING" ELSE "READY"] \in [Thread -> Stat]
        /\ [t \in Thread |-> "EOK"] \in [Thread -> Error]
    BY DEF Stat, Error
  <2>3. [o \in WaitObj |-> <<>>] \in [WaitObj -> Seq(Thread)]
    BY <1>7
  <2> QED BY <1>3, <1>5, <1>6, <1>7, <2>1, <2>2, <2>3 DEF Kernel
<1>10. QueueLists(n, {})
  <2>1. ReadyLists(n, {})
    <3> SUFFICES ASSUME NEW p \in Prio, NEW t \in Thread
                 PROVE  t \in ToSet(n.ready[p])
                        <=> n.stat[t] = "READY" /\ n.prio[t] = p
      BY DEF ReadyLists
    <3>1. n.ready[p] = ready[p] /\ n.prio[t] = InitPrio[t]
          /\ n.stat[t] = IF t = first THEN "RUNNING" ELSE "READY"
      BY <1>8
    <3> QED BY <1>4, <3>1
  <2>2. Bitmap(n)
    BY <1>8 DEF Bitmap
  <2>3. NoRepeats(n)
    BY <1>4, <1>7, <1>8 DEF NoRepeats
  <2>4. OtherLists(n)
    BY <1>7, <1>8 DEF OtherLists, WaitSet, DefunctSet
  <2> QED BY <1>9, <2>1, <2>2, <2>3, <2>4 DEF QueueLists
<1>11. OneRunning(n)
  BY <1>3, <1>8 DEF OneRunning
<1>12. OneNode(n)
  BY <1>7, <1>8, <1>10 DEF OneNode, QueueLists
<1>13. Orderly(n)
  BY <1>8, <1>10, <1>11, <1>12 DEF Orderly, InOrder, OnlyClosed, QueueInv, Suspended
<1>14. \A o \in WaitObj : ToSet(n.wait[o]) = {} /\ ~HasWaiter(n, o)
  BY <1>7, <1>8 DEF HasWaiter
<1>15. n.cur \in Thread /\ \A t \in Thread : ~Suspended(n, t) /\ n.error[t] = "EOK"
  BY <1>3, <1>8 DEF Suspended
<1> QED BY <1>9, <1>13, <1>14, <1>15 DEF n
=============================================================================
