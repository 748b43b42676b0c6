-------------------------- MODULE WorkQueueProofs ---------------------------
(***************************************************************************)
(* The work queue keeps its lists, flags and timers in order, runs only    *)
(* what was submitted, and a cancel_sync never returns before the end, for *)
(* every number of works and callers.                                      *)
(***************************************************************************)
EXTENDS WorkQueue, SequenceTheorems, TLAPS

-----------------------------------------------------------------------------
(* Lists of works: the lemmas of KernelProofs about the kernel's lists, stated *)
(* here without the threads and objects that module is about                 *)

\* rt_list_insert_after(list head, node): the new node becomes the first one.
LEMMA ConsLemma ==
  ASSUME NEW T, NEW s \in Seq(T), NEW t \in T
  PROVE  /\ Cons(t, s) \in Seq(T)
         /\ Cons(t, s) # <<>>
         /\ ToSet(Cons(t, s)) = ToSet(s) \cup {t}
         /\ IsInjective(s) /\ t \notin ToSet(s) => IsInjective(Cons(t, s))
<1> DEFINE c == Cons(t, s)
<1>1. <<t>> \in Seq(T) /\ Len(<<t>>) = 1 /\ <<t>>[1] = t
  OBVIOUS
<1>2. /\ c \in Seq(T)
      /\ Len(c) = 1 + Len(s)
      /\ \A i \in 1..(1 + Len(s)) : c[i] = IF i <= 1 THEN <<t>>[i] ELSE s[i - 1]
  BY <1>1, ConcatProperties DEF Cons
<1>3. /\ c[1] = t
      /\ \A i \in 1..Len(s) : c[i + 1] = s[i]
      /\ DOMAIN c = 1..(Len(s) + 1) /\ DOMAIN s = 1..Len(s)
      /\ Len(s) \in Nat
  BY <1>1, <1>2
<1> HIDE DEF c
<1>4. ToSet(c) = ToSet(s) \cup {t}
  <2>1. ASSUME NEW x \in ToSet(c) PROVE x \in ToSet(s) \cup {t}
    <3>1. PICK i \in 1..(Len(s) + 1) : x = c[i]
      BY <1>3 DEF ToSet
    <3>2. i = 1 \/ (i - 1 \in 1..Len(s) /\ x = s[i - 1])
      BY <3>1, <1>3
    <3> QED BY <3>1, <3>2, <1>3 DEF ToSet
  <2>2. ASSUME NEW x \in ToSet(s) PROVE x \in ToSet(c)
    <3>1. PICK i \in 1..Len(s) : x = s[i]
      BY <1>3 DEF ToSet
    <3>2. i + 1 \in 1..(Len(s) + 1) /\ x = c[i + 1]
      BY <3>1, <1>3
    <3> QED BY <3>2, <1>3 DEF ToSet
  <2>3. t \in ToSet(c)
    BY <1>3 DEF ToSet
  <2> QED BY <2>1, <2>2, <2>3
<1>5. ASSUME IsInjective(s), t \notin ToSet(s) PROVE IsInjective(c)
  <2>1. \A i \in 1..Len(s) : s[i] # t
    BY <1>5, <1>3 DEF ToSet
  <2>2. ASSUME NEW i \in 1..(Len(s) + 1), NEW j \in 1..(Len(s) + 1), c[i] = c[j]
        PROVE  i = j
    <3>1. \A n \in 1..(Len(s) + 1) : n = 1 \/ (n - 1 \in 1..Len(s) /\ c[n] = s[n - 1])
      BY <1>3
    <3>2. CASE i = 1 \/ j = 1
      BY <3>1, <3>2, <2>2, <2>1, <1>3
    <3>3. CASE i # 1 /\ j # 1
      <4>1. i - 1 \in 1..Len(s) /\ j - 1 \in 1..Len(s) /\ s[i - 1] = s[j - 1]
        BY <3>1, <3>3, <2>2
      <4>2. i - 1 = j - 1
        BY <4>1, <1>3, <1>5 DEF IsInjective
      <4> QED BY <4>2
    <3> QED BY <3>2, <3>3
  <2> QED BY <2>2, <1>3 DEF IsInjective
<1> QED
  BY <1>2, <1>3, <1>4, <1>5 DEF c

\* rt_list_insert_before(list head, node): the new node becomes the last one.
LEMMA AppendLemma ==
  ASSUME NEW T, NEW s \in Seq(T), NEW t \in T
  PROVE  /\ Append(s, t) \in Seq(T)
         /\ Append(s, t) # <<>>
         /\ ToSet(Append(s, t)) = ToSet(s) \cup {t}
         /\ IsInjective(s) /\ t \notin ToSet(s) => IsInjective(Append(s, t))
<1> DEFINE c == Append(s, t)
<1>1. /\ c \in Seq(T)
      /\ c[Len(s) + 1] = t
      /\ \A i \in 1..Len(s) : c[i] = s[i]
      /\ DOMAIN c = 1..(Len(s) + 1) /\ DOMAIN s = 1..Len(s)
      /\ Len(s) \in Nat
  OBVIOUS
<1>2. c # <<>>
  BY <1>1
<1> HIDE DEF c
<1>3. ToSet(c) = ToSet(s) \cup {t}
  <2>1. ASSUME NEW x \in ToSet(c) PROVE x \in ToSet(s) \cup {t}
    <3>1. PICK i \in 1..(Len(s) + 1) : x = c[i]
      BY <1>1 DEF ToSet
    <3>2. i = Len(s) + 1 \/ (i \in 1..Len(s) /\ x = s[i])
      BY <3>1, <1>1
    <3> QED BY <3>1, <3>2, <1>1 DEF ToSet
  <2>2. ASSUME NEW x \in ToSet(s) PROVE x \in ToSet(c)
    <3>1. PICK i \in 1..Len(s) : x = s[i]
      BY <1>1 DEF ToSet
    <3>2. i \in 1..(Len(s) + 1) /\ x = c[i]
      BY <3>1, <1>1
    <3> QED BY <3>2, <1>1 DEF ToSet
  <2>3. t \in ToSet(c)
    BY <1>1 DEF ToSet
  <2> QED BY <2>1, <2>2, <2>3
<1>4. ASSUME IsInjective(s), t \notin ToSet(s) PROVE IsInjective(c)
  <2>1. \A i \in 1..Len(s) : s[i] # t
    BY <1>4, <1>1 DEF ToSet
  <2>2. ASSUME NEW i \in 1..(Len(s) + 1), NEW j \in 1..(Len(s) + 1), c[i] = c[j]
        PROVE  i = j
    <3>1. CASE i = Len(s) + 1 \/ j = Len(s) + 1
      <4>1. \A n \in 1..(Len(s) + 1) : n = Len(s) + 1 \/ (n \in 1..Len(s) /\ c[n] # t)
        BY <2>1, <1>1
      <4> QED BY <4>1, <3>1, <2>2, <1>1
    <3>2. CASE i # Len(s) + 1 /\ j # Len(s) + 1
      <4>1. i \in 1..Len(s) /\ j \in 1..Len(s)
        BY <3>2, <1>1
      <4>2. s[i] = s[j]
        BY <4>1, <2>2, <1>1
      <4> QED BY <4>1, <4>2, <1>1, <1>4 DEF IsInjective
    <3> QED BY <3>1, <3>2
  <2> QED BY <2>2, <1>1 DEF IsInjective
<1> QED
  BY <1>1, <1>2, <1>3, <1>4 DEF c

\* rt_list_remove(node): the node, linked or not, leaves the list, and nothing
\* else does.
LEMMA UnlinkLemma ==
  ASSUME NEW T, NEW s \in Seq(T), NEW t \in T, IsInjective(s)
  PROVE  /\ Unlink(s, t) \in Seq(T)
         /\ ToSet(Unlink(s, t)) = ToSet(s) \ {t}
         /\ IsInjective(Unlink(s, t))
<1>0. DOMAIN s = 1..Len(s) /\ Len(s) \in Nat
  OBVIOUS
<1>1. CASE t \notin ToSet(s)
  BY <1>1 DEF Unlink
<1>2. CASE t \in ToSet(s)
  <2> DEFINE n == CHOOSE i \in DOMAIN s : s[i] = t
             r == RemoveAt(s, n)
             front == SubSeq(s, 1, n - 1)
             back == SubSeq(s, n + 1, Len(s))
  <2>1. n \in 1..Len(s) /\ s[n] = t
    BY <1>0, <1>2 DEF ToSet
  <2>2. Unlink(s, t) = r
    BY <1>2 DEF Unlink
  <2> HIDE DEF n
  <2>3. /\ front \in Seq(T) /\ Len(front) = n - 1
        /\ \A i \in 1..(n - 1) : front[i] = s[i]
    <3>1. \A i \in 1..(n - 1) : s[i] \in T
      BY <2>1, <1>0
    <3>2. n - 1 \in Int /\ 1 \in Int
      BY <2>1
    <3> QED BY <3>1, <3>2, <2>1, SubSeqProperties
  <2>4. /\ back \in Seq(T) /\ Len(back) = Len(s) - n
        /\ \A i \in 1..(Len(s) - n) : back[i] = s[n + i]
    <3>1. \A i \in (n + 1)..Len(s) : s[i] \in T
      BY <2>1, <1>0
    <3>2. n + 1 \in Int /\ Len(s) \in Int
      BY <2>1, <1>0
    <3>3. /\ back \in Seq(T)
          /\ Len(back) = IF n + 1 <= Len(s) THEN Len(s) - (n + 1) + 1 ELSE 0
          /\ \A i \in 1..(Len(s) - (n + 1) + 1) : back[i] = s[n + 1 + i - 1]
      BY <3>1, <3>2, SubSeqProperties
    <3>4. Len(s) - (n + 1) + 1 = Len(s) - n
      BY <2>1, <1>0
    <3>5. (IF n + 1 <= Len(s) THEN Len(s) - (n + 1) + 1 ELSE 0) = Len(s) - n
      <4>1. CASE n = Len(s)
        BY <4>1, <1>0
      <4>2. CASE n # Len(s)
        <5>1. n + 1 <= Len(s)
          <6>1. n \in Int /\ n <= Len(s) /\ Len(s) \in Int
            BY <2>1, <1>0
          <6> QED BY <6>1, <4>2
        <5> QED BY <5>1, <3>4
      <4> QED BY <4>1, <4>2
    <3>6. ASSUME NEW i \in 1..(Len(s) - n) PROVE back[i] = s[n + i]
      <4>1. n + 1 + i - 1 = n + i
        BY <2>1
      <4> HIDE DEF back
      <4> QED BY <3>3, <3>4, <4>1
    <3> HIDE DEF back
    <3> QED BY <3>3, <3>5, <3>6
  <2>5. r = front \o back
    BY DEF RemoveAt
  <2> HIDE DEF front, back
  <2>6. /\ r \in Seq(T) /\ Len(r) = Len(s) - 1
        /\ \A i \in 1..(Len(s) - 1) : r[i] = IF i <= n - 1 THEN front[i] ELSE back[i - (n - 1)]
    <3>1. /\ front \o back \in Seq(T)
          /\ Len(front \o back) = Len(front) + Len(back)
          /\ \A i \in 1..(Len(front) + Len(back)) : (front \o back)[i] =
                IF i <= Len(front) THEN front[i] ELSE back[i - Len(front)]
      BY <2>3, <2>4, ConcatProperties
    <3>2. Len(front) + Len(back) = Len(s) - 1
      BY <2>1, <2>3, <2>4, <1>0
    <3> QED BY <3>1, <3>2, <2>3, <2>5
  <2> HIDE DEF r
  <2>7. \A i \in 1..(Len(s) - 1) : r[i] = IF i < n THEN s[i] ELSE s[i + 1]
    <3> TAKE i \in 1..(Len(s) - 1)
    <3>1. CASE i < n
      BY <3>1, <2>1, <2>3, <2>6, <1>0
    <3>2. CASE i >= n
      <4>1. i - (n - 1) \in 1..(Len(s) - n) /\ ~(i <= n - 1) /\ ~(i < n)
        BY <3>2, <2>1, <1>0
      <4>2. r[i] = back[i - (n - 1)]
        BY <4>1, <2>6
      <4>3. back[i - (n - 1)] = s[n + (i - (n - 1))]
        BY <4>1, <2>4
      <4>4. n + (i - (n - 1)) = i + 1
        BY <2>1, <1>0
      <4> QED BY <4>1, <4>2, <4>3, <4>4
    <3> QED BY <3>1, <3>2, <2>1, <1>0
  <2>8. DOMAIN r = 1..(Len(s) - 1)
    BY <2>6, <1>0
  <2>9. \A i, j \in 1..Len(s) : s[i] = s[j] => i = j
    BY <1>0 DEF IsInjective
  <2>10. ToSet(r) = ToSet(s) \ {t}
    <3>1. ASSUME NEW x \in ToSet(r) PROVE x \in ToSet(s) \ {t}
      <4>1. PICK i \in 1..(Len(s) - 1) : x = r[i]
        BY <2>8 DEF ToSet
      <4>2. PICK j \in 1..Len(s) : j # n /\ x = s[j]
        BY <4>1, <2>7, <2>1, <1>0
      <4>3. x # t
        BY <4>2, <2>1, <2>9
      <4> QED BY <4>2, <4>3, <1>0 DEF ToSet
    <3>2. ASSUME NEW x \in ToSet(s) \ {t} PROVE x \in ToSet(r)
      <4>1. PICK j \in 1..Len(s) : x = s[j]
        BY <1>0 DEF ToSet
      <4>2. j # n
        BY <4>1, <3>2, <2>1
      <4>3. CASE j < n
        <5>1. j \in 1..(Len(s) - 1) /\ r[j] = s[j]
          BY <4>3, <2>1, <2>7, <1>0
        <5> QED BY <5>1, <4>1, <2>8 DEF ToSet
      <4>4. CASE j > n
        <5>1. j - 1 \in 1..(Len(s) - 1) /\ ~(j - 1 < n) /\ (j - 1) + 1 = j
          BY <4>4, <2>1, <1>0
        <5>2. r[j - 1] = s[j]
          BY <5>1, <2>7
        <5> QED BY <5>1, <5>2, <4>1, <2>8 DEF ToSet
      <4> QED BY <4>2, <4>3, <4>4, <2>1
    <3> QED BY <3>1, <3>2
  <2>11. IsInjective(r)
    <3>1. ASSUME NEW i \in 1..(Len(s) - 1), NEW j \in 1..(Len(s) - 1), r[i] = r[j]
          PROVE  i = j
      <4> DEFINE ii == IF i < n THEN i ELSE i + 1
                 jj == IF j < n THEN j ELSE j + 1
      <4>1. ii \in 1..Len(s) /\ jj \in 1..Len(s) /\ r[i] = s[ii] /\ r[j] = s[jj]
        BY <2>1, <2>7, <1>0
      <4>2. ii = jj
        BY <4>1, <3>1, <2>9
      <4> QED BY <4>2, <2>1, <1>0
    <3> QED BY <3>1, <2>8 DEF IsInjective
  <2> QED BY <2>2, <2>6, <2>10, <2>11
<1> QED BY <1>1, <1>2

\* Taking the head of a list that has one.
LEMMA HeadLemma ==
  ASSUME NEW T, NEW s \in Seq(T)
  PROVE  /\ s # <<>> => Head(s) \in ToSet(s)
         /\ (s = <<>>) <=> (ToSet(s) = {})
         /\ ToSet(s) \subseteq T
         /\ ToSet(<<>>) = {} /\ IsInjective(<<>>)
<1>1. s # <<>> => 1 \in DOMAIN s /\ Head(s) = s[1]
  OBVIOUS
<1>2. \A i \in DOMAIN s : s[i] \in T
  OBVIOUS
<1>3. DOMAIN <<>> = {}
  OBVIOUS
<1> QED BY <1>1, <1>2, <1>3 DEF ToSet, IsInjective

-----------------------------------------------------------------------------
(* What the sections do to the queue *)

\* rt_list_remove of a work takes it out of the list it is in.
LEMMA TakeOutLemma ==
  ASSUME NEW qq, NEW d, QueueOK(qq, d), NEW w \in Work
  PROVE  LET u == TakeOut(qq, w)
         IN /\ u \in QueueType
            /\ IsInjective(u.work) /\ ToSet(u.work) = ToSet(qq.work) \ {w}
            /\ IsInjective(u.delayed) /\ ToSet(u.delayed) = ToSet(qq.delayed) \ {w}
            /\ u.current = qq.current /\ u.submitting = qq.submitting
            /\ u.of = qq.of /\ u.armed = qq.armed
<1>1. /\ Unlink(qq.work, w) \in Seq(Work) /\ IsInjective(Unlink(qq.work, w))
      /\ ToSet(Unlink(qq.work, w)) = ToSet(qq.work) \ {w}
  BY UnlinkLemma DEF QueueOK, QueueType
<1>2. /\ Unlink(qq.delayed, w) \in Seq(Work) /\ IsInjective(Unlink(qq.delayed, w))
      /\ ToSet(Unlink(qq.delayed, w)) = ToSet(qq.delayed) \ {w}
  BY UnlinkLemma DEF QueueOK, QueueType
<1> QED BY <1>1, <1>2 DEF TakeOut, QueueOK, QueueType

\* rt_workqueue_submit_work at once: the work comes last, in time or not before.
LEMMA SubmitNowLemma ==
  ASSUME NEW qq, NEW d, QueueOK(qq, d), NEW w \in Work
  PROVE  LET u == SubmitNow(qq, w)
         IN /\ QueueOK(u, d \cup {w})
            /\ ToSet(u.delayed) = ToSet(qq.delayed) \ {w}
            /\ u.armed = qq.armed /\ u.current = qq.current
<1> DEFINE o == TakeOut(qq, w)
<1>1. /\ o \in QueueType
      /\ IsInjective(o.work) /\ ToSet(o.work) = ToSet(qq.work) \ {w}
      /\ IsInjective(o.delayed) /\ ToSet(o.delayed) = ToSet(qq.delayed) \ {w}
      /\ o.current = qq.current /\ o.submitting = qq.submitting
      /\ o.of = qq.of /\ o.armed = qq.armed
  BY TakeOutLemma
<1>2. SubmitNow(qq, w) = [o EXCEPT !.work = Append(@, w), !.of = @ \cup {w}]
  BY DEF SubmitNow
<1> HIDE DEF o
<1> DEFINE u == [o EXCEPT !.work = Append(@, w), !.of = @ \cup {w}]
<1>3. /\ Append(o.work, w) \in Seq(Work) /\ IsInjective(Append(o.work, w))
      /\ ToSet(Append(o.work, w)) = ToSet(o.work) \cup {w}
  <2>1. o.work \in Seq(Work) /\ w \notin ToSet(o.work)
    BY <1>1 DEF QueueType
  <2> QED BY <2>1, <1>1, AppendLemma
<1>4. /\ u \in QueueType
      /\ u.work = Append(o.work, w) /\ u.delayed = o.delayed /\ u.of = o.of \cup {w}
      /\ u.submitting = o.submitting /\ u.armed = o.armed /\ u.current = o.current
  BY <1>1, <1>3 DEF QueueType
<1> HIDE DEF u
<1>5. QueueOK(u, d \cup {w})
  BY <1>1, <1>3, <1>4 DEF QueueOK, Listed
<1> QED BY <1>1, <1>2, <1>4, <1>5 DEF u

\* rt_workqueue_submit_work after a delay, before its timer is started.
LEMMA SubmitDelayedLemma ==
  ASSUME NEW qq, NEW d, QueueOK(qq, d), NEW w \in Work
  PROVE  LET u == SubmitDelayed(qq, w)
         IN /\ QueueOK(u, d \cup {w})
            /\ ToSet(u.work) = ToSet(qq.work) \ {w}
            /\ ToSet(u.delayed) = ToSet(qq.delayed) \cup {w}
            /\ u.armed = qq.armed \ {w} /\ u.current = qq.current
<1> DEFINE o == TakeOut(qq, w)
<1>1. /\ o \in QueueType
      /\ IsInjective(o.work) /\ ToSet(o.work) = ToSet(qq.work) \ {w}
      /\ IsInjective(o.delayed) /\ ToSet(o.delayed) = ToSet(qq.delayed) \ {w}
      /\ o.current = qq.current /\ o.submitting = qq.submitting
      /\ o.of = qq.of /\ o.armed = qq.armed
  BY TakeOutLemma
<1>2. SubmitDelayed(qq, w) =
        [o EXCEPT !.delayed = Append(@, w), !.submitting = @ \cup {w},
                  !.of = @ \cup {w}, !.armed = @ \ {w}]
  BY DEF SubmitDelayed
<1> HIDE DEF o
<1> DEFINE u == [o EXCEPT !.delayed = Append(@, w), !.submitting = @ \cup {w},
                          !.of = @ \cup {w}, !.armed = @ \ {w}]
<1>3. /\ Append(o.delayed, w) \in Seq(Work) /\ IsInjective(Append(o.delayed, w))
      /\ ToSet(Append(o.delayed, w)) = ToSet(o.delayed) \cup {w}
  <2>1. o.delayed \in Seq(Work) /\ w \notin ToSet(o.delayed)
    BY <1>1 DEF QueueType
  <2> QED BY <2>1, <1>1, AppendLemma
<1>4. /\ u \in QueueType
      /\ u.work = o.work /\ u.delayed = Append(o.delayed, w) /\ u.of = o.of \cup {w}
      /\ u.submitting = o.submitting \cup {w} /\ u.armed = o.armed \ {w}
      /\ u.current = o.current
  BY <1>1, <1>3 DEF QueueType
<1> HIDE DEF u
<1>5. QueueOK(u, d \cup {w})
  BY <1>1, <1>3, <1>4 DEF QueueOK, Listed
<1> QED BY <1>1, <1>2, <1>3, <1>4, <1>5 DEF u

\* rt_workqueue_urgent_work: the work comes first, a timer it had runs on.
LEMMA SubmitUrgentLemma ==
  ASSUME NEW qq, NEW d, QueueOK(qq, d), NEW w \in Work
  PROVE  LET u == SubmitUrgent(qq, w)
         IN /\ QueueOK(u, d \cup {w})
            /\ ToSet(u.delayed) = ToSet(qq.delayed) \ {w}
            /\ u.armed = qq.armed /\ u.current = qq.current
<1> DEFINE o == TakeOut(qq, w)
<1>1. /\ o \in QueueType
      /\ IsInjective(o.work) /\ ToSet(o.work) = ToSet(qq.work) \ {w}
      /\ IsInjective(o.delayed) /\ ToSet(o.delayed) = ToSet(qq.delayed) \ {w}
      /\ o.current = qq.current /\ o.submitting = qq.submitting
      /\ o.of = qq.of /\ o.armed = qq.armed
  BY TakeOutLemma
<1>2. SubmitUrgent(qq, w) = [o EXCEPT !.work = Cons(w, @)]
  BY DEF SubmitUrgent
<1> HIDE DEF o
<1> DEFINE u == [o EXCEPT !.work = Cons(w, @)]
<1>3. /\ Cons(w, o.work) \in Seq(Work) /\ IsInjective(Cons(w, o.work))
      /\ ToSet(Cons(w, o.work)) = ToSet(o.work) \cup {w}
  <2>1. o.work \in Seq(Work) /\ w \notin ToSet(o.work)
    BY <1>1 DEF QueueType
  <2>2. /\ Cons(w, o.work) \in Seq(Work)
        /\ ToSet(Cons(w, o.work)) = ToSet(o.work) \cup {w}
        /\ IsInjective(o.work) /\ w \notin ToSet(o.work) => IsInjective(Cons(w, o.work))
    BY <2>1, ConsLemma
  <2> QED BY <2>1, <2>2, <1>1
<1>4. /\ u \in QueueType
      /\ u.work = Cons(w, o.work) /\ u.delayed = o.delayed /\ u.of = o.of
      /\ u.submitting = o.submitting /\ u.armed = o.armed /\ u.current = o.current
  BY <1>1, <1>3 DEF QueueType
<1> HIDE DEF u
<1>5. QueueOK(u, d \cup {w})
  BY <1>1, <1>3, <1>4 DEF QueueOK, Listed
<1> QED BY <1>1, <1>2, <1>4, <1>5 DEF u

\* _workqueue_cancel_work: the work leaves its list, its timer is detached.
LEMMA CancelWorkLemma ==
  ASSUME NEW qq, NEW d, QueueOK(qq, d), NEW w \in Work
  PROVE  LET u == CancelWork(qq, w)
         IN /\ QueueOK(u, d \ {w})
            /\ ToSet(u.work) = ToSet(qq.work) \ {w}
            /\ ToSet(u.delayed) = ToSet(qq.delayed) \ {w}
            /\ u.armed = qq.armed \ {w} /\ u.current = qq.current
<1> DEFINE o == TakeOut(qq, w)
<1>1. /\ o \in QueueType
      /\ IsInjective(o.work) /\ ToSet(o.work) = ToSet(qq.work) \ {w}
      /\ IsInjective(o.delayed) /\ ToSet(o.delayed) = ToSet(qq.delayed) \ {w}
      /\ o.current = qq.current /\ o.submitting = qq.submitting
      /\ o.of = qq.of /\ o.armed = qq.armed
  BY TakeOutLemma
<1>2. CancelWork(qq, w) = [o EXCEPT !.submitting = @ \ {w}, !.of = @ \ {w},
                                    !.armed = @ \ {w}]
  BY DEF CancelWork
<1> HIDE DEF o
<1> DEFINE u == [o EXCEPT !.submitting = @ \ {w}, !.of = @ \ {w}, !.armed = @ \ {w}]
<1>3. /\ u \in QueueType
      /\ u.work = o.work /\ u.delayed = o.delayed /\ u.of = o.of \ {w}
      /\ u.submitting = o.submitting \ {w} /\ u.armed = o.armed \ {w}
      /\ u.current = o.current
  BY <1>1 DEF QueueType
<1> HIDE DEF u
<1>4. QueueOK(u, d \ {w})
  BY <1>1, <1>3 DEF QueueOK, Listed
<1> QED BY <1>1, <1>2, <1>3, <1>4 DEF u

\* rt_workqueue_cancel_all_work empties both lists.
LEMMA CancelListedLemma ==
  ASSUME NEW qq, NEW d, QueueOK(qq, d)
  PROVE  LET u == CancelListed(qq)
         IN /\ QueueOK(u, d \ Listed(qq)) /\ u.work = <<>>
            /\ ToSet(u.delayed) = {} /\ u.current = qq.current
<1> DEFINE u == CancelListed(qq)
<1>1. /\ u \in QueueType /\ u.work = <<>> /\ u.delayed = <<>>
      /\ u.of = qq.of \ Listed(qq) /\ u.submitting = qq.submitting \ Listed(qq)
      /\ u.armed = qq.armed \ Listed(qq) /\ u.current = qq.current
  <2>1. <<>> \in Seq(Work)
    OBVIOUS
  <2>2. ASSUME NEW e \in Seq(Work)
        PROVE  LET v == [qq EXCEPT !.work = e, !.delayed = e,
                                   !.submitting = @ \ Listed(qq), !.of = @ \ Listed(qq),
                                   !.armed = @ \ Listed(qq)]
               IN /\ v \in QueueType /\ v.work = e /\ v.delayed = e
                  /\ v.of = qq.of \ Listed(qq)
                  /\ v.submitting = qq.submitting \ Listed(qq)
                  /\ v.armed = qq.armed \ Listed(qq) /\ v.current = qq.current
    BY DEF QueueOK, QueueType
  <2> QED BY <2>1, <2>2, Zenon DEF CancelListed
<1>2. ToSet(<<>>) = {} /\ IsInjective(<<>>)
  BY DEF ToSet, IsInjective
<1> HIDE DEF u
<1>3. QueueOK(u, d \ Listed(qq))
  BY <1>1, <1>2 DEF QueueOK, Listed
<1> QED BY <1>1, <1>2, <1>3 DEF u

\* _delayed_work_timeout_handler: the work becomes one to run, or none if it executes.
LEMMA DelayOverLemma ==
  ASSUME NEW qq, NEW d, QueueOK(qq, d), NEW w \in qq.armed \cap qq.of
  PROVE  LET u == DelayOver(qq, w)
         IN /\ QueueOK(u, IF qq.current = w THEN d \ {w} ELSE d)
            /\ (qq.current = w => ToSet(u.work) = ToSet(qq.work) \ {w})
            /\ ToSet(u.delayed) = ToSet(qq.delayed) \ {w}
            /\ u.armed = qq.armed \ {w} /\ u.current = qq.current
<1> DEFINE s == [qq EXCEPT !.submitting = @ \ {w}, !.armed = @ \ {w}]
           o == TakeOut(s, w)
<1>1. w \in Work /\ w \in d
  BY DEF QueueOK, QueueType
<1>2. TakeOut(s, w) = [TakeOut(qq, w) EXCEPT !.submitting = qq.submitting \ {w},
                                             !.armed = qq.armed \ {w}]
  BY DEF TakeOut, QueueOK, QueueType
<1>3. LET v == TakeOut(qq, w)
      IN /\ v \in QueueType
         /\ IsInjective(v.work) /\ ToSet(v.work) = ToSet(qq.work) \ {w}
         /\ IsInjective(v.delayed) /\ ToSet(v.delayed) = ToSet(qq.delayed) \ {w}
         /\ v.current = qq.current /\ v.submitting = qq.submitting
         /\ v.of = qq.of /\ v.armed = qq.armed
  BY <1>1, TakeOutLemma
<1>4. /\ o \in QueueType
      /\ IsInjective(o.work) /\ ToSet(o.work) = ToSet(qq.work) \ {w}
      /\ IsInjective(o.delayed) /\ ToSet(o.delayed) = ToSet(qq.delayed) \ {w}
      /\ o.current = qq.current /\ o.submitting = qq.submitting \ {w}
      /\ o.of = qq.of /\ o.armed = qq.armed \ {w}
  BY <1>2, <1>3 DEF QueueOK, QueueType
<1>5. DelayOver(qq, w) = IF o.current = w THEN o ELSE [o EXCEPT !.work = Append(@, w)]
  BY DEF DelayOver
<1> HIDE DEF s, o
<1>6. CASE qq.current = w
  <2>1. QueueOK(o, d \ {w})
    BY <1>4 DEF QueueOK, Listed
  <2> QED BY <2>1, <1>4, <1>5, <1>6
<1>7. CASE qq.current # w
  <2> DEFINE u == [o EXCEPT !.work = Append(@, w)]
  <2>1. /\ Append(o.work, w) \in Seq(Work) /\ IsInjective(Append(o.work, w))
        /\ ToSet(Append(o.work, w)) = ToSet(o.work) \cup {w}
    <3>1. o.work \in Seq(Work) /\ w \notin ToSet(o.work)
      BY <1>4 DEF QueueType
    <3> QED BY <3>1, <1>1, <1>4, AppendLemma
  <2>2. /\ u \in QueueType
        /\ u.work = Append(o.work, w) /\ u.delayed = o.delayed /\ u.of = o.of
        /\ u.submitting = o.submitting /\ u.armed = o.armed /\ u.current = o.current
    BY <1>4, <2>1 DEF QueueType
  <2>3. DelayOver(qq, w) = u
    BY <1>4, <1>5, <1>7
  <2> HIDE DEF u
  <2>4. QueueOK(u, d)
    BY <1>1, <1>4, <2>1, <2>2 DEF QueueOK, Listed
  <2> QED BY <1>4, <1>7, <2>2, <2>3, <2>4
<1> QED BY <1>6, <1>7

-----------------------------------------------------------------------------
(* The initial state, and what every step shares *)

\* rt_workqueue_create leaves an empty queue.
LEMMA InitConsistent == Init => Consistent
<1> SUFFICES ASSUME Init PROVE Consistent
  OBVIOUS
<1>1. /\ q \in QueueType /\ q.work = <<>> /\ q.delayed = <<>> /\ q.current = Null
      /\ q.submitting = {} /\ q.of = {} /\ q.armed = {}
  <2>1. <<>> \in Seq(Work)
    OBVIOUS
  <2>2. ASSUME NEW e \in Seq(Work)
        PROVE  LET v == [work |-> e, delayed |-> e, current |-> Null,
                         submitting |-> {}, of |-> {}, armed |-> {}]
               IN /\ v \in QueueType /\ v.work = e /\ v.delayed = e
                  /\ v.current = Null /\ v.submitting = {} /\ v.of = {} /\ v.armed = {}
    BY DEF QueueType
  <2> QED BY <2>1, <2>2, Zenon DEF Init, InitQueue
<1>2. ToSet(<<>>) = {} /\ IsInjective(<<>>)
  BY DEF ToSet, IsInjective
<1>3. QueueOK(q, due)
  BY <1>1, <1>2 DEF Init, QueueOK, Listed
<1>4. TypeOK
  BY <1>1 DEF Init, TypeOK, PC, Actor
<1>5. TimersRun
  BY <1>1, <1>2 DEF TimersRun
<1>6. AtRest
  BY <1>1 DEF Init, AtRest
<1>7. Args
  BY DEF Init, Args
<1> QED BY <1>3, <1>4, <1>5, <1>6, <1>7 DEF Consistent, Init

\* A step that makes nobody forget the timer it is about to start, and stops no timer
\* of a work that stays delayed, keeps the works in time.
LEMMA TimersKept ==
  ASSUME TimersRun,
         Alive' => Alive,
         \A w \in ToSet(q'.delayed) :
            w \in ToSet(q.delayed) /\ (w \in q.armed => w \in q'.armed),
         \A b \in Actor : pc[b] = "start" => pc'[b] = "start" /\ arg'[b] = arg[b]
  PROVE  TimersRun'
<1> SUFFICES ASSUME Alive', NEW w \in ToSet(q'.delayed)
             PROVE  w \in q'.armed \/ \E a \in Actor : Starts(a, w)'
  BY DEF TimersRun
<1>1. w \in q.armed \/ \E a \in Actor : Starts(a, w)
  BY DEF TimersRun
<1> QED BY <1>1 DEF Starts

\* the places that a call which returns at once leaves the others in
LEMMA ReturnLemma ==
  ASSUME Consistent, NEW a \in Actor, Calls(a),
         NEW p, p = Returned(a) \/ p = Resumed(Returned(a))
  PROVE  /\ p \in [Actor -> PC]
         /\ \A b \in Actor : p[b] \in {"start", "cancel"} <=> pc[b] \in {"start", "cancel"}
         /\ \A b \in Actor : pc[b] = "start" => p[b] = "start"
         /\ p[Worker] \in {"loop", "suspended", "complete"}
              => pc[Worker] \in {"loop", "suspended", "complete"}
         /\ p[Worker] # "none"
         /\ p[Worker] = "suspended" => pc[Worker] = "suspended" /\ p = Returned(a)
<1>1. Worker \in Actor /\ pc \in [Actor -> PC]
  BY DEF Actor, Consistent, TypeOK
<1>2. /\ Returned(a) \in [Actor -> PC]
      /\ \A b \in Actor : b # a => Returned(a)[b] = pc[b]
      /\ Returned(a)[a] = IF a = Worker THEN "clear" ELSE "run"
      /\ pc[a] = IF a = Worker THEN "func" ELSE "run"
      /\ pc[Worker] # "none"
  BY <1>1 DEF Returned, PC, Calls
<1>3. pc[Worker] = "suspended" => q.current = Null
  BY DEF Consistent, AtRest
<1> DEFINE r == Returned(a)
<1> HIDE DEF r
<1>4. /\ Resumed(r) \in [Actor -> PC]
      /\ \A b \in Actor : b # Worker => Resumed(r)[b] = r[b]
      /\ Resumed(r)[Worker] =
           IF q.current = Null /\ r[Worker] = "suspended" THEN "loop" ELSE r[Worker]
  BY <1>1, <1>2 DEF Resumed, PC, r
<1> QED BY <1>1, <1>2, <1>3, <1>4 DEF r

\* A call that returns at once and leaves the queue in order.
LEMMA CallConsistent ==
  ASSUME Consistent, NEW a \in Actor, Calls(a),
         QueueOK(q', due'), q'.current = q.current,
         \A w \in ToSet(q'.delayed) :
            w \in ToSet(q.delayed) /\ (w \in q.armed => w \in q'.armed),
         \/ pc' = Resumed(Returned(a))
         \/ pc' = Returned(a) /\ (q.work = <<>> => q'.work = <<>>),
         UNCHANGED <<arg, sem, watched>>
  PROVE  Consistent'
<1>1. /\ pc' \in [Actor -> PC]
      /\ \A b \in Actor : pc'[b] \in {"start", "cancel"} <=> pc[b] \in {"start", "cancel"}
      /\ \A b \in Actor : pc[b] = "start" => pc'[b] = "start"
      /\ pc'[Worker] \in {"loop", "suspended", "complete"}
           => pc[Worker] \in {"loop", "suspended", "complete"}
      /\ pc'[Worker] # "none"
      /\ pc'[Worker] = "suspended" => pc[Worker] = "suspended" /\ pc' = Returned(a)
  BY ReturnLemma
<1>2. q' \in QueueType /\ due' \subseteq Work
  <2>1. q' \in QueueType /\ due' = ToSet(q'.work) \cup ToSet(q'.delayed)
    BY DEF QueueOK, Listed
  <2> QED BY <2>1, HeadLemma DEF QueueType
<1>3. TypeOK'
  BY <1>1, <1>2 DEF Consistent, TypeOK
<1>4. TimersRun'
  <2>1. Alive /\ TimersRun
    BY DEF Calls, Consistent
  <2> QED BY <1>1, <2>1, TimersKept
<1>5. AtRest'
  <2>1. pc'[Worker] = "suspended" => q'.work = <<>>
    <3> SUFFICES ASSUME pc'[Worker] = "suspended" PROVE q'.work = <<>>
      OBVIOUS
    <3>1. pc[Worker] = "suspended" /\ pc' = Returned(a)
      BY <1>1
    <3>2. Resumed(Returned(a)) # Returned(a)
      <4>1. q.current = Null /\ Worker \in Actor
        BY <3>1 DEF Consistent, AtRest, Actor
      <4>2. Returned(a) \in [Actor -> PC] /\ Returned(a)[Worker] = "suspended"
        BY <1>1, <3>1
      <4>3. Resumed(Returned(a)) = [Returned(a) EXCEPT ![Worker] = "loop"]
        BY <4>1, <4>2 DEF Resumed
      <4> QED BY <4>1, <4>2, <4>3
    <3> QED BY <3>1, <3>2 DEF Consistent, AtRest
  <2> QED BY <1>1, <2>1 DEF Consistent, AtRest
<1>6. Args'
  BY <1>1 DEF Consistent, Args
<1> QED BY <1>3, <1>4, <1>5, <1>6 DEF Consistent

-----------------------------------------------------------------------------
(* The steps *)

\* rt_workqueue_submit_work at once.
LEMMA SubmitStep ==
  ASSUME Consistent, NEW a \in Actor, NEW w \in Work, Submit(a, w)
  PROVE  Consistent'
<1>1. /\ QueueOK(SubmitNow(q, w), due \cup {w})
      /\ ToSet(SubmitNow(q, w).delayed) = ToSet(q.delayed) \ {w}
      /\ SubmitNow(q, w).armed = q.armed /\ SubmitNow(q, w).current = q.current
  BY SubmitNowLemma DEF Consistent
<1> QED BY <1>1, CallConsistent DEF Submit

\* rt_workqueue_urgent_work.
LEMMA UrgentStep ==
  ASSUME Consistent, NEW a \in Actor, NEW w \in Work, Urgent(a, w)
  PROVE  Consistent'
<1>1. /\ QueueOK(SubmitUrgent(q, w), due \cup {w})
      /\ ToSet(SubmitUrgent(q, w).delayed) = ToSet(q.delayed) \ {w}
      /\ SubmitUrgent(q, w).armed = q.armed /\ SubmitUrgent(q, w).current = q.current
  BY SubmitUrgentLemma DEF Consistent
<1> QED BY <1>1, CallConsistent DEF Urgent

\* rt_workqueue_cancel_work.
LEMMA CancelStep ==
  ASSUME Consistent, NEW a \in Actor, NEW w \in Work, Cancel(a, w)
  PROVE  Consistent'
<1> DEFINE u == CancelWork(q, w)
<1>1. /\ QueueOK(u, due \ {w})
      /\ ToSet(u.work) = ToSet(q.work) \ {w}
      /\ ToSet(u.delayed) = ToSet(q.delayed) \ {w}
      /\ u.armed = q.armed \ {w} /\ u.current = q.current
  BY CancelWorkLemma DEF Consistent
<1> HIDE DEF u
<1>2. q.work \in Seq(Work) /\ u.work \in Seq(Work)
  BY <1>1 DEF Consistent, QueueOK, QueueType
<1>3. q.work = <<>> => u.work = <<>>
  BY <1>1, <1>2, HeadLemma
<1> QED BY <1>1, <1>3, CallConsistent DEF Cancel, u

\* rt_workqueue_cancel_all_work.
LEMMA CancelAllStep ==
  ASSUME Consistent, NEW a \in Actor, CancelAll(a)
  PROVE  Consistent'
<1>1. /\ QueueOK(CancelListed(q), due \ Listed(q)) /\ CancelListed(q).work = <<>>
      /\ ToSet(CancelListed(q).delayed) = {} /\ CancelListed(q).current = q.current
  BY CancelListedLemma DEF Consistent
<1> QED BY <1>1, CallConsistent DEF CancelAll

\* The section of a delayed submission: the caller is about to start the timer.
LEMMA DelayStep ==
  ASSUME Consistent, NEW a \in Actor, NEW w \in Work, Delay(a, w)
  PROVE  Consistent'
<1> DEFINE u == SubmitDelayed(q, w)
<1>1. /\ QueueOK(u, due \cup {w})
      /\ ToSet(u.work) = ToSet(q.work) \ {w}
      /\ ToSet(u.delayed) = ToSet(q.delayed) \cup {w}
      /\ u.armed = q.armed \ {w} /\ u.current = q.current
  BY SubmitDelayedLemma DEF Consistent
<1> HIDE DEF u
<1>2. /\ q' = u /\ due' = due \cup {w} /\ UNCHANGED <<sem, watched>>
      /\ pc' = [pc EXCEPT ![a] = "start"] /\ arg' = [arg EXCEPT ![a] = w]
      /\ Alive /\ pc[a] = IF a = Worker THEN "func" ELSE "run"
  BY DEF Delay, Calls, Goto, u
<1>3. /\ pc \in [Actor -> PC] /\ arg \in [Actor -> Work \cup {Null}]
      /\ Worker \in Actor
  BY DEF Consistent, TypeOK, Actor
<1>4. TypeOK'
  BY <1>1, <1>2, <1>3 DEF Consistent, TypeOK, QueueOK, PC
<1>5. TimersRun'
  <2> SUFFICES ASSUME NEW v \in ToSet(u.delayed)
               PROVE  v \in u.armed \/ \E b \in Actor : pc'[b] = "start" /\ arg'[b] = v
    BY <1>2 DEF TimersRun, Starts
  <2>1. CASE v = w
    BY <2>1, <1>2, <1>3
  <2>2. CASE v # w
    <3>1. v \in q.armed \/ \E b \in Actor : pc[b] = "start" /\ arg[b] = v
      BY <2>2, <1>1, <1>2 DEF Consistent, TimersRun, Starts
    <3>2. ASSUME NEW b \in Actor, pc[b] = "start", arg[b] = v
          PROVE  pc'[b] = "start" /\ arg'[b] = v
      BY <3>2, <1>2, <1>3
    <3> QED BY <3>1, <3>2, <2>2, <1>1
  <2> QED BY <2>1, <2>2
<1>6. AtRest'
  <2>1. q.work \in Seq(Work) /\ u.work \in Seq(Work)
    BY <1>1 DEF Consistent, QueueOK, QueueType
  <2>2. q.work = <<>> => u.work = <<>>
    BY <1>1, <2>1, HeadLemma
  <2> QED BY <2>2, <1>1, <1>2, <1>3 DEF Consistent, AtRest
<1>7. Args'
  BY <1>2, <1>3 DEF Consistent, Args
<1> QED BY <1>1, <1>2, <1>4, <1>5, <1>6, <1>7 DEF Consistent

\* rt_timer_start after that section.
LEMMA StartTimerStep ==
  ASSUME Consistent, NEW a \in Actor, StartTimer(a)
  PROVE  Consistent'
<1>1. /\ pc \in [Actor -> PC] /\ arg \in [Actor -> Work \cup {Null}] /\ q \in QueueType
      /\ Worker \in Actor
  BY DEF Consistent, TypeOK, Actor
<1>2. /\ arg' = [arg EXCEPT ![a] = Null] /\ UNCHANGED <<sem, due, watched>>
      /\ Alive /\ pc[a] = "start"
  BY DEF StartTimer, At
<1>3. CASE arg[a] \in q.submitting /\ q' = [q EXCEPT !.armed = @ \cup {arg[a]}]
           /\ pc' = Returned(a)
  <2>1. /\ q' \in QueueType /\ q'.armed = q.armed \cup {arg[a]} /\ q'.work = q.work
        /\ q'.delayed = q.delayed /\ q'.submitting = q.submitting /\ q'.of = q.of
        /\ q'.current = q.current
    BY <1>1, <1>3 DEF QueueType
  <2>2. QueueOK(q', due')
    BY <1>2, <1>3, <2>1 DEF Consistent, QueueOK, Listed
  <2>3. pc' = [pc EXCEPT ![a] = IF a = Worker THEN "clear" ELSE "run"]
    BY <1>3 DEF Returned
  <2>4. TypeOK'
    BY <1>1, <1>2, <2>1, <2>3 DEF Consistent, TypeOK, PC
  <2>5. TimersRun'
    <3> SUFFICES ASSUME NEW v \in ToSet(q.delayed)
                 PROVE  v \in q'.armed \/ \E b \in Actor : pc'[b] = "start" /\ arg'[b] = v
      BY <2>1 DEF TimersRun, Starts
    <3>1. v \in q.armed \/ \E b \in Actor : pc[b] = "start" /\ arg[b] = v
      BY <1>2 DEF Consistent, TimersRun, Starts
    <3>2. ASSUME NEW b \in Actor, b # a, pc[b] = "start", arg[b] = v
          PROVE  pc'[b] = "start" /\ arg'[b] = v
      BY <3>2, <1>1, <1>2, <2>3
    <3> QED BY <3>1, <3>2, <2>1
  <2>6. AtRest'
    BY <1>1, <1>2, <2>1, <2>3 DEF Consistent, AtRest
  <2>7. Args'
    BY <1>1, <1>2, <2>3 DEF Consistent, Args
  <2> QED BY <1>2, <2>2, <2>4, <2>5, <2>6, <2>7 DEF Consistent
<1>4. CASE pc' = [pc EXCEPT ![a] = "fault"] /\ q' = q
  <2>1. ~Alive'
    BY <1>1, <1>4 DEF Alive
  <2>2. TypeOK' /\ AtRest' /\ Args'
    BY <1>1, <1>2, <1>4 DEF Consistent, TypeOK, PC, AtRest, Args
  <2> QED BY <1>2, <1>4, <2>1, <2>2 DEF Consistent, TimersRun
<1> QED BY <1>3, <1>4 DEF StartTimer, Goto

\* A step that leaves the queue alone, or in order, and goes on in the places.
LEMMA PlaceConsistent ==
  ASSUME Consistent, Alive' => Alive,
         QueueOK(q', due'),
         \A w \in ToSet(q'.delayed) :
            w \in ToSet(q.delayed) /\ (w \in q.armed => w \in q'.armed),
         pc' \in [Actor -> PC], arg' \in [Actor -> Work \cup {Null}],
         watched' \subseteq Client,
         \A b \in Actor : pc[b] = "start" => pc'[b] = "start" /\ arg'[b] = arg[b],
         Args', AtRest', sem' = 0
  PROVE  Consistent'
<1>1. q' \in QueueType /\ due' \subseteq Work
  <2>1. q' \in QueueType /\ due' = ToSet(q'.work) \cup ToSet(q'.delayed)
    BY DEF QueueOK, Listed
  <2> QED BY <2>1, HeadLemma DEF QueueType
<1>2. TypeOK'
  BY <1>1 DEF TypeOK
<1>3. TimersRun'
  BY TimersKept DEF Consistent
<1> QED BY <1>2, <1>3 DEF Consistent

\* rt_workqueue_cancel_work_sync looks at what executes.
LEMMA CancelSyncStep ==
  ASSUME Consistent, NEW c \in Client, NEW w \in Work, CancelSync(c, w)
  PROVE  Consistent'
<1>1. /\ pc \in [Actor -> PC] /\ arg \in [Actor -> Work \cup {Null}] /\ c \in Actor
      /\ c # Worker /\ Worker \in Actor /\ watched \subseteq Client /\ w # Null
  BY WorkQueueAssumption DEF Consistent, TypeOK, Actor
<1>2. /\ Alive /\ pc[c] = "run" /\ pc[Worker] # "none" /\ UNCHANGED <<q, sem, due>>
      /\ \/ /\ q.current = w /\ pc' = [pc EXCEPT ![c] = "wait"]
            /\ watched' = watched \cup {c} /\ UNCHANGED arg
         \/ /\ pc' = [pc EXCEPT ![c] = "cancel"] /\ arg' = [arg EXCEPT ![c] = w]
            /\ UNCHANGED watched
  BY <1>1 DEF CancelSync, Calls, Goto
<1>3. /\ pc' \in [Actor -> PC] /\ arg' \in [Actor -> Work \cup {Null}]
      /\ watched' \subseteq Client /\ pc'[Worker] = pc[Worker]
  BY <1>1, <1>2 DEF PC
<1>4. AtRest'
  BY <1>1, <1>2, <1>3 DEF Consistent, AtRest
<1>5. Args'
  BY <1>1, <1>2 DEF Consistent, Args
<1>6. \A b \in Actor : pc[b] = "start" => pc'[b] = "start" /\ arg'[b] = arg[b]
  BY <1>1, <1>2
<1> QED BY <1>2, <1>3, <1>4, <1>5, <1>6, PlaceConsistent DEF Consistent

\* It cancels a work that does not.
LEMMA SyncCancelsStep ==
  ASSUME Consistent, NEW c \in Client, SyncCancels(c)
  PROVE  Consistent'
<1>1. /\ pc \in [Actor -> PC] /\ arg \in [Actor -> Work \cup {Null}] /\ c \in Actor
      /\ c # Worker /\ Worker \in Actor /\ watched \subseteq Client
  BY WorkQueueAssumption DEF Consistent, TypeOK, Actor
<1>2. /\ Alive /\ pc[c] = "cancel" /\ arg[c] \in Work
      /\ q' = CancelWork(q, arg[c]) /\ due' = due \ {arg[c]}
      /\ pc' = [pc EXCEPT ![c] = "run"] /\ arg' = [arg EXCEPT ![c] = Null]
      /\ UNCHANGED <<sem, watched>>
  BY <1>1 DEF SyncCancels, At, Goto, Consistent, Args
<1>3. /\ QueueOK(q', due') /\ ToSet(q'.work) = ToSet(q.work) \ {arg[c]}
      /\ ToSet(q'.delayed) = ToSet(q.delayed) \ {arg[c]}
      /\ q'.armed = q.armed \ {arg[c]} /\ q'.current = q.current
  BY <1>2, CancelWorkLemma DEF Consistent
<1>4. AtRest'
  <2>1. q.work \in Seq(Work) /\ q'.work \in Seq(Work)
    BY <1>3 DEF Consistent, QueueOK, QueueType
  <2>2. q.work = <<>> => q'.work = <<>>
    BY <1>3, <2>1, HeadLemma
  <2> QED BY <2>2, <1>1, <1>2, <1>3 DEF Consistent, AtRest
<1>5. /\ pc' \in [Actor -> PC] /\ arg' \in [Actor -> Work \cup {Null}]
      /\ \A b \in Actor : pc[b] = "start" => pc'[b] = "start" /\ arg'[b] = arg[b]
  BY <1>1, <1>2 DEF PC
<1>6. Args'
  BY <1>1, <1>2 DEF Consistent, Args
<1> QED BY <1>1, <1>2, <1>3, <1>4, <1>5, <1>6, PlaceConsistent DEF Consistent

\* It never finds a permit to take: it goes to sleep.
LEMMA SyncWaitsStep ==
  ASSUME Consistent, NEW c \in Client, SyncWaits(c)
  PROVE  Consistent' /\ pc' = [pc EXCEPT ![c] = "waits"] /\ watched' = watched
<1>1. /\ pc \in [Actor -> PC] /\ arg \in [Actor -> Work \cup {Null}] /\ c \in Actor
      /\ c # Worker /\ Worker \in Actor /\ watched \subseteq Client
  BY WorkQueueAssumption DEF Consistent, TypeOK, Actor
<1>2. /\ Alive /\ pc[c] = "wait" /\ UNCHANGED <<q, arg, due, watched, sem>>
      /\ pc' = [pc EXCEPT ![c] = "waits"]
  BY DEF SyncWaits, At, Goto, Consistent
<1>3. /\ pc' \in [Actor -> PC]
      /\ \A b \in Actor : pc[b] = "start" => pc'[b] = "start" /\ arg'[b] = arg[b]
  BY <1>1, <1>2 DEF PC
<1>4. AtRest' /\ Args'
  BY <1>1, <1>2 DEF Consistent, AtRest, Args
<1> QED BY <1>1, <1>2, <1>3, <1>4, PlaceConsistent DEF Consistent

\* the places after those who wait for a completion were woken
LEMMA WokenLemma ==
  ASSUME Consistent, NEW l \in PC, l \notin {"start", "cancel"}
  PROVE  LET p == [Woken(pc) EXCEPT ![Worker] = l]
         IN /\ p \in [Actor -> PC] /\ p[Worker] = l
            /\ \A b \in Actor : p[b] \in {"start", "cancel"} => p[b] = pc[b]
            /\ \A b \in Actor \ {Worker} : pc[b] = "start" => p[b] = "start"
            /\ \A b \in Actor \ {Worker} : p[b] # pc[b] => pc[b] = "waits" /\ p[b] = "run"
<1>1. pc \in [Actor -> PC] /\ Worker \in Actor
  BY DEF Consistent, TypeOK, Actor
<1>2. /\ Woken(pc) \in [Actor -> PC]
      /\ \A b \in Actor : Woken(pc)[b] = IF pc[b] = "waits" THEN "run" ELSE pc[b]
  BY <1>1 DEF Woken, PC
<1> QED BY <1>1, <1>2

\* rt_workqueue_destroy.
LEMMA DestroyStep ==
  ASSUME Consistent, NEW c \in Client, Destroy(c)
  PROVE  Consistent'
<1>1. /\ pc \in [Actor -> PC] /\ arg \in [Actor -> Work \cup {Null}] /\ Worker \in Actor
  BY DEF Consistent, TypeOK, Actor
<1>2. /\ QueueOK(q', due') /\ q'.work = <<>> /\ ToSet(q'.delayed) = {}
  BY CancelListedLemma DEF Destroy, Consistent
<1>3. /\ pc' = [Woken(pc) EXCEPT ![Worker] = "none"] /\ Alive
      /\ arg' = [arg EXCEPT ![Worker] = Null] /\ watched' = {} /\ sem' = sem
      /\ \A b \in Actor \ {Worker} : pc[b] \in {"run", "waits"}
  BY DEF Destroy, Calls, Actor
<1>4. /\ pc' \in [Actor -> PC] /\ pc'[Worker] = "none"
      /\ \A b \in Actor : pc'[b] \in {"start", "cancel"} => pc'[b] = pc[b]
  <2>1. "none" \in PC
    BY DEF PC
  <2> QED BY <1>3, <2>1, WokenLemma
<1>5. arg' \in [Actor -> Work \cup {Null}]
  BY <1>1, <1>3
<1>6. Args'
  BY <1>1, <1>3, <1>4 DEF Args
<1>7. AtRest'
  BY <1>3, <1>4 DEF AtRest
<1>8. TimersRun'
  BY <1>2 DEF TimersRun
<1>9. q' \in QueueType /\ due' \subseteq Work
  <2>1. q' \in QueueType /\ due' = ToSet(q'.work) \cup ToSet(q'.delayed)
    BY <1>2 DEF QueueOK, Listed
  <2> QED BY <2>1, HeadLemma DEF QueueType
<1> QED BY <1>2, <1>3, <1>4, <1>5, <1>6, <1>7, <1>8, <1>9 DEF Consistent, TypeOK

\* rt_workqueue_create of another queue in its place.
LEMMA CreateStep ==
  ASSUME Consistent, Create
  PROVE  Consistent'
<1>1. /\ pc \in [Actor -> PC] /\ Worker \in Actor /\ q \in QueueType
      /\ pc[Worker] = "none" /\ pc' = [pc EXCEPT ![Worker] = "loop"]
      /\ q' = [q EXCEPT !.current = Null] /\ sem' = 0 /\ UNCHANGED <<arg, due, watched>>
  BY DEF Consistent, TypeOK, Actor, Create
<1>2. /\ q' \in QueueType /\ q'.current = Null /\ q'.work = q.work
      /\ q'.delayed = q.delayed /\ q'.submitting = q.submitting /\ q'.of = q.of
      /\ q'.armed = q.armed
  BY <1>1 DEF QueueType
<1>3. QueueOK(q', due')
  BY <1>1, <1>2 DEF Consistent, QueueOK, Listed
<1>4. Alive' => Alive
  <2> SUFFICES ASSUME ~Alive PROVE ~Alive'
    OBVIOUS
  <2>1. PICK b \in Actor : pc[b] = "fault"
    BY DEF Alive
  <2>2. pc'[b] = "fault"
    BY <1>1, <2>1
  <2> QED BY <2>2 DEF Alive
<1>5. /\ pc' \in [Actor -> PC]
      /\ \A b \in Actor : pc[b] = "start" => pc'[b] = "start" /\ arg'[b] = arg[b]
  BY <1>1 DEF PC
<1>6. AtRest' /\ Args'
  BY <1>1, <1>2 DEF Consistent, AtRest, Args
<1> QED BY <1>1, <1>2, <1>3, <1>4, <1>5, <1>6, PlaceConsistent DEF Consistent, TypeOK

\* The timer thread runs _delayed_work_timeout_handler.
LEMMA TimerExpiresStep ==
  ASSUME Consistent, NEW w \in Work, TimerExpires(w)
  PROVE  Consistent'
<1>1. /\ pc \in [Actor -> PC] /\ arg \in [Actor -> Work \cup {Null}] /\ Worker \in Actor
      /\ watched \subseteq Client /\ w # Null
  BY WorkQueueAssumption DEF Consistent, TypeOK, Actor
<1>2. /\ Alive /\ w \in q.armed /\ UNCHANGED <<arg, sem, watched>>
  BY DEF TimerExpires
<1>3. CASE /\ w \in q.of /\ q' = DelayOver(q, w) /\ pc' = Resumed(pc)
           /\ due' = IF q.current = w THEN due \ {w} ELSE due
  <2>1. /\ QueueOK(q', due') /\ (q.current = w => ToSet(q'.work) = ToSet(q.work) \ {w})
        /\ ToSet(q'.delayed) = ToSet(q.delayed) \ {w}
        /\ q'.armed = q.armed \ {w} /\ q'.current = q.current
    BY <1>2, <1>3, DelayOverLemma DEF Consistent
  <2>2. \A v \in ToSet(q'.delayed) :
           v \in ToSet(q.delayed) /\ (v \in q.armed => v \in q'.armed)
    BY <2>1
  <2>3. /\ pc' \in [Actor -> PC]
        /\ \A b \in Actor : b # Worker => pc'[b] = pc[b]
        /\ pc'[Worker] = IF q.current = Null /\ pc[Worker] = "suspended" THEN "loop"
                         ELSE pc[Worker]
    BY <1>1, <1>3 DEF Resumed, PC
  <2>4. pc'[Worker] # "suspended"
    BY <2>3 DEF Consistent, AtRest
  <2>5. AtRest'
    BY <1>2, <2>1, <2>3, <2>4 DEF Consistent, AtRest
  <2>6. /\ Args'
        /\ \A b \in Actor : pc[b] = "start" => pc'[b] = "start" /\ arg'[b] = arg[b]
    BY <1>2, <2>3 DEF Consistent, Args
  <2> QED BY <1>1, <1>2, <2>1, <2>2, <2>3, <2>5, <2>6, PlaceConsistent DEF Consistent
<1>4. CASE pc' = [pc EXCEPT ![Worker] = "fault"] /\ UNCHANGED <<q, due>>
  <2>1. ~Alive'
    BY <1>1, <1>4 DEF Alive
  <2>2. TypeOK' /\ AtRest' /\ Args'
    BY <1>1, <1>2, <1>4 DEF Consistent, TypeOK, PC, AtRest, Args
  <2> QED BY <1>2, <1>4, <2>1, <2>2 DEF Consistent, TimersRun
<1> QED BY <1>3, <1>4 DEF TimerExpires, Goto

\* The work thread moves on without touching the queue or the callers.
LEMMA WorkerMoves ==
  ASSUME Consistent, Alive, NEW l \in PC \ {"start", "cancel", "fault"},
         pc[Worker] # "start", pc' = [pc EXCEPT ![Worker] = l],
         UNCHANGED <<q, arg, sem, due>>, watched' \subseteq Client, AtRest'
  PROVE  Consistent'
<1>1. /\ pc \in [Actor -> PC] /\ arg \in [Actor -> Work \cup {Null}] /\ Worker \in Actor
  BY DEF Consistent, TypeOK, Actor
<1>2. /\ pc' \in [Actor -> PC]
      /\ \A b \in Actor : pc[b] = "start" => pc'[b] = "start" /\ arg'[b] = arg[b]
  BY <1>1
<1>3. Args'
  BY <1>1 DEF Consistent, Args
<1> QED BY <1>1, <1>2, <1>3, PlaceConsistent DEF Consistent

\* The work thread finds nothing to run.
LEMMA SuspendSelfStep == ASSUME Consistent, SuspendSelf PROVE Consistent'
<1>1. /\ pc \in [Actor -> PC] /\ Worker \in Actor /\ watched \subseteq Client
  BY DEF Consistent, TypeOK, Actor
<1>2. AtRest'
  BY <1>1 DEF SuspendSelf, At, Goto, Consistent, AtRest
<1> QED BY <1>1, <1>2, WorkerMoves DEF SuspendSelf, At, Goto, PC

\* A work function returns.
LEMMA FunctionReturnsStep == ASSUME Consistent, FunctionReturns PROVE Consistent'
<1>1. /\ pc \in [Actor -> PC] /\ Worker \in Actor /\ watched \subseteq Client
  BY DEF Consistent, TypeOK, Actor
<1>2. AtRest'
  BY <1>1 DEF FunctionReturns, At, Goto, AtRest
<1> QED BY <1>1, <1>2, WorkerMoves DEF FunctionReturns, At, Goto, PC

\* The work that is taken is one that was submitted, and neither started nor
\* cancelled since.
LEMMA TakeStep ==
  ASSUME Consistent, Take
  PROVE  Consistent' /\ q'.current \in due
<1> DEFINE w == Head(q.work)
           o == TakeOut(q, w)
<1>1. /\ pc \in [Actor -> PC] /\ arg \in [Actor -> Work \cup {Null}] /\ Worker \in Actor
      /\ watched \subseteq Client /\ q.work \in Seq(Work) /\ q.work # <<>>
  BY DEF Consistent, TypeOK, Actor, QueueType, Take
<1>2. w \in ToSet(q.work) /\ w \in Work
  BY <1>1, HeadLemma
<1>3. /\ Alive /\ pc[Worker] = "loop" /\ pc' = [pc EXCEPT ![Worker] = "func"]
      /\ q' = [o EXCEPT !.current = w, !.of = @ \ {w}] /\ due' = due \ {w}
      /\ UNCHANGED <<arg, sem, watched>>
  BY DEF Take, At, Goto
<1> HIDE DEF w
<1>4. /\ o \in QueueType
      /\ IsInjective(o.work) /\ ToSet(o.work) = ToSet(q.work) \ {w}
      /\ IsInjective(o.delayed) /\ ToSet(o.delayed) = ToSet(q.delayed) \ {w}
      /\ o.submitting = q.submitting /\ o.of = q.of /\ o.armed = q.armed
  BY <1>2, TakeOutLemma DEF Consistent
<1> HIDE DEF o
<1>5. /\ q' \in QueueType /\ q'.work = o.work /\ q'.delayed = o.delayed
      /\ q'.current = w /\ q'.submitting = o.submitting /\ q'.of = o.of \ {w}
      /\ q'.armed = o.armed
  BY <1>2, <1>3, <1>4 DEF QueueType
<1>6. w \in due
  BY <1>2 DEF Consistent, QueueOK, Listed
<1>7. QueueOK(q', due')
  BY <1>2, <1>3, <1>4, <1>5 DEF Consistent, QueueOK, Listed
<1>8. /\ pc' \in [Actor -> PC]
      /\ \A b \in Actor : pc[b] = "start" => pc'[b] = "start" /\ arg'[b] = arg[b]
  BY <1>1, <1>3 DEF PC
<1>9. AtRest' /\ Args'
  BY <1>1, <1>3 DEF Consistent, AtRest, Args
<1> QED BY <1>1, <1>3, <1>4, <1>5, <1>6, <1>7, <1>8, <1>9, PlaceConsistent DEF Consistent

\* The work thread clears work_current.
LEMMA ClearCurrentStep == ASSUME Consistent, ClearCurrent PROVE Consistent'
<1>1. /\ pc \in [Actor -> PC] /\ arg \in [Actor -> Work \cup {Null}] /\ Worker \in Actor
      /\ q \in QueueType /\ Alive /\ pc[Worker] = "clear"
      /\ pc' = [pc EXCEPT ![Worker] = "complete"] /\ q' = [q EXCEPT !.current = Null]
      /\ watched' = {} /\ UNCHANGED <<arg, sem, due>>
  BY DEF Consistent, TypeOK, Actor, ClearCurrent, At, Goto
<1>2. /\ q' \in QueueType /\ q'.current = Null /\ q'.work = q.work
      /\ q'.delayed = q.delayed /\ q'.submitting = q.submitting /\ q'.of = q.of
      /\ q'.armed = q.armed
  BY <1>1 DEF QueueType
<1>3. QueueOK(q', due')
  BY <1>1, <1>2 DEF Consistent, QueueOK, Listed
<1>4. /\ pc' \in [Actor -> PC]
      /\ \A b \in Actor : pc[b] = "start" => pc'[b] = "start" /\ arg'[b] = arg[b]
  BY <1>1 DEF PC
<1>5. AtRest' /\ Args'
  BY <1>1, <1>2 DEF Consistent, AtRest, Args
<1> QED BY <1>1, <1>2, <1>3, <1>4, <1>5, PlaceConsistent DEF Consistent

\* _workqueue_work_completion wakes those who wait, and leaves no permit.
LEMMA CompleteStep ==
  ASSUME Consistent, Complete
  PROVE  Consistent' /\ watched' = {}
<1>1. /\ arg \in [Actor -> Work \cup {Null}] /\ Worker \in Actor
      /\ Alive /\ pc[Worker] = "complete" /\ pc' = [Woken(pc) EXCEPT ![Worker] = "loop"]
      /\ UNCHANGED <<q, arg, sem, due, watched>>
  BY DEF Consistent, TypeOK, Actor, Complete, At
<1>2. /\ pc' \in [Actor -> PC] /\ pc'[Worker] = "loop"
      /\ \A b \in Actor : pc'[b] \in {"start", "cancel"} => pc'[b] = pc[b]
      /\ \A b \in Actor \ {Worker} : pc[b] = "start" => pc'[b] = "start"
  <2>1. "loop" \in PC
    BY DEF PC
  <2> QED BY <1>1, <2>1, WokenLemma
<1>3. q.current = Null /\ watched = {}
  BY <1>1 DEF Consistent, AtRest
<1>4. AtRest' /\ Args'
  BY <1>1, <1>2, <1>3 DEF Consistent, AtRest, Args
<1> QED BY <1>1, <1>2, <1>3, <1>4, PlaceConsistent DEF Consistent

-----------------------------------------------------------------------------
(* The theorems *)

\* Every step keeps the work queue in order.
LEMMA NextConsistent == Consistent /\ [Next]_vars => Consistent'
<1> SUFFICES ASSUME Consistent, [Next]_vars PROVE Consistent'
  OBVIOUS
<1>1. CASE UNCHANGED vars
  BY <1>1 DEF vars, Consistent, TypeOK, TimersRun, Starts, Alive, AtRest, Args
<1>2. CASE WorkThread
  <2>1. Worker \in Actor
    BY DEF Actor
  <2> QED BY <1>2, <2>1, SuspendSelfStep, TakeStep, FunctionReturnsStep, ClearCurrentStep,
             CompleteStep, StartTimerStep DEF WorkThread
<1>3. CASE Create
  BY <1>3, CreateStep
<1>4. ASSUME NEW w \in Work, TimerExpires(w) PROVE Consistent'
  BY <1>4, TimerExpiresStep
<1>5. ASSUME NEW c \in Client, StartTimer(c) \/ SyncCancels(c) \/ SyncWaits(c) \/ Destroy(c)
      PROVE  Consistent'
  BY <1>5, StartTimerStep, SyncCancelsStep, SyncWaitsStep, DestroyStep DEF Actor
<1>6. ASSUME NEW c \in Client, NEW w \in Work, CancelSync(c, w) PROVE Consistent'
  BY <1>6, CancelSyncStep
<1>7. ASSUME NEW a \in Actor, CancelAll(a) PROVE Consistent'
  BY <1>7, CancelAllStep
<1>8. ASSUME NEW a \in Actor, NEW w \in Work,
             Submit(a, w) \/ Urgent(a, w) \/ Delay(a, w) \/ Cancel(a, w)
      PROVE  Consistent'
  BY <1>8, SubmitStep, UrgentStep, DelayStep, CancelStep
<1> QED BY <1>1, <1>2, <1>3, <1>4, <1>5, <1>6, <1>7, <1>8 DEF Next

\* The lists, flags, timers and places of a work queue agree in every reachable
\* state, however many works and callers there are (workqueue.c as a whole).
THEOREM ConsistentAlways == Spec => []Consistent
<1>1. Init => Consistent
  BY InitConsistent
<1>2. Consistent /\ [Next]_vars => Consistent'
  BY NextConsistent
<1> QED BY <1>1, <1>2, PTL DEF Spec

\* Nobody but the work thread takes a work, and only the end of a work, and of the
\* queue, wakes those who wait for it.
PlacesKept == /\ pc[Worker] = "loop" => pc'[Worker] # "func"
              /\ \A c \in Client : pc[c] \in {"wait", "waits"} => pc'[c] \in {"wait", "waits"}

\* One actor goes on.
LEMMA OneMoves ==
  ASSUME Consistent, NEW a \in Actor, NEW l,
         pc' = [pc EXCEPT ![a] = l],
         a # Worker => pc[a] \notin {"wait", "waits"} \/ l = "waits",
         a = Worker => l # "func"
  PROVE  PlacesKept
<1>1. pc \in [Actor -> PC] /\ Worker \in Actor
  BY DEF Consistent, TypeOK, Actor
<1>2. ASSUME NEW c \in Client PROVE c \in Actor /\ c # Worker
  BY WorkQueueAssumption DEF Actor
<1> QED BY <1>1, <1>2 DEF PlacesKept

\* A call that returns at once.
LEMMA CallKeepsPlaces ==
  ASSUME Consistent, NEW a \in Actor, Calls(a),
         pc' = Returned(a) \/ pc' = Resumed(Returned(a))
  PROVE  PlacesKept
<1>1. /\ pc \in [Actor -> PC] /\ Worker \in Actor
      /\ pc[a] = IF a = Worker THEN "func" ELSE "run"
  BY DEF Consistent, TypeOK, Actor, Calls
<1>2. Returned(a) = [pc EXCEPT ![a] = IF a = Worker THEN "clear" ELSE "run"]
  BY DEF Returned
<1>3. CASE pc' = Returned(a)
  BY <1>1, <1>2, <1>3, OneMoves
<1>4. CASE pc' = Resumed(Returned(a))
  <2>1. \A b \in Actor : b # Worker /\ b # a => pc'[b] = pc[b]
    BY <1>1, <1>2, <1>4 DEF Resumed
  <2>2. pc[Worker] = "loop" => pc'[Worker] = "loop"
    BY <1>1, <1>2, <1>4 DEF Resumed
  <2>3. ASSUME NEW c \in Client PROVE c \in Actor /\ c # Worker
    BY WorkQueueAssumption DEF Actor
  <2> QED BY <1>1, <2>1, <2>2, <2>3 DEF PlacesKept
<1> QED BY <1>3, <1>4

\* All the other steps.
LEMMA StepKeepsPlaces ==
  ASSUME Consistent, Next
  PROVE  PlacesKept \/ Take \/ Complete \/ \E c \in Client : Destroy(c)
<1>1. pc \in [Actor -> PC] /\ Worker \in Actor
  BY DEF Consistent, TypeOK, Actor
<1>2. ASSUME NEW c \in Client PROVE c \in Actor /\ c # Worker
  BY WorkQueueAssumption DEF Actor
<1>3. ASSUME SuspendSelf \/ FunctionReturns \/ ClearCurrent \/ Create PROVE PlacesKept
  <2>1. PICK l \in {"suspended", "clear", "complete", "loop"} : pc' = [pc EXCEPT ![Worker] = l]
    BY <1>3 DEF SuspendSelf, FunctionReturns, ClearCurrent, Create, Goto
  <2> QED BY <1>1, <2>1, OneMoves
<1>4. ASSUME NEW a \in Actor, StartTimer(a) PROVE PlacesKept
  <2>1. pc[a] = "start"
    BY <1>4 DEF StartTimer, At
  <2>2. PICK l \in {"clear", "run", "fault"} : pc' = [pc EXCEPT ![a] = l]
    BY <1>4 DEF StartTimer, Returned, Goto
  <2> QED BY <2>1, <2>2, OneMoves
<1>5. ASSUME NEW w \in Work, TimerExpires(w) PROVE PlacesKept
  <2>1. CASE pc' = Resumed(pc)
    <3>1. \A b \in Actor : b # Worker => pc'[b] = pc[b]
      BY <1>1, <2>1 DEF Resumed
    <3>2. pc[Worker] = "loop" => pc'[Worker] = "loop"
      BY <1>1, <2>1 DEF Resumed
    <3> QED BY <1>2, <3>1, <3>2 DEF PlacesKept
  <2>2. CASE pc' = [pc EXCEPT ![Worker] = "fault"]
    BY <1>1, <2>2, OneMoves
  <2> QED BY <1>5, <2>1, <2>2 DEF TimerExpires, Goto
<1>6. ASSUME NEW c \in Client, SyncCancels(c) PROVE PlacesKept
  <2>1. pc[c] = "cancel" /\ pc' = [pc EXCEPT ![c] = "run"]
    BY <1>6 DEF SyncCancels, At, Goto
  <2> QED BY <1>2, <2>1, OneMoves
<1>7. ASSUME NEW c \in Client, SyncWaits(c) PROVE PlacesKept
  BY <1>2, <1>7, SyncWaitsStep, OneMoves
<1>8. ASSUME NEW c \in Client, NEW w \in Work, CancelSync(c, w) PROVE PlacesKept
  <2>1. pc[c] = "run"
    BY <1>2, <1>8 DEF CancelSync, Calls
  <2>2. PICK l \in {"wait", "cancel"} : pc' = [pc EXCEPT ![c] = l]
    BY <1>8 DEF CancelSync, Goto
  <2> QED BY <1>2, <2>1, <2>2, OneMoves
<1>9. ASSUME NEW a \in Actor, CancelAll(a) PROVE PlacesKept
  BY <1>9, CallKeepsPlaces DEF CancelAll
<1>10. ASSUME NEW a \in Actor, NEW w \in Work, Submit(a, w) \/ Urgent(a, w) \/ Cancel(a, w)
       PROVE  PlacesKept
  BY <1>10, CallKeepsPlaces DEF Submit, Urgent, Cancel
<1>11. ASSUME NEW a \in Actor, NEW w \in Work, Delay(a, w) PROVE PlacesKept
  <2>1. pc[a] = (IF a = Worker THEN "func" ELSE "run") /\ pc' = [pc EXCEPT ![a] = "start"]
    BY <1>11 DEF Delay, Calls, Goto
  <2> QED BY <2>1, OneMoves
<1> QED BY <1>1, <1>2, <1>3, <1>4, <1>5, <1>6, <1>7, <1>8, <1>9, <1>10, <1>11
     DEF Next, WorkThread

\* _workqueue_thread_entry takes only works that were submitted after their last run
\* and not cancelled since.
THEOREM RunsWhatWasSubmitted == Spec => OnlySubmittedRun
<1> DEFINE A == pc[Worker] = "loop" /\ pc'[Worker] = "func" => q'.current \in due
<1>1. ASSUME Consistent, [Next]_vars PROVE [A]_vars
  <2> SUFFICES ASSUME Next, pc[Worker] = "loop", pc'[Worker] = "func"
               PROVE  q'.current \in due
    BY <1>1
  <2>1. ~PlacesKept
    BY DEF PlacesKept
  <2>2. ~Complete
    BY DEF Complete, At
  <2>3. ASSUME NEW c \in Client PROVE ~Destroy(c)
    <3> SUFFICES ASSUME Destroy(c) PROVE FALSE
      OBVIOUS
    <3>1. pc' = [Woken(pc) EXCEPT ![Worker] = "none"] /\ "none" \in PC
      BY DEF Destroy, PC
    <3>2. pc'[Worker] = "none"
      BY <1>1, <3>1, WokenLemma
    <3> QED BY <3>2
  <2> QED BY <1>1, <2>1, <2>2, <2>3, StepKeepsPlaces, TakeStep
<1> QED BY <1>1, ConsistentAlways, PTL DEF Spec, OnlySubmittedRun

\* A rt_workqueue_cancel_work_sync that found its work executing does not return
\* before _workqueue_thread_entry has come to the end of that execution.
THEOREM SyncNeverReturnsEarly == Spec => NeverBeforeTheEnd
<1> DEFINE A == \A c \in Client : pc[c] \in {"wait", "waits"} /\ pc'[c] = "run"
                                    => c \notin watched'
<1>1. ASSUME Consistent, [Next]_vars PROVE [A]_vars
  <2> SUFFICES ASSUME Next, NEW c \in Client, pc[c] \in {"wait", "waits"}, pc'[c] = "run"
               PROVE  c \notin watched'
    BY <1>1
  <2>1. ~PlacesKept
    BY DEF PlacesKept
  <2>2. ~Take
    <3>1. pc \in [Actor -> PC] /\ c \in Actor /\ c # Worker
      BY <1>1, WorkQueueAssumption DEF Consistent, TypeOK, Actor
    <3> QED BY <3>1 DEF Take, Goto
  <2>3. CASE Complete
    BY <1>1, <2>3, CompleteStep
  <2>4. CASE \E d \in Client : Destroy(d)
    BY <2>4 DEF Destroy
  <2> QED BY <1>1, <2>1, <2>2, <2>3, <2>4, StepKeepsPlaces
<1> QED BY <1>1, ConsistentAlways, PTL DEF Spec, NeverBeforeTheEnd
=============================================================================
