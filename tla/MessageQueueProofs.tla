------------------------- MODULE MessageQueueProofs -------------------------
(***************************************************************************)
(* The message queue for any number of threads and nodes: no node is lost  *)
(* or used twice although threads fill and empty them outside the critical *)
(* sections, no wake-up is lost, and the list of messages is the bounded   *)
(* queue it stands for.                                                    *)
(***************************************************************************)
EXTENDS MessageQueue, KernelProofs

USE IpcAssumption, ThreadAssumption, QueueAssumption DEF Orderly

-----------------------------------------------------------------------------
(* Lists of nodes *)

LEMMA NodeCount == Cardinality(Node) \in Nat
BY FS_CardinalityType

\* The pointers that lead through a sequence give that sequence back.
LEMMA ChainIs ==
  ASSUME NEW nx, NEW from, NEW q \in Seq(Node), Len(q) <= Cardinality(Node),
         Linked(nx, q, from)
  PROVE  ChainOf(nx, from) = q
<1> DEFINE N == Cardinality(Node)
           Rec(f) == [i \in 1..N |-> IF i = 1 THEN from
                                     ELSE IF f[i - 1] = Null THEN Null ELSE nx[f[i - 1]]]
           along == [i \in 1..N |-> IF i <= Len(q) THEN q[i] ELSE Null]
           nth == CHOOSE f : f = Rec(f)
<1>1. N \in Nat /\ Len(q) \in Nat /\ Len(q) <= N /\ Null \notin Node
  BY NodeCount
<1>2. /\ from = IF Len(q) = 0 THEN Null ELSE q[1]
      /\ \A i \in 1..Len(q) : q[i] \in Node
      /\ \A i \in 1..Len(q) : nx[q[i]] = IF i < Len(q) THEN q[i + 1] ELSE Null
  BY DEF Linked
<1> HIDE DEF N
<1>3. along = Rec(along)
  <2>1. ASSUME NEW i \in 1..N
        PROVE  along[i] = IF i = 1 THEN from
                          ELSE IF along[i - 1] = Null THEN Null ELSE nx[along[i - 1]]
    <3>1. CASE i = 1
      BY <1>1, <1>2, <3>1
    <3>2. CASE i # 1 /\ i - 1 <= Len(q)
      <4>1. i - 1 \in 1..N /\ i - 1 \in 1..Len(q) /\ (i - 1) + 1 = i
        BY <1>1, <3>2
      <4>2. along[i - 1] = q[i - 1] /\ along[i - 1] # Null
        BY <4>1, <3>2, <1>1, <1>2
      <4>3. nx[q[i - 1]] = IF i - 1 < Len(q) THEN q[i] ELSE Null
        BY <4>1, <1>2
      <4>4. i - 1 < Len(q) <=> i <= Len(q)
        BY <1>1
      <4> QED BY <3>2, <4>2, <4>3, <4>4
    <3>3. CASE i # 1 /\ ~(i - 1 <= Len(q))
      <4>1. i - 1 \in 1..N /\ ~(i <= Len(q))
        BY <1>1, <3>3
      <4> QED BY <3>3, <4>1
    <3> QED BY <3>1, <3>2, <3>3
  <2> QED BY <2>1
<1>4. nth = Rec(nth)
  <2> HIDE DEF Rec, along
  <2>1. \E f : f = Rec(f)
    BY <1>3
  <2> QED BY <2>1
<1> HIDE DEF nth
<1>5. DOMAIN nth = 1..N
  BY <1>4
<1>6. \A i \in 1..N : nth[i] = along[i]
  <2> DEFINE wrong == {i \in 1..N : nth[i] # along[i]}
  <2>1. SUFFICES ASSUME wrong # {} PROVE FALSE
    OBVIOUS
  <2>2. wrong \in SUBSET Nat
    BY <1>1
  <2>3. PICK m \in wrong : \A n \in wrong : m <= n
    <3> HIDE DEF wrong
    <3> QED BY <2>1, <2>2, LeastNatural
  <2>4. m \in 1..N /\ nth[m] # along[m]
    OBVIOUS
  <2>5. nth[m] = (IF m = 1 THEN from ELSE IF nth[m - 1] = Null THEN Null ELSE nx[nth[m - 1]])
    BY <1>4, <2>4
  <2>6. along[m] = (IF m = 1 THEN from
                    ELSE IF along[m - 1] = Null THEN Null ELSE nx[along[m - 1]])
    <3> HIDE DEF along
    <3> QED BY <1>3, <2>4
  <2>7. m # 1 => nth[m - 1] = along[m - 1]
    <3>1. m # 1 => m - 1 \in 1..N /\ ~(m <= m - 1)
      BY <1>1, <2>4
    <3> QED BY <3>1, <2>3
  <2> HIDE DEF along
  <2> QED BY <2>4, <2>5, <2>6, <2>7
<1>7. {j \in 1..N : nth[j] # Null} = 1..Len(q)
  <2>1. ASSUME NEW j \in 1..N PROVE nth[j] # Null <=> j \in 1..Len(q)
    BY <1>1, <1>2, <1>6
  <2> QED BY <2>1, <1>1
<1>8. Cardinality(1..Len(q)) = Len(q)
  <2> DEFINE n == Len(q)
  <2> HIDE DEF n
  <2>1. 1 \in Int /\ n \in Int /\ n \in Nat
    BY <1>1 DEF n
  <2>2. Cardinality(1..n) = IF 1 > n THEN 0 ELSE n - 1 + 1
    BY <2>1, FS_Interval
  <2>3. Cardinality(1..n) = n
    BY <2>1, <2>2
  <2> QED BY <2>3 DEF n
<1>9. ChainOf(nx, from) = [i \in 1..Len(q) |-> nth[i]]
  <2>1. ChainOf(nx, from) = [i \in 1..Cardinality({j \in DOMAIN nth : nth[j] # Null}) |-> nth[i]]
    BY DEF ChainOf, nth, N
  <2> QED BY <2>1, <1>5, <1>7, <1>8
<1>10. \A i \in 1..Len(q) : nth[i] = q[i]
  BY <1>1, <1>6
<1> QED BY <1>9, <1>10

\* The facts about a list of nodes that the provers use.
LEMMA LinkedFacts ==
  ASSUME NEW nx, NEW q \in Seq(Node), NEW from
  PROVE  Linked(nx, q, from) <=>
           /\ from = IF Len(q) = 0 THEN Null ELSE q[1]
           /\ \A i \in 1..Len(q) : nx[q[i]] = IF i < Len(q) THEN q[i + 1] ELSE Null
BY DEF Linked

\* A list of which no node's pointer changes stays a list.
LEMMA LinkedFrame ==
  ASSUME NEW nx, NEW nn, NEW q \in Seq(Node), NEW from, Linked(nx, q, from),
         \A n \in ToSet(q) : nn[n] = nx[n]
  PROVE  Linked(nn, q, from)
<1>1. \A i \in 1..Len(q) : q[i] \in ToSet(q)
  BY DEF ToSet
<1>2. \A i \in 1..Len(q) : nn[q[i]] = nx[q[i]]
  BY <1>1
<1> QED BY <1>2, LinkedFacts

\* The first node is unlinked.
LEMMA LinkedTail ==
  ASSUME NEW nx, NEW q \in Seq(Node), NEW from, Linked(nx, q, from), from # Null
  PROVE  /\ q # <<>> /\ from = Head(q) /\ Tail(q) \in Seq(Node)
         /\ Linked(nx, Tail(q), nx[from])
<1>1. q # <<>> /\ from = Head(q) /\ from = q[1] /\ Len(q) \in Nat \ {0}
  <2>1. from = IF Len(q) = 0 THEN Null ELSE q[1]
    BY LinkedFacts
  <2>2. Len(q) \in Nat \ {0}
    BY <2>1
  <2>3. q # <<>> /\ Head(q) = q[1]
    BY <2>2
  <2> QED BY <2>1, <2>2, <2>3
<1> DEFINE r == Tail(q)
<1>2. /\ r \in Seq(Node) /\ Len(r) = Len(q) - 1
      /\ \A i \in 1..(Len(q) - 1) : r[i] = q[i + 1]
  BY <1>1, TailElements
<1> HIDE DEF r
<1>3. \A i \in 1..Len(q) : nx[q[i]] = IF i < Len(q) THEN q[i + 1] ELSE Null
  BY LinkedFacts
<1>4. nx[from] = IF Len(r) = 0 THEN Null ELSE r[1]
  BY <1>1, <1>2, <1>3
<1>5. ASSUME NEW i \in 1..Len(r)
      PROVE  nx[r[i]] = IF i < Len(r) THEN r[i + 1] ELSE Null
  <2>1. i + 1 \in 1..Len(q) /\ r[i] = q[i + 1] /\ (i < Len(r) <=> i + 1 < Len(q))
    BY <1>1, <1>2
  <2>2. nx[q[i + 1]] = IF i + 1 < Len(q) THEN q[(i + 1) + 1] ELSE Null
    BY <2>1, <1>3
  <2>3. i < Len(r) => r[i + 1] = q[(i + 1) + 1]
    BY <1>1, <1>2
  <2> QED BY <2>1, <2>2, <2>3
<1>6. Linked(nx, r, nx[from])
  BY <1>2, <1>4, <1>5, LinkedFacts
<1> QED BY <1>1, <1>2, <1>6 DEF r

\* A node is put in front.
LEMMA LinkedFront ==
  ASSUME NEW nx, NEW nn, NEW q \in Seq(Node), NEW from, NEW n \in Node, Linked(nx, q, from),
         nn[n] = from, \A m \in ToSet(q) : nn[m] = nx[m]
  PROVE  <<n>> \o q \in Seq(Node) /\ Linked(nn, <<n>> \o q, n)
<1> DEFINE r == <<n>> \o q
<1>1. /\ r \in Seq(Node) /\ Len(r) = Len(q) + 1
      /\ \A i \in 1..(Len(q) + 1) : r[i] = IF i = 1 THEN n ELSE q[i - 1]
  BY FrontElements
<1> HIDE DEF r
<1>2. Linked(nn, q, from) /\ Len(q) \in Nat
  BY LinkedFrame
<1>3. /\ from = IF Len(q) = 0 THEN Null ELSE q[1]
      /\ \A i \in 1..Len(q) : nn[q[i]] = IF i < Len(q) THEN q[i + 1] ELSE Null
  BY <1>2, LinkedFacts
<1>4. n = IF Len(r) = 0 THEN Null ELSE r[1]
  BY <1>1, <1>2
<1>5. ASSUME NEW i \in 1..Len(r)
      PROVE  nn[r[i]] = IF i < Len(r) THEN r[i + 1] ELSE Null
  <2>1. CASE i = 1
    <3>1. r[i] = n /\ (i < Len(r) <=> Len(q) # 0)
      BY <2>1, <1>1, <1>2
    <3>2. Len(q) # 0 => r[i + 1] = q[1]
      BY <2>1, <1>1, <1>2
    <3> QED BY <3>1, <3>2, <1>3
  <2>2. CASE i # 1
    <3>1. i - 1 \in 1..Len(q) /\ r[i] = q[i - 1] /\ (i < Len(r) <=> i - 1 < Len(q))
      BY <2>2, <1>1, <1>2
    <3>2. nn[q[i - 1]] = IF i - 1 < Len(q) THEN q[(i - 1) + 1] ELSE Null
      BY <3>1, <1>3
    <3>3. i < Len(r) => r[i + 1] = q[(i - 1) + 1]
      BY <2>2, <1>1, <1>2
    <3> QED BY <3>1, <3>2, <3>3
  <2> QED BY <2>1, <2>2
<1>6. Linked(nn, r, n)
  BY <1>1, <1>4, <1>5, LinkedFacts
<1> QED BY <1>1, <1>6 DEF r

\* the last node of a list, or none
End(q) == IF q = <<>> THEN Null ELSE Last(q)

\* A node is put at the end.
LEMMA LinkedBack ==
  ASSUME NEW nx, NEW nn, NEW q \in Seq(Node), NEW from, NEW n \in Node, Linked(nx, q, from),
         IsInjective(q), nn[n] = Null, q # <<>> => nn[End(q)] = n,
         \A m \in ToSet(q) : m # End(q) => nn[m] = nx[m]
  PROVE  /\ Append(q, n) \in Seq(Node)
         /\ Linked(nn, Append(q, n), IF q = <<>> THEN n ELSE from)
<1> DEFINE r == Append(q, n)
           first == IF q = <<>> THEN n ELSE from
<1>1. /\ r \in Seq(Node) /\ Len(r) = Len(q) + 1
      /\ \A i \in 1..(Len(q) + 1) : r[i] = IF i <= Len(q) THEN q[i] ELSE n
  BY AppendElements
<1> HIDE DEF r
<1>2. Len(q) \in Nat /\ (q = <<>> <=> Len(q) = 0) /\ DOMAIN q = 1..Len(q)
  OBVIOUS
<1>3. /\ from = IF Len(q) = 0 THEN Null ELSE q[1]
      /\ \A i \in 1..Len(q) : nx[q[i]] = IF i < Len(q) THEN q[i + 1] ELSE Null
  BY LinkedFacts
<1>4. q # <<>> => End(q) = q[Len(q)]
  BY DEF End, Last
<1>5. \A i \in 1..Len(q) : q[i] \in ToSet(q) /\ (i < Len(q) => q[i] # q[Len(q)])
  BY <1>2 DEF ToSet, IsInjective
<1>6. first = IF Len(r) = 0 THEN Null ELSE r[1]
  BY <1>1, <1>2, <1>3
<1>7. ASSUME NEW i \in 1..Len(r)
      PROVE  nn[r[i]] = IF i < Len(r) THEN r[i + 1] ELSE Null
  <2>1. CASE i < Len(q)
    <3>1. i \in 1..Len(q) /\ r[i] = q[i] /\ i < Len(r) /\ r[i + 1] = q[i + 1] /\ q # <<>>
      BY <2>1, <1>1, <1>2
    <3>2. nn[q[i]] = nx[q[i]]
      BY <3>1, <2>1, <1>4, <1>5
    <3> QED BY <3>1, <3>2, <2>1, <1>3
  <2>2. CASE i = Len(q)
    <3>1. r[i] = q[Len(q)] /\ i < Len(r) /\ r[i + 1] = n /\ q # <<>>
      BY <2>2, <1>1, <1>2
    <3> QED BY <3>1, <1>4
  <2>3. CASE i = Len(q) + 1
    BY <2>3, <1>1, <1>2
  <2>4. i < Len(q) \/ i = Len(q) \/ i = Len(q) + 1
    BY <1>1, <1>2
  <2> QED BY <2>1, <2>2, <2>3, <2>4
<1> HIDE DEF first
<1>8. Linked(nn, r, first)
  BY <1>1, <1>6, <1>7, LinkedFacts
<1> QED BY <1>1, <1>8 DEF r, first

\* the free list after a reset: the queued nodes go to its front one by one
Flipped(q, u) == Reverse(q) \o u

LEMMA FlippedElements ==
  ASSUME NEW T, NEW q \in Seq(T), NEW u \in Seq(T)
  PROVE  LET r == Flipped(q, u)
         IN /\ r \in Seq(T) /\ Len(r) = Len(q) + Len(u)
            /\ \A i \in 1..Len(r) : r[i] = IF i <= Len(q) THEN q[Len(q) - i + 1]
                                                          ELSE u[i - Len(q)]
<1> DEFINE v == Reverse(q)
           r == Flipped(q, u)
<1>1. Len(q) \in Nat /\ Len(u) \in Nat
  OBVIOUS
<1>2. v = [i \in 1..Len(q) |-> q[Len(q) - i + 1]]
  BY DEF Reverse
<1> HIDE DEF v
<1>3. \A i \in 1..Len(q) : v[i] = q[Len(q) - i + 1] /\ Len(q) - i + 1 \in 1..Len(q)
  BY <1>1, <1>2
<1>4. v \in Seq(T) /\ Len(v) = Len(q)
  <2>1. v = [i \in 1..Len(q) |-> v[i]] /\ \A i \in 1..Len(q) : v[i] \in T
    BY <1>2, <1>3
  <2> QED BY <1>1, <2>1, SeqByIndex
<1>5. r = v \o u
  BY DEF Flipped, v
<1> HIDE DEF r
<1>6. /\ r \in Seq(T) /\ Len(r) = Len(v) + Len(u)
      /\ \A i \in 1..(Len(v) + Len(u)) : r[i] = IF i <= Len(v) THEN v[i] ELSE u[i - Len(v)]
  BY <1>4, <1>5, ConcatProperties
<1>7. ASSUME NEW i \in 1..Len(r)
      PROVE  r[i] = IF i <= Len(q) THEN q[Len(q) - i + 1] ELSE u[i - Len(q)]
  <2>1. i \in 1..(Len(v) + Len(u)) /\ i \in Nat /\ i > 0
    BY <1>1, <1>4, <1>6
  <2>2. r[i] = IF i <= Len(q) THEN v[i] ELSE u[i - Len(q)]
    BY <1>4, <1>6, <2>1
  <2>3. i <= Len(q) => v[i] = q[Len(q) - i + 1]
    BY <1>1, <1>3, <2>1
  <2> QED BY <2>2, <2>3
<1>8. r \in Seq(T) /\ Len(r) = Len(q) + Len(u)
  BY <1>4, <1>6
<1> QED BY <1>7, <1>8 DEF r

\* Its nodes are those of both lists, each once.
LEMMA FlippedSet ==
  ASSUME NEW T, NEW q \in Seq(T), NEW u \in Seq(T), IsInjective(q), IsInjective(u),
         ToSet(q) \cap ToSet(u) = {}
  PROVE  /\ ToSet(Flipped(q, u)) = ToSet(q) \cup ToSet(u)
         /\ IsInjective(Flipped(q, u))
<1> DEFINE r == Flipped(q, u)
<1>1. /\ r \in Seq(T) /\ Len(r) = Len(q) + Len(u)
      /\ \A i \in 1..Len(r) : r[i] = IF i <= Len(q) THEN q[Len(q) - i + 1] ELSE u[i - Len(q)]
  BY FlippedElements
<1> HIDE DEF r
<1>2. /\ Len(q) \in Nat /\ Len(u) \in Nat
      /\ DOMAIN q = 1..Len(q) /\ DOMAIN u = 1..Len(u) /\ DOMAIN r = 1..Len(r)
  BY <1>1
<1>3. ASSUME NEW i \in 1..Len(r)
      PROVE  /\ i <= Len(q) => Len(q) - i + 1 \in 1..Len(q) /\ r[i] = q[Len(q) - i + 1]
             /\ ~(i <= Len(q)) => i - Len(q) \in 1..Len(u) /\ r[i] = u[i - Len(q)]
  BY <1>1, <1>2
<1>4. ToSet(r) = ToSet(q) \cup ToSet(u)
  <2>1. ASSUME NEW x \in ToSet(r) PROVE x \in ToSet(q) \cup ToSet(u)
    <3>1. PICK i \in 1..Len(r) : x = r[i]
      BY <1>2 DEF ToSet
    <3> QED BY <3>1, <1>2, <1>3 DEF ToSet
  <2>2. ASSUME NEW x \in ToSet(q) PROVE x \in ToSet(r)
    <3>1. PICK j \in 1..Len(q) : x = q[j]
      BY <1>2 DEF ToSet
    <3> DEFINE i == Len(q) - j + 1
    <3>2. i \in 1..Len(r) /\ i <= Len(q) /\ Len(q) - i + 1 = j
      BY <1>1, <1>2
    <3> HIDE DEF i
    <3>3. r[i] = x
      BY <1>3, <3>1, <3>2
    <3> QED BY <1>2, <3>2, <3>3 DEF ToSet
  <2>3. ASSUME NEW x \in ToSet(u) PROVE x \in ToSet(r)
    <3>1. PICK j \in 1..Len(u) : x = u[j]
      BY <1>2 DEF ToSet
    <3> DEFINE i == Len(q) + j
    <3>2. i \in 1..Len(r) /\ ~(i <= Len(q)) /\ i - Len(q) = j
      BY <1>1, <1>2
    <3> HIDE DEF i
    <3>3. r[i] = x
      BY <1>3, <3>1, <3>2
    <3> QED BY <1>2, <3>2, <3>3 DEF ToSet
  <2> QED BY <2>1, <2>2, <2>3
<1>5. IsInjective(r)
  <2>1. /\ \A i, j \in 1..Len(q) : q[i] = q[j] => i = j
        /\ \A i, j \in 1..Len(u) : u[i] = u[j] => i = j
        /\ \A i \in 1..Len(q), j \in 1..Len(u) : q[i] # u[j]
    <3>1. /\ \A i, j \in 1..Len(q) : q[i] = q[j] => i = j
          /\ \A i, j \in 1..Len(u) : u[i] = u[j] => i = j
      BY <1>2 DEF IsInjective
    <3>2. /\ \A i \in 1..Len(q) : q[i] \in ToSet(q)
          /\ \A j \in 1..Len(u) : u[j] \in ToSet(u)
      BY <1>2 DEF ToSet
    <3> QED BY <3>1, <3>2
  <2>2. ASSUME NEW i \in 1..Len(r), NEW j \in 1..Len(r), r[i] = r[j]
        PROVE  i = j
    <3>1. CASE i <= Len(q) /\ j <= Len(q)
      <4> DEFINE a == Len(q) - i + 1
                 b == Len(q) - j + 1
      <4>1. /\ a \in 1..Len(q) /\ r[i] = q[a]
            /\ b \in 1..Len(q) /\ r[j] = q[b]
        BY <1>3, <3>1
      <4> HIDE DEF a, b
      <4>2. a = b
        BY <2>1, <2>2, <4>1
      <4> QED BY <4>2, <1>2 DEF a, b
    <3>2. CASE ~(i <= Len(q)) /\ ~(j <= Len(q))
      <4> DEFINE a == i - Len(q)
                 b == j - Len(q)
      <4>1. /\ a \in 1..Len(u) /\ r[i] = u[a]
            /\ b \in 1..Len(u) /\ r[j] = u[b]
        BY <1>3, <3>2
      <4> HIDE DEF a, b
      <4>2. a = b
        BY <2>1, <2>2, <4>1
      <4> QED BY <4>2, <1>2 DEF a, b
    <3>3. CASE i <= Len(q) /\ ~(j <= Len(q))
      <4> DEFINE a == Len(q) - i + 1
                 b == j - Len(q)
      <4>1. /\ a \in 1..Len(q) /\ r[i] = q[a]
            /\ b \in 1..Len(u) /\ r[j] = u[b]
        BY <1>3, <3>3
      <4> HIDE DEF a, b
      <4> QED BY <2>1, <2>2, <4>1
    <3>4. CASE ~(i <= Len(q)) /\ j <= Len(q)
      <4> DEFINE a == Len(q) - j + 1
                 b == i - Len(q)
      <4>1. /\ a \in 1..Len(q) /\ r[j] = q[a]
            /\ b \in 1..Len(u) /\ r[i] = u[b]
        BY <1>3, <3>4
      <4> HIDE DEF a, b
      <4> QED BY <2>1, <2>2, <4>1
    <3> QED BY <3>1, <3>2, <3>3, <3>4
  <2> QED BY <2>2, <1>2 DEF IsInjective
<1> QED BY <1>4, <1>5 DEF r

\* The queue is moved to the free list.
LEMMA LinkedFlipped ==
  ASSUME NEW nx, NEW nn, NEW q \in Seq(Node), NEW u \in Seq(Node), NEW from,
         Linked(nx, u, from), \A m \in ToSet(u) : nn[m] = nx[m],
         \A i \in 1..Len(q) : nn[q[i]] = IF i = 1 THEN from ELSE q[i - 1]
  PROVE  Linked(nn, Flipped(q, u), IF q = <<>> THEN from ELSE Last(q))
<1> DEFINE r == Flipped(q, u)
           first == IF q = <<>> THEN from ELSE Last(q)
<1>1. /\ r \in Seq(Node) /\ Len(r) = Len(q) + Len(u)
      /\ \A i \in 1..Len(r) : r[i] = IF i <= Len(q) THEN q[Len(q) - i + 1] ELSE u[i - Len(q)]
  BY FlippedElements
<1> HIDE DEF r
<1>2. Len(q) \in Nat /\ Len(u) \in Nat /\ (q = <<>> <=> Len(q) = 0)
  OBVIOUS
<1>3. first = IF Len(q) = 0 THEN from ELSE q[Len(q)]
  BY <1>2 DEF Last
<1> HIDE DEF first
<1>4. Linked(nn, u, from)
  BY LinkedFrame
<1>5. /\ from = IF Len(u) = 0 THEN Null ELSE u[1]
      /\ \A i \in 1..Len(u) : nn[u[i]] = IF i < Len(u) THEN u[i + 1] ELSE Null
  BY <1>4, LinkedFacts
<1>6. first = IF Len(r) = 0 THEN Null ELSE r[1]
  <2>1. CASE Len(q) = 0
    <3>1. first = from /\ Len(r) = Len(u) /\ (Len(r) # 0 => r[1] = u[1])
      BY <2>1, <1>1, <1>2, <1>3
    <3> QED BY <3>1, <1>5
  <2>2. CASE Len(q) # 0
    <3>1. first = q[Len(q)] /\ Len(r) # 0 /\ 1 \in 1..Len(r) /\ 1 <= Len(q)
          /\ Len(q) - 1 + 1 = Len(q)
      BY <2>2, <1>1, <1>2, <1>3
    <3> QED BY <3>1, <1>1
  <2> QED BY <2>1, <2>2
<1>7. ASSUME NEW i \in 1..Len(r)
      PROVE  nn[r[i]] = IF i < Len(r) THEN r[i + 1] ELSE Null
  <2>1. CASE i < Len(q)
    <3> DEFINE j == Len(q) - i + 1
    <3>1. /\ j \in 1..Len(q) /\ j # 1 /\ i < Len(r) /\ i + 1 \in 1..Len(r) /\ i + 1 <= Len(q)
          /\ Len(q) - (i + 1) + 1 = j - 1 /\ i <= Len(q)
      BY <2>1, <1>1, <1>2
    <3>2. r[i] = q[j] /\ r[i + 1] = q[j - 1]
      BY <3>1, <1>1
    <3> HIDE DEF j
    <3> QED BY <3>1, <3>2
  <2>2. CASE i = Len(q)
    <3>1. r[i] = q[1] /\ 1 \in 1..Len(q)
      <4>1. i <= Len(q) /\ Len(q) - i + 1 = 1 /\ 1 \in 1..Len(q)
        BY <2>2, <1>1, <1>2
      <4> QED BY <4>1, <1>1
    <3>2. nn[r[i]] = from
      BY <3>1
    <3>3. i < Len(r) <=> Len(u) # 0
      BY <2>2, <1>1, <1>2
    <3>4. i < Len(r) => r[i + 1] = u[1]
      <4>1. i < Len(r) => i + 1 \in 1..Len(r) /\ ~(i + 1 <= Len(q)) /\ i + 1 - Len(q) = 1
        BY <2>2, <1>1, <1>2
      <4> QED BY <4>1, <1>1
    <3> QED BY <3>2, <3>3, <3>4, <1>5
  <2>3. CASE i > Len(q)
    <3> DEFINE j == i - Len(q)
    <3>1. j \in 1..Len(u) /\ (j < Len(u) <=> i < Len(r)) /\ ~(i <= Len(q))
      BY <2>3, <1>1, <1>2
    <3>2. i < Len(r) => i + 1 \in 1..Len(r) /\ ~(i + 1 <= Len(q)) /\ i + 1 - Len(q) = j + 1
      BY <2>3, <1>1, <1>2
    <3>3. r[i] = u[j] /\ (i < Len(r) => r[i + 1] = u[j + 1])
      BY <3>1, <3>2, <1>1
    <3> HIDE DEF j
    <3> QED BY <3>1, <3>3, <1>5
  <2>4. i < Len(q) \/ i = Len(q) \/ i > Len(q)
    BY <1>1, <1>2
  <2> QED BY <2>1, <2>2, <2>3, <2>4
<1>8. Linked(nn, r, first)
  BY <1>1, <1>6, <1>7, LinkedFacts
<1> QED BY <1>8 DEF r, first

-----------------------------------------------------------------------------
(* Who has which node *)

Hands == [Thread -> Node \cup {Null}]

\* the threads that copy
Copying(h) == {t \in Thread : h[t] # Null}

\* each node has one place
OnePlace(q, u, h) ==
  /\ ToSet(q) \cap ToSet(u) = {}
  /\ \A t \in Copying(h) : h[t] \notin ToSet(q) /\ h[t] \notin ToSet(u)
  /\ \A t, v \in Copying(h) : t # v => h[t] # h[v]

EachPlaced(q, u, h) ==
  \A n \in Node : n \in ToSet(q) \/ n \in ToSet(u) \/ \E t \in Thread : h[t] = n

\* The parts of Shared.
LEMMA SharedFacts ==
  ASSUME NEW q \in Seq(Node), NEW u \in Seq(Node), NEW h \in Hands
  PROVE  Shared(q, u, h) <=>
           /\ IsInjective(q) /\ IsInjective(u) /\ OnePlace(q, u, h) /\ EachPlaced(q, u, h)
           /\ Len(q) + Len(u) + Cardinality(Copying(h)) = Cardinality(Node)
<1> DEFINE hands == {h[t] : t \in Copying(h)}
<1>1. ToSet(q) \subseteq Node /\ ToSet(u) \subseteq Node
  BY HeadLemma
<1>2. hands \subseteq Node
  BY DEF Hands, Copying
<1>3. Shared(q, u, h) <=>
        /\ IsInjective(q) /\ IsInjective(u)
        /\ \A t, v \in Copying(h) : t # v => h[t] # h[v]
        /\ ToSet(q) \cap ToSet(u) = {} /\ (ToSet(q) \cup ToSet(u)) \cap hands = {}
        /\ ToSet(q) \cup ToSet(u) \cup hands = Node
        /\ Len(q) + Len(u) + Cardinality(Copying(h)) = Cardinality(Node)
  BY DEF Shared, Copying
<1>4. (ToSet(q) \cup ToSet(u)) \cap hands = {} <=>
        \A t \in Copying(h) : h[t] \notin ToSet(q) /\ h[t] \notin ToSet(u)
  OBVIOUS
<1>5. ToSet(q) \cup ToSet(u) \cup hands = Node <=> EachPlaced(q, u, h)
  <2>1. \A n \in Node : n \in hands <=> \E t \in Thread : h[t] = n
    BY DEF Copying
  <2> HIDE DEF hands
  <2> QED BY <1>1, <1>2, <2>1 DEF EachPlaced
<1> HIDE DEF hands
<1> QED BY <1>3, <1>4, <1>5 DEF OnePlace

\* Both lists are alike.
LEMMA SharedSym ==
  ASSUME NEW q \in Seq(Node), NEW u \in Seq(Node), NEW h \in Hands, Shared(q, u, h)
  PROVE  Shared(u, q, h)
<1>1. /\ IsInjective(q) /\ IsInjective(u) /\ OnePlace(q, u, h) /\ EachPlaced(q, u, h)
      /\ Len(q) + Len(u) + Cardinality(Copying(h)) = Cardinality(Node)
  BY SharedFacts
<1>2. OnePlace(u, q, h) /\ EachPlaced(u, q, h)
  BY <1>1 DEF OnePlace, EachPlaced
<1>3. Len(q) + Len(u) = Len(u) + Len(q)
  OBVIOUS
<1> QED BY <1>1, <1>2, <1>3, SharedFacts

\* No list is longer than there are nodes.
LEMMA SharedSize ==
  ASSUME NEW q \in Seq(Node), NEW u \in Seq(Node), NEW h \in Hands, Shared(q, u, h)
  PROVE  /\ Len(q) \in Nat /\ Len(q) <= Cardinality(Node)
         /\ Len(u) \in Nat /\ Len(u) <= Cardinality(Node)
<1>1. Len(q) + Len(u) + Cardinality(Copying(h)) = Cardinality(Node)
  BY SharedFacts
<1>2. IsFiniteSet(Copying(h))
  BY FS_Subset DEF Copying
<1>3. Cardinality(Copying(h)) \in Nat
  BY <1>2, FS_CardinalityType
<1>4. Len(q) \in Nat /\ Len(u) \in Nat
  OBVIOUS
<1> QED BY <1>1, <1>3, <1>4, NodeCount

\* A node is in the hands of t before or after a step, g with it and h without.
Handed(g, h, t, n) ==
  /\ g \in Hands /\ h \in Hands /\ g[t] = n /\ h[t] = Null
  /\ \A v \in Thread : v # t => g[v] = h[v]

LEMMA HandedCount ==
  ASSUME NEW g, NEW h, NEW t \in Thread, NEW n \in Node, Handed(g, h, t, n)
  PROVE  /\ Cardinality(Copying(g)) = Cardinality(Copying(h)) + 1
         /\ Cardinality(Copying(h)) \in Nat
<1>1. t \notin Copying(h) /\ Copying(g) = Copying(h) \cup {t}
  BY DEF Handed, Copying
<1>2. IsFiniteSet(Copying(h))
  BY FS_Subset DEF Copying
<1> QED BY <1>1, <1>2, FS_AddElement, FS_CardinalityType

\* A thread gives the node in its hands to a list.
LEMMA SharedGive ==
  ASSUME NEW q \in Seq(Node), NEW r \in Seq(Node), NEW u \in Seq(Node), NEW g, NEW h,
         NEW t \in Thread, NEW n \in Node, Handed(g, h, t, n), Shared(q, u, g),
         IsInjective(r), ToSet(r) = ToSet(q) \cup {n}, Len(r) = Len(q) + 1
  PROVE  Shared(r, u, h)
<1>1. g \in Hands /\ h \in Hands
  BY DEF Handed
<1>2. /\ IsInjective(q) /\ IsInjective(u) /\ OnePlace(q, u, g) /\ EachPlaced(q, u, g)
      /\ Len(q) + Len(u) + Cardinality(Copying(g)) = Cardinality(Node)
  BY <1>1, SharedFacts
<1>3. t \in Copying(g) /\ g[t] = n /\ \A v \in Copying(h) : v # t /\ v \in Copying(g) /\ g[v] = h[v]
  BY DEF Handed, Copying
<1>4. OnePlace(r, u, h)
  <2>1. ToSet(r) \cap ToSet(u) = {}
    BY <1>2, <1>3 DEF OnePlace
  <2>2. ASSUME NEW v \in Copying(h)
        PROVE  h[v] \notin ToSet(r) /\ h[v] \notin ToSet(u)
    BY <1>2, <1>3 DEF OnePlace
  <2>3. \A v, w \in Copying(h) : v # w => h[v] # h[w]
    BY <1>2, <1>3 DEF OnePlace
  <2> QED BY <2>1, <2>2, <2>3 DEF OnePlace
<1>5. EachPlaced(r, u, h)
  <2> SUFFICES ASSUME NEW m \in Node, m \notin ToSet(r), m \notin ToSet(u)
               PROVE  \E v \in Thread : h[v] = m
    BY DEF EachPlaced
  <2>1. PICK v \in Thread : g[v] = m
    BY <1>2 DEF EachPlaced
  <2>2. v # t
    BY <2>1, <1>3
  <2> QED BY <2>1, <2>2 DEF Handed
<1>6. Len(r) + Len(u) + Cardinality(Copying(h)) = Cardinality(Node)
  <2>1. Len(q) \in Nat /\ Len(u) \in Nat
    OBVIOUS
  <2> QED BY <2>1, <1>2, HandedCount
<1> QED BY <1>1, <1>2, <1>4, <1>5, <1>6, SharedFacts

\* A thread takes a node from a list.
LEMMA SharedTake ==
  ASSUME NEW q \in Seq(Node), NEW r \in Seq(Node), NEW u \in Seq(Node), NEW g, NEW h,
         NEW t \in Thread, NEW n \in Node, Handed(g, h, t, n), Shared(r, u, h),
         IsInjective(q), n \in ToSet(r), ToSet(q) = ToSet(r) \ {n}, Len(q) = Len(r) - 1
  PROVE  Shared(q, u, g)
<1>1. g \in Hands /\ h \in Hands
  BY DEF Handed
<1>2. /\ IsInjective(r) /\ IsInjective(u) /\ OnePlace(r, u, h) /\ EachPlaced(r, u, h)
      /\ Len(r) + Len(u) + Cardinality(Copying(h)) = Cardinality(Node)
  BY <1>1, SharedFacts
<1>3. g[t] = n /\ \A v \in Copying(g) : v # t => v \in Copying(h) /\ g[v] = h[v]
  BY DEF Handed, Copying
<1>4. OnePlace(q, u, g)
  <2>1. ToSet(q) \cap ToSet(u) = {}
    BY <1>2 DEF OnePlace
  <2>2. ASSUME NEW v \in Copying(g)
        PROVE  g[v] \notin ToSet(q) /\ g[v] \notin ToSet(u)
    BY <1>2, <1>3 DEF OnePlace
  <2>3. ASSUME NEW v \in Copying(g), NEW w \in Copying(g), v # w
        PROVE  g[v] # g[w]
    BY <1>2, <1>3, <2>3 DEF OnePlace
  <2> QED BY <2>1, <2>2, <2>3 DEF OnePlace
<1>5. EachPlaced(q, u, g)
  <2> SUFFICES ASSUME NEW m \in Node, m \notin ToSet(q), m \notin ToSet(u)
               PROVE  \E v \in Thread : g[v] = m
    BY DEF EachPlaced
  <2>1. CASE m = n
    BY <2>1, <1>3
  <2>2. CASE m # n
    <3>1. PICK v \in Thread : h[v] = m
      BY <1>2, <2>2 DEF EachPlaced
    <3>2. v # t
      BY <3>1 DEF Handed
    <3> QED BY <3>1, <3>2 DEF Handed
  <2> QED BY <2>1, <2>2
<1>6. Len(q) + Len(u) + Cardinality(Copying(g)) = Cardinality(Node)
  <2>1. Len(r) \in Nat /\ Len(u) \in Nat
    OBVIOUS
  <2> QED BY <2>1, <1>2, HandedCount
<1> QED BY <1>1, <1>2, <1>4, <1>5, <1>6, SharedFacts

\* Nodes go from one list to the other.
LEMMA SharedMove ==
  ASSUME NEW q \in Seq(Node), NEW u \in Seq(Node), NEW r \in Seq(Node), NEW v \in Seq(Node),
         NEW h \in Hands, Shared(q, u, h), IsInjective(r), IsInjective(v),
         ToSet(r) \cap ToSet(v) = {}, ToSet(r) \cup ToSet(v) = ToSet(q) \cup ToSet(u),
         Len(r) + Len(v) = Len(q) + Len(u)
  PROVE  Shared(r, v, h)
<1>1. /\ IsInjective(q) /\ IsInjective(u) /\ OnePlace(q, u, h) /\ EachPlaced(q, u, h)
      /\ Len(q) + Len(u) + Cardinality(Copying(h)) = Cardinality(Node)
  BY SharedFacts
<1>2. OnePlace(r, v, h) /\ EachPlaced(r, v, h)
  BY <1>1 DEF OnePlace, EachPlaced
<1> QED BY <1>1, <1>2, SharedFacts

\* What is left when the first of a list is taken.
LEMMA TailLemma ==
  ASSUME NEW T, NEW s \in Seq(T), s # <<>>, IsInjective(s)
  PROVE  /\ Tail(s) \in Seq(T) /\ Len(Tail(s)) = Len(s) - 1 /\ IsInjective(Tail(s))
         /\ Head(s) \in ToSet(s) /\ ToSet(Tail(s)) = ToSet(s) \ {Head(s)}
         /\ Head(s) = s[1]
<1> DEFINE r == Tail(s)
<1>1. /\ r \in Seq(T) /\ Len(r) = Len(s) - 1
      /\ \A i \in 1..(Len(s) - 1) : r[i] = s[i + 1]
  BY TailElements
<1>2. Len(s) \in Nat \ {0} /\ Head(s) = s[1] /\ DOMAIN s = 1..Len(s) /\ DOMAIN r = 1..(Len(s) - 1)
  BY <1>1
<1> HIDE DEF r
<1>3. \A i, j \in 1..Len(s) : s[i] = s[j] => i = j
  BY <1>2 DEF IsInjective
<1>4. ASSUME NEW i \in 1..(Len(s) - 1)
      PROVE  i + 1 \in 1..Len(s) /\ r[i] = s[i + 1]
  BY <1>1, <1>2
<1>5. IsInjective(r)
  <2>1. ASSUME NEW i \in 1..(Len(s) - 1), NEW j \in 1..(Len(s) - 1), r[i] = r[j]
        PROVE  i = j
    <3>1. i + 1 = j + 1
      BY <1>3, <1>4, <2>1
    <3> QED BY <3>1
  <2> QED BY <1>2, <2>1 DEF IsInjective
<1>6. ToSet(r) = ToSet(s) \ {s[1]}
  <2>1. ASSUME NEW x \in ToSet(r) PROVE x \in ToSet(s) \ {s[1]}
    <3>1. PICK i \in 1..(Len(s) - 1) : x = r[i]
      BY <1>2 DEF ToSet
    <3>2. i + 1 \in 1..Len(s) /\ x = s[i + 1] /\ i + 1 # 1 /\ 1 \in 1..Len(s)
      BY <1>2, <1>4, <3>1
    <3>3. s[i + 1] # s[1]
      BY <1>3, <3>2
    <3> QED BY <1>2, <3>2, <3>3 DEF ToSet
  <2>2. ASSUME NEW x \in ToSet(s), x # s[1] PROVE x \in ToSet(r)
    <3>1. PICK j \in 1..Len(s) : x = s[j]
      BY <1>2 DEF ToSet
    <3>2. j # 1
      BY <2>2, <3>1
    <3>3. j - 1 \in 1..(Len(s) - 1) /\ (j - 1) + 1 = j
      BY <1>2, <3>2
    <3>4. r[j - 1] = x
      BY <1>4, <3>1, <3>3
    <3> QED BY <1>2, <3>3, <3>4 DEF ToSet
  <2> QED BY <2>1, <2>2
<1>7. s[1] \in ToSet(s)
  BY <1>2 DEF ToSet
<1> QED BY <1>1, <1>2, <1>5, <1>6, <1>7 DEF r

-----------------------------------------------------------------------------
(* The messages in a list *)

Content == Message \cup {NoMessage}
Filling == [Node -> Content]

Contents(dt, q) == [i \in 1..Len(q) |-> dt[q[i]]]

LEMMA ContentsFacts ==
  ASSUME NEW dt \in Filling, NEW q \in Seq(Node)
  PROVE  /\ Contents(dt, q) \in Seq(Content) /\ Len(Contents(dt, q)) = Len(q)
         /\ \A i \in 1..Len(q) : Contents(dt, q)[i] = dt[q[i]]
<1> DEFINE c == Contents(dt, q)
<1>1. Len(q) \in Nat /\ \A i \in 1..Len(q) : q[i] \in Node
  OBVIOUS
<1>2. \A i \in 1..Len(q) : c[i] = dt[q[i]] /\ c[i] \in Content
  BY <1>1 DEF Filling, Contents
<1>3. c = [i \in 1..Len(q) |-> c[i]]
  BY DEF Contents
<1> HIDE DEF c
<1>4. c \in Seq(Content) /\ Len(c) = Len(q)
  BY <1>1, <1>2, <1>3, SeqByIndex
<1> QED BY <1>2, <1>4 DEF c

\* Only the messages of the nodes of a list matter.
LEMMA ContentsFrame ==
  ASSUME NEW dt \in Filling, NEW dd \in Filling, NEW q \in Seq(Node),
         \A n \in ToSet(q) : dd[n] = dt[n]
  PROVE  Contents(dd, q) = Contents(dt, q)
<1>1. \A i \in 1..Len(q) : q[i] \in ToSet(q)
  BY DEF ToSet
<1>2. \A i \in 1..Len(q) : dd[q[i]] = dt[q[i]]
  BY <1>1
<1> QED BY <1>2 DEF Contents

LEMMA ContentsBack ==
  ASSUME NEW dt \in Filling, NEW q \in Seq(Node), NEW n \in Node
  PROVE  Contents(dt, Append(q, n)) = Append(Contents(dt, q), dt[n])
<1> DEFINE r == Append(q, n)
           c == Contents(dt, q)
           d == Contents(dt, r)
           e == Append(c, dt[n])
<1>1. /\ r \in Seq(Node) /\ Len(r) = Len(q) + 1
      /\ \A i \in 1..(Len(q) + 1) : r[i] = IF i <= Len(q) THEN q[i] ELSE n
  BY AppendElements
<1> HIDE DEF r
<1>2. /\ c \in Seq(Content) /\ Len(c) = Len(q) /\ \A i \in 1..Len(q) : c[i] = dt[q[i]]
      /\ d \in Seq(Content) /\ Len(d) = Len(r) /\ \A i \in 1..Len(r) : d[i] = dt[r[i]]
  BY <1>1, ContentsFacts
<1>3. dt[n] \in Content
  BY DEF Filling
<1> HIDE DEF c, d
<1>4. /\ e \in Seq(Content) /\ Len(e) = Len(c) + 1
      /\ \A i \in 1..(Len(c) + 1) : e[i] = IF i <= Len(c) THEN c[i] ELSE dt[n]
  BY <1>2, <1>3, AppendElements
<1> HIDE DEF e
<1>5. Len(q) \in Nat
  OBVIOUS
<1>6. ASSUME NEW i \in 1..Len(d)
      PROVE  d[i] = e[i]
  <2>1. CASE i <= Len(q)
    BY <2>1, <1>1, <1>2, <1>4, <1>5
  <2>2. CASE ~(i <= Len(q))
    BY <2>2, <1>1, <1>2, <1>4, <1>5
  <2> QED BY <2>1, <2>2
<1>7. Len(d) = Len(e)
  BY <1>1, <1>2, <1>4
<1>8. d = e
  BY <1>2, <1>4, <1>6, <1>7, SameSeq
<1> QED BY <1>8 DEF c, d, e, r

LEMMA ContentsFront ==
  ASSUME NEW dt \in Filling, NEW q \in Seq(Node), NEW n \in Node
  PROVE  Contents(dt, <<n>> \o q) = <<dt[n]>> \o Contents(dt, q)
<1> DEFINE r == <<n>> \o q
           c == Contents(dt, q)
           d == Contents(dt, r)
           e == <<dt[n]>> \o c
<1>1. /\ r \in Seq(Node) /\ Len(r) = Len(q) + 1
      /\ \A i \in 1..(Len(q) + 1) : r[i] = IF i = 1 THEN n ELSE q[i - 1]
  BY FrontElements
<1> HIDE DEF r
<1>2. /\ c \in Seq(Content) /\ Len(c) = Len(q) /\ \A i \in 1..Len(q) : c[i] = dt[q[i]]
      /\ d \in Seq(Content) /\ Len(d) = Len(r) /\ \A i \in 1..Len(r) : d[i] = dt[r[i]]
  BY <1>1, ContentsFacts
<1>3. dt[n] \in Content
  BY DEF Filling
<1> HIDE DEF c, d
<1>4. /\ e \in Seq(Content) /\ Len(e) = Len(c) + 1
      /\ \A i \in 1..(Len(c) + 1) : e[i] = IF i = 1 THEN dt[n] ELSE c[i - 1]
  BY <1>2, <1>3, FrontElements
<1> HIDE DEF e
<1>5. Len(q) \in Nat
  OBVIOUS
<1>6. ASSUME NEW i \in 1..Len(d)
      PROVE  d[i] = e[i]
  <2>1. CASE i = 1
    BY <2>1, <1>1, <1>2, <1>4, <1>5
  <2>2. CASE i # 1
    <3>1. i - 1 \in 1..Len(q) /\ i \in 1..(Len(q) + 1)
      BY <2>2, <1>1, <1>2, <1>5
    <3>2. d[i] = dt[q[i - 1]] /\ e[i] = c[i - 1]
      BY <2>2, <3>1, <1>1, <1>2, <1>4
    <3> QED BY <3>1, <3>2, <1>2
  <2> QED BY <2>1, <2>2
<1>7. Len(d) = Len(e)
  BY <1>1, <1>2, <1>4
<1>8. d = e
  BY <1>2, <1>4, <1>6, <1>7, SameSeq
<1> QED BY <1>8 DEF c, d, e, r

LEMMA ContentsTail ==
  ASSUME NEW dt \in Filling, NEW q \in Seq(Node), q # <<>>
  PROVE  /\ Contents(dt, q) # <<>> /\ Head(Contents(dt, q)) = dt[Head(q)]
         /\ Contents(dt, Tail(q)) = Tail(Contents(dt, q))
<1> DEFINE r == Tail(q)
           c == Contents(dt, q)
           d == Contents(dt, r)
           e == Tail(c)
<1>1. /\ r \in Seq(Node) /\ Len(r) = Len(q) - 1
      /\ \A i \in 1..(Len(q) - 1) : r[i] = q[i + 1]
  BY TailElements
<1> HIDE DEF r
<1>2. /\ c \in Seq(Content) /\ Len(c) = Len(q) /\ \A i \in 1..Len(q) : c[i] = dt[q[i]]
      /\ d \in Seq(Content) /\ Len(d) = Len(r) /\ \A i \in 1..Len(r) : d[i] = dt[r[i]]
  BY <1>1, ContentsFacts
<1> HIDE DEF c, d
<1>3. Len(q) \in Nat \ {0} /\ Head(q) = q[1]
  OBVIOUS
<1>4. c # <<>>
  BY <1>2, <1>3
<1>5. Head(c) = c[1]
  BY <1>2, <1>4
<1>6. Head(c) = dt[Head(q)]
  BY <1>2, <1>3, <1>5
<1>7. /\ e \in Seq(Content) /\ Len(e) = Len(c) - 1
      /\ \A i \in 1..(Len(c) - 1) : e[i] = c[i + 1]
  BY <1>2, <1>4, TailElements
<1> HIDE DEF e
<1>8. ASSUME NEW i \in 1..Len(d)
      PROVE  d[i] = e[i]
  <2>1. i \in 1..(Len(q) - 1) /\ i + 1 \in 1..Len(q)
    BY <1>1, <1>2, <1>3
  <2>2. d[i] = dt[q[i + 1]]
    BY <2>1, <1>1, <1>2
  <2>3. e[i] = dt[q[i + 1]]
    BY <2>1, <1>2, <1>7
  <2> QED BY <2>2, <2>3
<1>9. Len(d) = Len(e)
  BY <1>1, <1>2, <1>7
<1>10. d = e
  BY <1>2, <1>7, <1>8, <1>9, SameSeq
<1> QED BY <1>4, <1>6, <1>10 DEF c, d, e, r

-----------------------------------------------------------------------------
(* The two lists of the queue *)

Queued == Chain(head)
Unused == Chain(free)

\* The account of the wake-ups needs who waits where, and the lists the hands.
Inv == /\ Consistent /\ NoWakeUpLost
       /\ Queued \in Seq(Node) /\ Unused \in Seq(Node)

Nodes == /\ next \in [Node -> Node \cup {Null}] /\ data \in Filling /\ held \in Hands
         /\ head \in Node \cup {Null} /\ tail \in Node \cup {Null} /\ free \in Node \cup {Null}
         /\ entry \in 0..Cardinality(Node)
         /\ Queued \in Seq(Node) /\ Unused \in Seq(Node) /\ NodeOwned

\* what the threads in S hold is left alone
Kept(S) == \A v \in S : held[v] # Null => /\ data'[held[v]] = data[held[v]]
                                          /\ next'[held[v]] = next[held[v]]

LEMMA NodesFacts ==
  ASSUME Nodes
  PROVE  /\ next \in [Node -> Node \cup {Null}] /\ data \in Filling /\ held \in Hands
         /\ Queued \in Seq(Node) /\ Unused \in Seq(Node)
         /\ Linked(next, Queued, head) /\ Linked(next, Unused, free)
         /\ Shared(Queued, Unused, held)
         /\ entry = Len(Queued) /\ entry \in Nat /\ tail = End(Queued)
         /\ IsInjective(Queued) /\ IsInjective(Unused)
         /\ ToSet(Queued) \cap ToSet(Unused) = {}
         /\ \A v \in Thread : held[v] # Null => /\ held[v] \in Node
                                                /\ held[v] \notin ToSet(Queued)
                                                /\ held[v] \notin ToSet(Unused)
         /\ \A v, w \in Thread : held[v] # Null /\ held[v] = held[w] => v = w
<1>1. /\ next \in [Node -> Node \cup {Null}] /\ data \in Filling /\ held \in Hands
      /\ Queued \in Seq(Node) /\ Unused \in Seq(Node)
  BY DEF Nodes
<1>2. /\ Linked(next, Queued, head) /\ Linked(next, Unused, free)
      /\ Shared(Queued, Unused, held)
      /\ entry = Len(Queued) /\ tail = End(Queued)
  BY DEF Nodes, NodeOwned, Queued, Unused, End
<1>3. /\ IsInjective(Queued) /\ IsInjective(Unused) /\ OnePlace(Queued, Unused, held)
  BY <1>1, <1>2, SharedFacts
<1>4. \A v \in Thread : held[v] # Null => held[v] \in Node
  BY <1>1 DEF Hands
<1>5. entry \in Nat
  BY <1>1, <1>2
<1> QED BY <1>1, <1>2, <1>3, <1>4, <1>5 DEF OnePlace, Copying

\* A list of nodes begins and ends with a node, or is empty.
LEMMA ListEnds ==
  ASSUME NEW q \in Seq(Node), NEW nx, NEW from, Linked(nx, q, from)
  PROVE  (from = Null \/ from \in Node) /\ (End(q) = Null \/ End(q) \in Node)
<1>1. from = IF Len(q) = 0 THEN Null ELSE q[1]
  BY LinkedFacts
<1>2. Len(q) # 0 => q[1] \in Node /\ q[Len(q)] \in Node
  OBVIOUS
<1>3. End(q) = IF Len(q) = 0 THEN Null ELSE q[Len(q)]
  BY DEF End, Last
<1> QED BY <1>1, <1>2, <1>3

\* What a step must do to the nodes.
LEMMA NodesStep ==
  ASSUME NEW q \in Seq(Node), NEW u \in Seq(Node),
         next' \in [Node -> Node \cup {Null}], data' \in Filling, held' \in Hands,
         Linked(next', q, head'), Linked(next', u, free'), Shared(q, u, held'),
         entry' = Len(q), tail' = End(q)
  PROVE  Nodes' /\ Queued' = q /\ Unused' = u
<1>1. /\ Len(q) \in Nat /\ Len(q) <= Cardinality(Node)
      /\ Len(u) \in Nat /\ Len(u) <= Cardinality(Node)
  BY SharedSize
<1>2. ChainOf(next', head') = q /\ ChainOf(next', free') = u
  BY <1>1, ChainIs
<1>3. Queued' = q /\ Unused' = u /\ Chain(head)' = q /\ Chain(free)' = u
  BY <1>2 DEF Queued, Unused, Chain
<1>4. head' \in Node \cup {Null} /\ free' \in Node \cup {Null} /\ tail' \in Node \cup {Null}
  BY ListEnds
<1>5. entry' \in 0..Cardinality(Node)
  BY <1>1, NodeCount
<1>6. NodeOwned'
  BY <1>3 DEF NodeOwned, End
<1> QED BY <1>3, <1>4, <1>5, <1>6 DEF Nodes

LEMMA SameNodes ==
  ASSUME Nodes, UNCHANGED mq, held' = held
  PROVE  /\ Nodes' /\ Queued' = Queued /\ Unused' = Unused /\ entry' = entry
         /\ Kept(Thread)
BY DEF Nodes, NodeOwned, mq, Queued, Unused, Chain, Kept

\* The first free node is taken.
LEMMA TakeFreeNodes ==
  ASSUME Nodes, NEW t \in Thread, held[t] = Null, free # Null,
         held' = [held EXCEPT ![t] = free], free' = next[free],
         UNCHANGED <<next, data, head, tail, entry>>
  PROVE  /\ Nodes' /\ Queued' = Queued /\ Len(Unused') = Len(Unused) - 1
         /\ free \in Node /\ Kept(Thread \ {t})
<1> DEFINE u == Tail(Unused)
<1>1. /\ Unused # <<>> /\ free = Head(Unused) /\ u \in Seq(Node)
      /\ Linked(next, u, next[free])
  BY NodesFacts, LinkedTail
<1>2. /\ Len(u) = Len(Unused) - 1 /\ IsInjective(u)
      /\ free \in ToSet(Unused) /\ ToSet(u) = ToSet(Unused) \ {free}
  BY <1>1, NodesFacts, TailLemma
<1> HIDE DEF u
<1>3. free \in Node
  BY <1>2, NodesFacts, HeadLemma
<1>4. Handed(held', held, t, free)
  BY <1>3, NodesFacts DEF Handed, Hands
<1>5. Shared(Queued, u, held')
  <2>1. Shared(Unused, Queued, held)
    BY NodesFacts, SharedSym
  <2>2. Shared(u, Queued, held')
    BY <1>1, <1>2, <1>3, <1>4, <2>1, NodesFacts, SharedTake
  <2> QED BY <1>1, <1>4, <2>2, NodesFacts, SharedSym DEF Handed
<1>6. Nodes' /\ Queued' = Queued /\ Unused' = u
  <2>1. /\ next' \in [Node -> Node \cup {Null}] /\ data' \in Filling /\ held' \in Hands
        /\ entry' = Len(Queued) /\ tail' = End(Queued)
    BY <1>4, NodesFacts DEF Handed
  <2>2. Linked(next', Queued, head') /\ Linked(next', u, free')
    BY <1>1, NodesFacts
  <2> QED BY <1>1, <1>5, <2>1, <2>2, NodesFacts, NodesStep
<1> QED BY <1>2, <1>3, <1>6 DEF Kept

\* the end of what is left when the first of a list is taken
LEMMA EndOfTail ==
  ASSUME NEW q \in Seq(Node), q # <<>>, IsInjective(q)
  PROVE  End(Tail(q)) = IF End(q) = Head(q) THEN Null ELSE End(q)
<1> DEFINE r == Tail(q)
           n == Len(q)
<1>1. /\ r \in Seq(Node) /\ Len(r) = Len(q) - 1
      /\ \A i \in 1..(Len(q) - 1) : r[i] = q[i + 1]
  BY TailElements
<1>2. n \in Nat \ {0} /\ Head(q) = q[1] /\ End(q) = q[n] /\ DOMAIN q = 1..n /\ n = Len(q)
  BY DEF End, Last
<1> HIDE DEF r, n
<1>3. q[n] = q[1] => n = 1
  <2>1. n \in DOMAIN q /\ 1 \in DOMAIN q
    BY <1>2
  <2> QED BY <2>1 DEF IsInjective
<1>4. CASE n = 1
  <2>1. r = <<>>
    BY <1>1, <1>2, <1>4
  <2> QED BY <1>2, <1>4, <2>1 DEF End, r
<1>5. CASE n # 1
  <2>1. r # <<>> /\ Len(r) = n - 1 /\ r[n - 1] = q[n]
    <3>1. n - 1 \in 1..(Len(q) - 1) /\ (n - 1) + 1 = n /\ n - 1 # 0
      BY <1>2, <1>5
    <3> QED BY <1>1, <1>2, <3>1
  <2>2. End(r) = q[n]
    BY <2>1 DEF End, Last
  <2> QED BY <1>2, <1>3, <1>5, <2>2 DEF r
<1> QED BY <1>4, <1>5

\* The first message is taken.
LEMMA TakeHeadNodes ==
  ASSUME Nodes, NEW t \in Thread, held[t] = Null, entry > 0,
         held' = [held EXCEPT ![t] = head], head' = next[head],
         tail' = (IF tail = head THEN Null ELSE tail), entry' = entry - 1,
         UNCHANGED <<next, data, free>>
  PROVE  /\ Nodes' /\ Queued' = Tail(Queued) /\ Unused' = Unused
         /\ Queued # <<>> /\ head = Head(Queued) /\ head \in Node /\ Kept(Thread \ {t})
<1> DEFINE q == Tail(Queued)
<1>0. head # Null
  <2>1. head = IF Len(Queued) = 0 THEN Null ELSE Queued[1]
    BY NodesFacts, LinkedFacts
  <2>2. Len(Queued) # 0 /\ Len(Queued) \in Nat
    BY NodesFacts
  <2>3. Queued[1] \in Node
    BY <2>2, NodesFacts
  <2> QED BY <2>1, <2>2, <2>3
<1>1. /\ Queued # <<>> /\ head = Head(Queued) /\ q \in Seq(Node)
      /\ Linked(next, q, next[head])
  BY <1>0, NodesFacts, LinkedTail
<1>2. /\ Len(q) = Len(Queued) - 1 /\ IsInjective(q)
      /\ head \in ToSet(Queued) /\ ToSet(q) = ToSet(Queued) \ {head}
  BY <1>1, NodesFacts, TailLemma
<1>3. End(q) = tail'
  BY <1>1, NodesFacts, EndOfTail
<1> HIDE DEF q
<1>4. head \in Node
  BY <1>2, NodesFacts, HeadLemma
<1>5. Handed(held', held, t, head)
  BY <1>4, NodesFacts DEF Handed, Hands
<1>6. Shared(q, Unused, held')
  BY <1>1, <1>2, <1>4, <1>5, NodesFacts, SharedTake
<1>7. Nodes' /\ Queued' = q /\ Unused' = Unused
  <2>1. /\ next' \in [Node -> Node \cup {Null}] /\ data' \in Filling /\ held' \in Hands
        /\ entry' = Len(q) /\ tail' = End(q)
    BY <1>2, <1>3, <1>5, NodesFacts DEF Handed
  <2>2. Linked(next', q, head') /\ Linked(next', Unused, free')
    BY <1>1, NodesFacts
  <2> QED BY <1>1, <1>6, <2>1, <2>2, NodesFacts, NodesStep
<1>8. Kept(Thread \ {t})
  BY DEF Kept
<1> QED BY <1>1, <1>4, <1>7, <1>8 DEF q

\* A thread puts the node in its hands at the end of the queue.
LEMMA PutBackNodes ==
  ASSUME Nodes, NEW t \in Thread, NEW n \in Node, held[t] = n, next[n] = Null,
         PutBack(n), entry' = entry + 1, held' = [held EXCEPT ![t] = Null],
         UNCHANGED <<data, free>>
  PROVE  /\ Nodes' /\ Queued' = Append(Queued, n) /\ Unused' = Unused
         /\ Kept(Thread \ {t})
<1> DEFINE q == Append(Queued, n)
<1>1. /\ next' = IF tail # Null THEN [next EXCEPT ![tail] = n] ELSE next
      /\ tail' = n /\ head' = IF head = Null THEN n ELSE head
  BY DEF PutBack
<1>2. /\ q \in Seq(Node) /\ Len(q) = Len(Queued) + 1 /\ End(q) = n
      /\ ToSet(q) = ToSet(Queued) \cup {n} /\ n \notin ToSet(Queued) /\ n \notin ToSet(Unused)
      /\ IsInjective(q)
  <2>1. n \notin ToSet(Queued) /\ n \notin ToSet(Unused)
    BY NodesFacts
  <2>2. /\ q \in Seq(Node) /\ q # <<>> /\ ToSet(q) = ToSet(Queued) \cup {n} /\ IsInjective(q)
    BY <2>1, NodesFacts, AppendLemma
  <2>3. Len(q) = Len(Queued) + 1 /\ q[Len(q)] = n
    BY NodesFacts
  <2> QED BY <2>1, <2>2, <2>3 DEF End, Last
<1>3. /\ Queued # <<>> => End(Queued) \in ToSet(Queued) /\ End(Queued) \in Node
      /\ Queued = <<>> <=> tail = Null
      /\ Queued = <<>> <=> head = Null
  <2>1. Queued # <<>> => Len(Queued) \in 1..Len(Queued) /\ 1 \in 1..Len(Queued)
                         /\ Queued[Len(Queued)] \in Node /\ Queued[1] \in Node
    BY NodesFacts
  <2>2. Queued # <<>> => End(Queued) = Queued[Len(Queued)]
    BY DEF End, Last
  <2>3. Queued # <<>> => End(Queued) \in ToSet(Queued) /\ End(Queued) \in Node
    BY <2>1, <2>2 DEF ToSet
  <2>4. Queued = <<>> => tail = Null
    BY NodesFacts DEF End
  <2>5. head = IF Queued = <<>> THEN Null ELSE Head(Queued)
    BY NodesFacts DEF Linked
  <2>6. Queued # <<>> => Head(Queued) = Queued[1]
    BY NodesFacts
  <2> QED BY <2>1, <2>3, <2>4, <2>5, <2>6, NodesFacts
<1>4. /\ next' \in [Node -> Node \cup {Null}]
      /\ next'[n] = Null /\ (Queued # <<>> => next'[End(Queued)] = n)
      /\ \A m \in Node : m # End(Queued) => next'[m] = next[m]
  <2>1. CASE tail = Null
    BY <1>1, <1>3, <2>1, NodesFacts
  <2>2. CASE tail # Null
    <3>1. next' = [next EXCEPT ![tail] = n] /\ tail \in Node /\ tail # n /\ tail = End(Queued)
      BY <1>1, <1>2, <1>3, <2>2, NodesFacts
    <3> QED BY <3>1, NodesFacts
  <2> QED BY <2>1, <2>2
<1>5. Linked(next', q, head')
  <2>1. Linked(next, Queued, head) /\ IsInjective(Queued) /\ Queued \in Seq(Node)
    BY NodesFacts
  <2>2. \A m \in ToSet(Queued) : m # End(Queued) => next'[m] = next[m]
    BY <1>4, <2>1, HeadLemma
  <2>3. head' = IF Queued = <<>> THEN n ELSE head
    BY <1>1, <1>3
  <2> QED BY <1>4, <2>1, <2>2, <2>3, LinkedBack
<1>6. Linked(next', Unused, free')
  <2>1. \A m \in ToSet(Unused) : m \in Node /\ m # End(Queued)
    <3>1. ToSet(Unused) \subseteq Node
      BY NodesFacts, HeadLemma
    <3>2. End(Queued) \in ToSet(Queued) \/ End(Queued) = Null
      BY <1>3, NodesFacts
    <3> QED BY <3>1, <3>2, NodesFacts
  <2>2. \A m \in ToSet(Unused) : next'[m] = next[m]
    BY <1>4, <2>1
  <2> QED BY <2>2, NodesFacts, LinkedFrame
<1> HIDE DEF q
<1>7. Handed(held, held', t, n)
  BY NodesFacts DEF Handed, Hands
<1>8. Shared(q, Unused, held')
  BY <1>2, <1>7, NodesFacts, SharedGive
<1>9. Nodes' /\ Queued' = q /\ Unused' = Unused
  <2>1. /\ next' \in [Node -> Node \cup {Null}] /\ data' \in Filling /\ held' \in Hands
        /\ entry' = Len(q) /\ tail' = End(q)
    BY <1>1, <1>2, <1>4, <1>7, NodesFacts DEF Handed
  <2> QED BY <1>2, <1>5, <1>6, <1>8, <2>1, NodesFacts, NodesStep
<1>10. Kept(Thread \ {t})
  <2>1. ASSUME NEW v \in Thread, held[v] # Null PROVE next'[held[v]] = next[held[v]]
    <3>1. held[v] \in Node /\ held[v] # End(Queued)
      BY <1>3, <2>1, NodesFacts
    <3> QED BY <1>4, <3>1
  <2> QED BY <2>1 DEF Kept
<1> QED BY <1>9, <1>10 DEF q

\* A thread puts the node in its hands in front of the queue.
LEMMA PutFrontNodes ==
  ASSUME Nodes, NEW t \in Thread, NEW n \in Node, held[t] = n,
         PutFront(n), entry' = entry + 1, held' = [held EXCEPT ![t] = Null],
         UNCHANGED <<data, free>>
  PROVE  /\ Nodes' /\ Queued' = <<n>> \o Queued /\ Unused' = Unused
         /\ Kept(Thread \ {t})
<1> DEFINE q == <<n>> \o Queued
<1>1. /\ next' = [next EXCEPT ![n] = head]
      /\ head' = n /\ tail' = IF tail = Null THEN n ELSE tail
  BY DEF PutFront
<1>2. n \notin ToSet(Queued) /\ n \notin ToSet(Unused)
  BY NodesFacts
<1>3. /\ q \in Seq(Node) /\ Len(q) = Len(Queued) + 1
      /\ ToSet(q) = ToSet(Queued) \cup {n} /\ IsInjective(q)
  <2>1. /\ Cons(n, Queued) \in Seq(Node) /\ ToSet(Cons(n, Queued)) = ToSet(Queued) \cup {n}
        /\ IsInjective(Cons(n, Queued))
    BY <1>2, NodesFacts, ConsLemma
  <2>2. Cons(n, Queued) = q
    BY DEF Cons
  <2>3. Len(q) = Len(Queued) + 1
    BY NodesFacts, FrontElements
  <2> HIDE DEF q
  <2> QED BY <2>1, <2>2, <2>3
<1>4. End(q) = tail'
  <2>1. \A i \in 1..(Len(Queued) + 1) : q[i] = IF i = 1 THEN n ELSE Queued[i - 1]
    BY NodesFacts, FrontElements
  <2> HIDE DEF q
  <2>2. Len(Queued) \in Nat
    BY NodesFacts
  <2>3. End(q) = q[Len(Queued) + 1]
    <3>1. q # <<>>
      BY <1>3, <2>2
    <3> QED BY <1>3, <3>1 DEF End, Last
  <2>4. CASE Queued = <<>>
    <3>1. Len(Queued) = 0 /\ tail = Null
      BY <2>4, NodesFacts DEF End
    <3> QED BY <1>1, <2>1, <2>3, <3>1
  <2>5. CASE Queued # <<>>
    <3>1. Len(Queued) # 0 /\ Len(Queued) + 1 \in 1..(Len(Queued) + 1) /\ Len(Queued) + 1 # 1
          /\ (Len(Queued) + 1) - 1 = Len(Queued)
      BY <2>2, <2>5, NodesFacts
    <3>2. q[Len(Queued) + 1] = Queued[Len(Queued)]
      BY <2>1, <3>1
    <3>3. tail = Queued[Len(Queued)]
      BY <2>5, NodesFacts DEF End, Last
    <3>4. Queued[Len(Queued)] \in Node
      BY <2>5, NodesFacts
    <3> QED BY <1>1, <2>3, <3>2, <3>3, <3>4
  <2> QED BY <2>4, <2>5
<1>5. /\ next' \in [Node -> Node \cup {Null}] /\ next'[n] = head
      /\ \A m \in Node : m # n => next'[m] = next[m]
  <2>1. head \in Node \cup {Null}
    BY DEF Nodes
  <2> QED BY <1>1, <2>1, NodesFacts
<1>6. ToSet(Queued) \subseteq Node /\ ToSet(Unused) \subseteq Node
  BY NodesFacts, HeadLemma
<1>7. Linked(next', q, head')
  <2>1. \A m \in ToSet(Queued) : next'[m] = next[m]
    BY <1>2, <1>5, <1>6
  <2>2. Linked(next', q, n)
    BY <1>5, <2>1, NodesFacts, LinkedFront
  <2> QED BY <1>1, <2>2
<1>8. Linked(next', Unused, free')
  <2>1. \A m \in ToSet(Unused) : next'[m] = next[m]
    BY <1>2, <1>5, <1>6
  <2> QED BY <2>1, NodesFacts, LinkedFrame
<1> HIDE DEF q
<1>9. Handed(held, held', t, n)
  BY NodesFacts DEF Handed, Hands
<1>10. Shared(q, Unused, held')
  BY <1>3, <1>9, NodesFacts, SharedGive
<1>11. Nodes' /\ Queued' = q /\ Unused' = Unused
  <2>1. /\ next' \in [Node -> Node \cup {Null}] /\ data' \in Filling /\ held' \in Hands
        /\ entry' = Len(q) /\ tail' = End(q)
    BY <1>3, <1>4, <1>5, <1>9, NodesFacts DEF Handed
  <2> QED BY <1>3, <1>7, <1>8, <1>10, <2>1, NodesFacts, NodesStep
<1>12. Kept(Thread \ {t})
  <2>1. ASSUME NEW v \in Thread, v # t, held[v] # Null PROVE next'[held[v]] = next[held[v]]
    <3>1. held[v] \in Node /\ held[v] # n
      BY <2>1, NodesFacts
    <3> QED BY <1>5, <3>1
  <2> QED BY <2>1 DEF Kept
<1> QED BY <1>11, <1>12 DEF q

\* a node becomes the first free one
Filed(n) == /\ next' = [next EXCEPT ![n] = free] /\ free' = n
            /\ data' = [data EXCEPT ![n] = NoMessage]

\* A thread puts the node in its hands in front of the free list.
LEMMA FreeNodes ==
  ASSUME Nodes, NEW t \in Thread, NEW n \in Node, held[t] = n, Filed(n),
         held' = [held EXCEPT ![t] = Null], UNCHANGED <<head, tail, entry>>
  PROVE  /\ Nodes' /\ Queued' = Queued /\ Len(Unused') = Len(Unused) + 1
         /\ Kept(Thread \ {t}) /\ Contents(data', Queued) = Contents(data, Queued)
<1> DEFINE u == <<n>> \o Unused
<1>1. n \notin ToSet(Queued) /\ n \notin ToSet(Unused)
  BY NodesFacts
<1>2. /\ u \in Seq(Node) /\ Len(u) = Len(Unused) + 1
      /\ ToSet(u) = ToSet(Unused) \cup {n} /\ IsInjective(u)
  <2>1. /\ Cons(n, Unused) \in Seq(Node) /\ ToSet(Cons(n, Unused)) = ToSet(Unused) \cup {n}
        /\ IsInjective(Cons(n, Unused))
    BY <1>1, NodesFacts, ConsLemma
  <2>2. Cons(n, Unused) = u
    BY DEF Cons
  <2>3. Len(u) = Len(Unused) + 1
    BY NodesFacts, FrontElements
  <2> HIDE DEF u
  <2> QED BY <2>1, <2>2, <2>3
<1>3. /\ next' \in [Node -> Node \cup {Null}] /\ next'[n] = free
      /\ \A m \in Node : m # n => next'[m] = next[m]
  <2>1. free \in Node \cup {Null}
    BY DEF Nodes
  <2> QED BY <2>1, NodesFacts DEF Filed
<1>4. /\ data' \in Filling /\ \A m \in Node : m # n => data'[m] = data[m]
  BY NodesFacts DEF Filling, Content, Filed
<1>5. ToSet(Queued) \subseteq Node /\ ToSet(Unused) \subseteq Node
  BY NodesFacts, HeadLemma
<1>6. Linked(next', Queued, head')
  <2>1. \A m \in ToSet(Queued) : next'[m] = next[m]
    BY <1>1, <1>3, <1>5
  <2> QED BY <2>1, NodesFacts, LinkedFrame
<1>7. Linked(next', u, free')
  <2>1. \A m \in ToSet(Unused) : next'[m] = next[m]
    BY <1>1, <1>3, <1>5
  <2>2. Linked(next', u, n)
    BY <1>3, <2>1, NodesFacts, LinkedFront
  <2> QED BY <2>2 DEF Filed
<1> HIDE DEF u
<1>8. Handed(held, held', t, n)
  BY NodesFacts DEF Handed, Hands
<1>9. Shared(Queued, u, held')
  <2>1. Shared(Unused, Queued, held)
    BY NodesFacts, SharedSym
  <2>2. Shared(u, Queued, held')
    BY <1>2, <1>8, <2>1, NodesFacts, SharedGive
  <2> QED BY <1>2, <1>8, <2>2, NodesFacts, SharedSym DEF Handed
<1>10. Nodes' /\ Queued' = Queued /\ Unused' = u
  <2>1. held' \in Hands /\ entry' = Len(Queued) /\ tail' = End(Queued)
    BY <1>8, NodesFacts DEF Handed
  <2> QED BY <1>2, <1>3, <1>4, <1>6, <1>7, <1>9, <2>1, NodesFacts, NodesStep
<1>11. Kept(Thread \ {t})
  <2>1. ASSUME NEW v \in Thread, v # t, held[v] # Null
        PROVE  next'[held[v]] = next[held[v]] /\ data'[held[v]] = data[held[v]]
    <3>1. held[v] \in Node /\ held[v] # n
      BY <2>1, NodesFacts
    <3> QED BY <1>3, <1>4, <3>1
  <2> QED BY <2>1 DEF Kept
<1>12. Contents(data', Queued) = Contents(data, Queued)
  <2>1. \A m \in ToSet(Queued) : data'[m] = data[m]
    BY <1>1, <1>4, <1>5
  <2> QED BY <1>4, <2>1, NodesFacts, ContentsFrame
<1> QED BY <1>2, <1>10, <1>11, <1>12

\* only the node n is written
Only(n) == /\ next' \in [Node -> Node \cup {Null}] /\ data' \in Filling
           /\ \A m \in Node : m # n => next'[m] = next[m] /\ data'[m] = data[m]

\* A thread copies into or out of the node in its hands.
LEMMA CopyNodes ==
  ASSUME Nodes, NEW t \in Thread, NEW n \in Node, held[t] = n, Only(n),
         UNCHANGED <<head, tail, free, entry, held>>
  PROVE  /\ Nodes' /\ Queued' = Queued /\ Unused' = Unused
         /\ Kept(Thread \ {t}) /\ Contents(data', Queued) = Contents(data, Queued)
<1>1. n \notin ToSet(Queued) /\ n \notin ToSet(Unused)
  BY NodesFacts
<1>2. ToSet(Queued) \subseteq Node /\ ToSet(Unused) \subseteq Node
  BY NodesFacts, HeadLemma
<1>3. /\ \A m \in ToSet(Queued) : next'[m] = next[m] /\ data'[m] = data[m]
      /\ \A m \in ToSet(Unused) : next'[m] = next[m]
  BY <1>1, <1>2 DEF Only
<1>4. Linked(next', Queued, head') /\ Linked(next', Unused, free')
  BY <1>3, NodesFacts, LinkedFrame
<1>5. Nodes' /\ Queued' = Queued /\ Unused' = Unused
  <2>1. /\ next' \in [Node -> Node \cup {Null}] /\ data' \in Filling /\ held' \in Hands
        /\ entry' = Len(Queued) /\ tail' = End(Queued) /\ Shared(Queued, Unused, held')
    BY NodesFacts DEF Only
  <2> QED BY <1>4, <2>1, NodesFacts, NodesStep
<1>6. Contents(data', Queued) = Contents(data, Queued)
  BY <1>3, NodesFacts, ContentsFrame DEF Only
<1>7. Kept(Thread \ {t})
  <2>1. ASSUME NEW v \in Thread, v # t, held[v] # Null
        PROVE  next'[held[v]] = next[held[v]] /\ data'[held[v]] = data[held[v]]
    <3>1. held[v] \in Node /\ held[v] # n
      BY <2>1, NodesFacts
    <3> QED BY <3>1 DEF Only
  <2> QED BY <2>1 DEF Kept
<1> QED BY <1>5, <1>6, <1>7

\* the first free node goes to the end of the queue with the message v
Passed(v) ==
  /\ data' = [data EXCEPT ![free] = v]
  /\ next' = [n \in Node |-> CASE n = free -> Null
                               [] n = tail -> free
                               [] OTHER    -> next[n]]
  /\ tail' = free
  /\ head' = IF head = Null THEN free ELSE head
  /\ free' = next[free]
  /\ entry' = entry + 1

LEMMA PassNodes ==
  ASSUME Nodes, NEW v \in Message, free # Null, Passed(v), held' = held
  PROVE  /\ Nodes' /\ Queued' = Append(Queued, free) /\ Len(Unused') = Len(Unused) - 1
         /\ Kept(Thread) /\ Contents(data', Queued') = Append(Contents(data, Queued), v)
<1> DEFINE f == free
           q == Append(Queued, f)
           u == Tail(Unused)
<1>1. /\ Unused # <<>> /\ f = Head(Unused) /\ u \in Seq(Node)
      /\ Linked(next, u, next[f])
  BY NodesFacts, LinkedTail
<1>2. /\ Len(u) = Len(Unused) - 1 /\ IsInjective(u)
      /\ f \in ToSet(Unused) /\ ToSet(u) = ToSet(Unused) \ {f}
  BY <1>1, NodesFacts, TailLemma
<1> HIDE DEF u
<1>3. f \in Node /\ ToSet(Queued) \subseteq Node /\ ToSet(Unused) \subseteq Node
  BY <1>2, NodesFacts, HeadLemma
<1>4. /\ tail' = f /\ free' = next[f] /\ head' = (IF head = Null THEN f ELSE head)
      /\ entry' = entry + 1
  BY DEF Passed
<1>5. /\ data' \in Filling /\ data'[f] = v /\ \A m \in Node : m # f => data'[m] = data[m]
  <2>1. v \in Content
    BY DEF Content
  <2> QED BY <1>3, <2>1, NodesFacts DEF Filling, Passed
<1>6. \A m \in Node : next'[m] = IF m = f THEN Null ELSE IF m = tail THEN f ELSE next[m]
  <2> TAKE m \in Node
  <2>1. next'[m] = CASE m = free -> Null
                     [] m = tail -> free
                     [] OTHER    -> next[m]
    BY DEF Passed
  <2>2. free # tail
    <3>1. tail = End(Queued)
      BY NodesFacts
    <3>2. Queued = <<>> => End(Queued) = Null
      BY DEF End
    <3>3. Queued # <<>> => End(Queued) \in ToSet(Queued)
      <4>1. Queued # <<>> => Len(Queued) \in 1..Len(Queued)
        BY NodesFacts
      <4>2. Queued # <<>> => End(Queued) = Queued[Len(Queued)]
        BY DEF End, Last
      <4> QED BY <4>1, <4>2 DEF ToSet
    <3> QED BY <1>2, <3>1, <3>2, <3>3, NodesFacts
  <2> QED BY <2>1, <2>2
<1>7. next' \in [Node -> Node \cup {Null}]
  <2>1. DOMAIN next' = Node /\ next' = [m \in Node |-> next'[m]]
    BY DEF Passed
  <2>2. \A m \in Node : next'[m] \in Node \cup {Null}
    BY <1>3, <1>6, NodesFacts
  <2> HIDE DEF f
  <2> QED BY <2>1, <2>2
<1> HIDE DEF f
<1>8. /\ q \in Seq(Node) /\ Len(q) = Len(Queued) + 1 /\ End(q) = f
      /\ ToSet(q) = ToSet(Queued) \cup {f} /\ f \notin ToSet(Queued) /\ IsInjective(q)
  <2>1. f \notin ToSet(Queued)
    BY <1>2, NodesFacts
  <2>2. q \in Seq(Node) /\ q # <<>> /\ ToSet(q) = ToSet(Queued) \cup {f} /\ IsInjective(q)
    BY <1>3, <2>1, NodesFacts, AppendLemma
  <2>3. Len(q) = Len(Queued) + 1 /\ q[Len(q)] = f
    BY <1>3, NodesFacts
  <2> QED BY <2>1, <2>2, <2>3 DEF End, Last
<1>9. /\ Queued # <<>> => End(Queued) \in ToSet(Queued)
      /\ Queued = <<>> => End(Queued) = Null
      /\ Queued = <<>> <=> head = Null
  <2>1. Queued # <<>> => Len(Queued) \in 1..Len(Queued) /\ 1 \in 1..Len(Queued)
                         /\ Queued[1] \in Node
    BY NodesFacts
  <2>2. Queued # <<>> => End(Queued) = Queued[Len(Queued)]
    BY DEF End, Last
  <2>3. Queued # <<>> => End(Queued) \in ToSet(Queued)
    BY <2>1, <2>2 DEF ToSet
  <2>4. head = IF Queued = <<>> THEN Null ELSE Head(Queued)
    BY NodesFacts DEF Linked
  <2>5. Queued # <<>> => Head(Queued) = Queued[1]
    BY NodesFacts
  <2> QED BY <2>1, <2>3, <2>4, <2>5 DEF End
<1>10. tail = End(Queued)
  BY NodesFacts
<1>11. Linked(next', q, head')
  <2>1. \A m \in ToSet(Queued) : m # End(Queued) => next'[m] = next[m]
    BY <1>3, <1>6, <1>8, <1>10
  <2>2. Queued # <<>> => next'[End(Queued)] = f
    BY <1>3, <1>6, <1>8, <1>9, <1>10
  <2>3. next'[f] = Null
    BY <1>3, <1>6
  <2>4. head' = IF Queued = <<>> THEN f ELSE head
    BY <1>4, <1>9
  <2> QED BY <1>3, <2>1, <2>2, <2>3, <2>4, NodesFacts, LinkedBack
<1>12. Linked(next', u, free')
  <2>1. \A m \in ToSet(u) : m \in Node /\ m # f /\ m # tail
    BY <1>2, <1>3, <1>9, <1>10, NodesFacts
  <2>2. \A m \in ToSet(u) : next'[m] = next[m]
    BY <1>6, <2>1
  <2>3. Linked(next', u, next[f])
    BY <1>1, <2>2, LinkedFrame
  <2> QED BY <1>4, <2>3
<1> HIDE DEF q
<1>13. Shared(q, u, held')
  <2>1. ToSet(q) \cap ToSet(u) = {} /\ ToSet(q) \cup ToSet(u) = ToSet(Queued) \cup ToSet(Unused)
    BY <1>2, <1>8, NodesFacts
  <2>2. Len(q) + Len(u) = Len(Queued) + Len(Unused)
    <3>1. Len(Queued) \in Nat /\ Len(Unused) \in Nat
      BY NodesFacts
    <3> QED BY <1>2, <1>8, <3>1
  <2>3. Shared(q, u, held)
    BY <1>1, <1>2, <1>8, <2>1, <2>2, NodesFacts, SharedMove
  <2> QED BY <2>3
<1>14. Nodes' /\ Queued' = q /\ Unused' = u
  <2>1. held' \in Hands /\ entry' = Len(q) /\ tail' = End(q)
    BY <1>4, <1>8, NodesFacts
  <2> QED BY <1>1, <1>5, <1>7, <1>8, <1>11, <1>12, <1>13, <2>1, NodesStep
<1>15. Kept(Thread)
  <2>1. ASSUME NEW w \in Thread, held[w] # Null
        PROVE  next'[held[w]] = next[held[w]] /\ data'[held[w]] = data[held[w]]
    <3>1. held[w] \in Node /\ held[w] # f /\ held[w] # tail
      BY <1>2, <1>9, <1>10, <2>1, NodesFacts
    <3> QED BY <1>5, <1>6, <3>1
  <2> QED BY <2>1 DEF Kept
<1>16. Contents(data', Queued') = Append(Contents(data, Queued), v)
  <2>1. Contents(data', q) = Append(Contents(data', Queued), data'[f])
    BY <1>3, <1>5, NodesFacts, ContentsBack DEF q
  <2>2. \A m \in ToSet(Queued) : data'[m] = data[m]
    BY <1>3, <1>5, <1>8
  <2>3. Contents(data', Queued) = Contents(data, Queued)
    BY <1>5, <2>2, NodesFacts, ContentsFrame
  <2> QED BY <1>5, <1>14, <2>1, <2>3
<1> QED BY <1>2, <1>14, <1>15, <1>16 DEF q, f

\* rt_mq_control(RT_IPC_CMD_RESET) frees the queued nodes.
LEMMA EmptyNodes ==
  ASSUME Nodes, Emptied, entry' = 0, held' = held,
         data' = [n \in Node |-> IF n \in ToSet(Queued) THEN NoMessage ELSE data[n]]
  PROVE  Nodes' /\ Queued' = <<>> /\ Kept(Thread)
<1> DEFINE q == Queued
           u == Unused
           r == Flipped(q, u)
           before(i) == IF i = 1 THEN free ELSE q[i - 1]
<1>1. /\ next' = [n \in Node |-> IF n \in ToSet(q)
                                 THEN before(CHOOSE i \in DOMAIN q : q[i] = n)
                                 ELSE next[n]]
      /\ free' = (IF q = <<>> THEN free ELSE Last(q))
      /\ head' = Null /\ tail' = (IF tail \in ToSet(q) THEN Null ELSE tail)
  BY DEF Emptied, Queued
<1>2. /\ q \in Seq(Node) /\ u \in Seq(Node) /\ IsInjective(q) /\ IsInjective(u)
      /\ ToSet(q) \cap ToSet(u) = {} /\ Linked(next, u, free)
      /\ next \in [Node -> Node \cup {Null}]
  BY NodesFacts
<1>3. ToSet(q) \subseteq Node /\ ToSet(u) \subseteq Node
  BY <1>2, HeadLemma
<1> HIDE DEF q, u
<1>4. ASSUME NEW i \in 1..Len(q)
      PROVE  q[i] \in ToSet(q) /\ q[i] \in Node /\ next'[q[i]] = before(i)
  <2>1. i \in DOMAIN q /\ q[i] \in ToSet(q) /\ q[i] \in Node
    BY <1>2 DEF ToSet
  <2>2. \A j \in DOMAIN q : q[j] = q[i] => j = i
    BY <1>2, <2>1 DEF IsInjective
  <2>3. (CHOOSE j \in DOMAIN q : q[j] = q[i]) = i
    BY <2>1, <2>2
  <2> HIDE DEF before
  <2>4. next'[q[i]] = before(CHOOSE j \in DOMAIN q : q[j] = q[i])
    BY <1>1, <2>1
  <2> QED BY <2>1, <2>3, <2>4
<1>5. \A m \in Node : m \notin ToSet(q) => next'[m] = next[m]
  BY <1>1
<1>6. next' \in [Node -> Node \cup {Null}]
  <2>1. next' = [m \in Node |-> next'[m]]
    BY <1>1
  <2>2. ASSUME NEW m \in Node PROVE next'[m] \in Node \cup {Null}
    <3>1. CASE m \in ToSet(q)
      <4>1. PICK i \in 1..Len(q) : m = q[i]
        BY <1>2, <3>1 DEF ToSet
      <4>2. before(i) \in Node \cup {Null}
        <5>1. free \in Node \cup {Null}
          BY DEF Nodes
        <5>2. i # 1 => i - 1 \in 1..Len(q)
          BY <1>2
        <5> QED BY <1>4, <5>1, <5>2
      <4> HIDE DEF before
      <4> QED BY <1>4, <4>1, <4>2
    <3>2. CASE m \notin ToSet(q)
      BY <1>2, <1>5, <3>2
    <3> QED BY <3>1, <3>2
  <2> QED BY <2>1, <2>2
<1>7. data' \in Filling /\ \A m \in Node : m \notin ToSet(q) => data'[m] = data[m]
  BY NodesFacts DEF Filling, Content, q
<1>8. Linked(next', r, free')
  <2>1. \A m \in ToSet(u) : next'[m] = next[m]
    BY <1>2, <1>3, <1>5
  <2>2. \A i \in 1..Len(q) : next'[q[i]] = IF i = 1 THEN free ELSE q[i - 1]
    BY <1>4
  <2>3. Linked(next', r, IF q = <<>> THEN free ELSE Last(q))
    BY <1>2, <2>1, <2>2, LinkedFlipped
  <2> QED BY <1>1, <2>3
<1>9. /\ r \in Seq(Node) /\ Len(r) = Len(q) + Len(u)
      /\ ToSet(r) = ToSet(q) \cup ToSet(u) /\ IsInjective(r)
  BY <1>2, FlippedElements, FlippedSet
<1> HIDE DEF r
<1> DEFINE e == <<>>
<1>10. /\ e \in Seq(Node) /\ Len(e) = 0 /\ ToSet(e) = {} /\ IsInjective(e) /\ End(e) = Null
  <2>1. e \in Seq(Node) /\ Len(e) = 0 /\ End(e) = Null
    BY DEF End
  <2> QED BY <2>1, HeadLemma
<1>11. Linked(next', e, head')
  BY <1>1, <1>10 DEF Linked
<1> HIDE DEF e
<1>12. Shared(e, r, held')
  <2>1. Shared(q, u, held) /\ held \in Hands
    BY NodesFacts DEF q, u
  <2>2. /\ ToSet(e) \cap ToSet(r) = {} /\ ToSet(e) \cup ToSet(r) = ToSet(q) \cup ToSet(u)
        /\ Len(e) + Len(r) = Len(q) + Len(u)
    <3>1. Len(q) \in Nat /\ Len(u) \in Nat
      BY <1>2
    <3> QED BY <1>9, <1>10, <3>1
  <2>3. Shared(e, r, held)
    BY <1>2, <1>9, <1>10, <2>1, <2>2, SharedMove
  <2> QED BY <2>3
<1>13. Nodes' /\ Queued' = e /\ Unused' = r
  <2>1. tail' = Null
    <3>1. tail = End(q)
      BY NodesFacts DEF q
    <3>2. q # <<>> => End(q) \in ToSet(q)
      <4>1. q # <<>> => Len(q) \in 1..Len(q)
        BY <1>2
      <4>2. q # <<>> => End(q) = q[Len(q)]
        BY DEF End, Last
      <4> QED BY <1>4, <4>1, <4>2
    <3>3. q = <<>> => End(q) = Null
      BY DEF End
    <3> QED BY <1>1, <3>1, <3>2, <3>3
  <2>2. held' \in Hands /\ entry' = Len(e) /\ tail' = End(e)
    BY <1>10, <2>1, NodesFacts
  <2> QED BY <1>6, <1>7, <1>8, <1>9, <1>10, <1>11, <1>12, <2>2, NodesStep
<1>14. Kept(Thread)
  <2>1. ASSUME NEW w \in Thread, held[w] # Null
        PROVE  next'[held[w]] = next[held[w]] /\ data'[held[w]] = data[held[w]]
    <3>1. held[w] \in Node /\ held[w] \notin ToSet(q)
      BY <2>1, NodesFacts DEF q
    <3> QED BY <1>5, <1>7, <3>1
  <2> QED BY <2>1 DEF Kept
<1> QED BY <1>13, <1>14 DEF e

-----------------------------------------------------------------------------
(* The parts of the invariant *)

InCall(t, o) == IF o = Receivers THEN InRecv(t) ELSE InSend(t)

\* the woken threads that come for a message, or for a node, and what they come for
Coming(o) == {t \in Thread : InCall(t, o) /\ Comes(t)}
Due(o) == IF o = Receivers THEN entry ELSE Len(Unused)
Account(o) == HasWaiter(k, o) => Due(o) <= Cardinality(Coming(o))

WaitsRight == \A t \in Thread, o \in WaitObj : Waits(k, t, o) <=> InCall(t, o) /\ Suspended(k, t)

\* what the hands of t hold, as in InHand
Hand(t) ==
  /\ held[t] # Null <=> pc[t] \in Holding
  /\ InSend(t) \/ pc[t] \in {"copyIn", "append"} => arg[t].msg \in Message
  /\ pc[t] = "append" => /\ data[held[t]] = arg[t].msg
                         /\ ~arg[t].urgent => next[held[t]] = Null

Call == [msg : Message \cup {NoMessage}, urgent : BOOLEAN, timed : BOOLEAN]

Typed == alive \in BOOLEAN /\ arg \in [Thread -> Call] /\ got \in [Thread -> Content]

Parts == /\ k \in Kernel /\ pc \in [Thread -> PC] /\ Nodes /\ Typed
         /\ Orderly(k) /\ Leaves /\ ~InSend(Idle) /\ ~InRecv(Idle)
         /\ \A t \in Thread : Hand(t)
         /\ WaitsRight
         /\ \A o \in WaitObj : Account(o)

LEMMA PartsAre == Parts <=> Inv
<1>1. WaitObj = {Receivers, Senders} /\ Receivers # Senders
  OBVIOUS
<1>2. (\A t \in Thread : Hand(t)) <=> InHand
  BY DEF Hand, InHand
<1>3. WaitsRight <=> \A t \in Thread : /\ Waits(k, t, Receivers) <=> InRecv(t) /\ Suspended(k, t)
                                       /\ Waits(k, t, Senders) <=> InSend(t) /\ Suspended(k, t)
  BY <1>1 DEF WaitsRight, InCall
<1>4. (\A o \in WaitObj : Account(o)) <=> NoWakeUpLost
  <2>1. Account(Receivers) <=>
          (HasWaiter(k, Receivers) =>
             entry <= Cardinality({t \in Thread : InRecv(t) /\ Comes(t)}))
    BY DEF Account, Due, Coming, InCall
  <2>2. Account(Senders) <=>
          (HasWaiter(k, Senders) =>
             Len(Chain(free)) <= Cardinality({t \in Thread : InSend(t) /\ Comes(t)}))
    BY <1>1 DEF Account, Due, Coming, InCall, Unused
  <2>3. (\A o \in WaitObj : Account(o)) <=> Account(Receivers) /\ Account(Senders)
    BY <1>1
  <2> QED BY <2>1, <2>2, <2>3 DEF NoWakeUpLost
<1>5. TypeOK /\ NodeOwned /\ Queued \in Seq(Node) /\ Unused \in Seq(Node)
        <=> k \in Kernel /\ pc \in [Thread -> PC] /\ Nodes /\ Typed
  <2>1. {head, tail, free} \subseteq Node \cup {Null} <=>
          head \in Node \cup {Null} /\ tail \in Node \cup {Null} /\ free \in Node \cup {Null}
    OBVIOUS
  <2> QED BY <2>1 DEF TypeOK, Nodes, Typed, Filling, Content, Hands, Call
<1> QED BY <1>2, <1>3, <1>4, <1>5 DEF Parts, Inv, Consistent

LEMMA InvFacts ==
  ASSUME Inv
  PROVE  /\ Orderly(k) /\ k.cur \in Thread /\ k.error \in [Thread -> Error]
         /\ Receivers \in WaitObj /\ Senders \in WaitObj /\ Receivers # Senders
         /\ WaitObj = {Receivers, Senders}
         /\ pc \in [Thread -> PC] /\ Nodes /\ Typed /\ Leaves
         /\ \A o \in WaitObj : /\ ~InCall(Idle, o) /\ Account(o) /\ Due(o) \in Nat
                               /\ IsFiniteSet(Coming(o)) /\ Cardinality(Coming(o)) \in Nat
         /\ \A t \in Thread : Hand(t)
         /\ WaitsRight
<1>1. Parts
  BY PartsAre
<1>2. Orderly(k) /\ k.cur \in Thread /\ k.error \in [Thread -> Error]
  BY <1>1, OrderlyFacts DEF Parts
<1>3. ASSUME NEW o \in WaitObj
      PROVE  /\ ~InCall(Idle, o) /\ Account(o) /\ Due(o) \in Nat
             /\ IsFiniteSet(Coming(o)) /\ Cardinality(Coming(o)) \in Nat
  <2>1. IsFiniteSet(Coming(o))
    BY FS_Subset DEF Coming
  <2>2. Cardinality(Coming(o)) \in Nat
    BY <2>1, FS_CardinalityType
  <2>3. Due(o) \in Nat
    <3>1. entry \in Nat /\ Unused \in Seq(Node)
      BY <1>1, NodesFacts DEF Parts
    <3> QED BY <3>1 DEF Due
  <2>4. ~InCall(Idle, o)
    BY <1>1 DEF Parts, InCall
  <2> QED BY <1>1, <2>1, <2>2, <2>3, <2>4 DEF Parts
<1> QED BY <1>1, <1>2, <1>3 DEF Parts

-----------------------------------------------------------------------------
(* The threads of a step *)

\* The threads W, all suspended, stop waiting with the error e; the threads X,
\* none of which is, leave their calls; nobody enters one.
Moves(W, e, X) ==
  /\ Orderly(k') /\ pc' \in [Thread -> PC]
  /\ \A o \in WaitObj : ToSet(k'.wait[o]) = ToSet(k.wait[o]) \ W
  /\ \A t \in Thread : t \notin X => k'.error[t] = IF t \in W THEN e ELSE k.error[t]
  /\ \A t \in Thread : Suspended(k', t) <=> Suspended(k, t) /\ t \notin W
  /\ \A t \in W : t \in Thread /\ Suspended(k, t)
  /\ \A t \in X : t \in Thread /\ ~Suspended(k, t)
  /\ \A t \in Thread, o \in WaitObj : InCall(t, o)' <=> InCall(t, o) /\ t \notin X

\* the waiter that is woken of those in the list of o
Woke(o) == IF HasWaiter(k, o) THEN {Head(k.wait[o])} ELSE {}

\* Who comes after a step, and who still waits.
LEMMA MovesLemma ==
  ASSUME Inv, NEW W, NEW e, NEW X, Moves(W, e, X), NEW o \in WaitObj
  PROVE  /\ Coming(o)' = (Coming(o) \ X) \cup {t \in W : e = "EOK" /\ InCall(t, o)}
         /\ HasWaiter(k', o) => HasWaiter(k, o)
         /\ IsFiniteSet(Coming(o)') /\ Cardinality(Coming(o)') \in Nat
         /\ \A t \in Thread : Waits(k', t, o) <=> InCall(t, o)' /\ Suspended(k', t)
<1>1. ASSUME NEW t \in Thread
      PROVE  Waits(k', t, o) <=> Waits(k, t, o) /\ t \notin W
  BY DEF Moves, Waits
<1>2. ASSUME NEW t \in Thread
      PROVE  t \in Coming(o)' <=> \/ t \in Coming(o) /\ t \notin X
                                  \/ t \in W /\ e = "EOK" /\ InCall(t, o)
  <2>1. /\ t \in Coming(o)' <=> InCall(t, o)' /\ ~Suspended(k', t) /\ k'.error[t] = "EOK"
        /\ t \in Coming(o) <=> InCall(t, o) /\ ~Suspended(k, t) /\ k.error[t] = "EOK"
    BY DEF Coming, Comes
  <2>2. /\ t \notin X => k'.error[t] = IF t \in W THEN e ELSE k.error[t]
        /\ Suspended(k', t) <=> Suspended(k, t) /\ t \notin W
        /\ t \in W => Suspended(k, t)
        /\ t \in X => ~Suspended(k, t)
        /\ InCall(t, o)' <=> InCall(t, o) /\ t \notin X
    BY DEF Moves
  <2> QED BY <2>1, <2>2
<1>3. Coming(o)' \subseteq Thread /\ Coming(o) \subseteq Thread
  BY DEF Coming
<1>4. Coming(o)' = (Coming(o) \ X) \cup {t \in W : e = "EOK" /\ InCall(t, o)}
  <2>1. \A t \in W : t \in Thread
    BY DEF Moves
  <2> QED BY <1>2, <1>3, <2>1
<1>5. HasWaiter(k', o) => HasWaiter(k, o)
  <2>1. /\ HasWaiter(k', o) <=> ToSet(k'.wait[o]) # {}
        /\ HasWaiter(k, o) <=> ToSet(k.wait[o]) # {}
    BY InvFacts, OrderlyFacts DEF Moves
  <2> QED BY <2>1 DEF Moves
<1>6. IsFiniteSet(Coming(o)') /\ Cardinality(Coming(o)') \in Nat
  <2>1. IsFiniteSet(Coming(o)')
    BY <1>3, FS_Subset
  <2> QED BY <2>1, FS_CardinalityType
<1>7. ASSUME NEW t \in Thread
      PROVE  Waits(k', t, o) <=> InCall(t, o)' /\ Suspended(k', t)
  <2>1. Waits(k, t, o) <=> InCall(t, o) /\ Suspended(k, t)
    BY InvFacts DEF WaitsRight
  <2>2. /\ Suspended(k', t) <=> Suspended(k, t) /\ t \notin W
        /\ t \in X => ~Suspended(k, t)
        /\ InCall(t, o)' <=> InCall(t, o) /\ t \notin X
    BY DEF Moves
  <2> QED BY <1>1, <2>1, <2>2
<1> QED BY <1>4, <1>5, <1>6, <1>7

\* What a step must do so that the invariant holds again.
LEMMA InvStep ==
  ASSUME Inv, NEW W, NEW e, NEW X, Moves(W, e, X), Leaves', Nodes', Typed',
         \A t \in Thread : Hand(t)', \A o \in WaitObj : Account(o)'
  PROVE  Inv'
<1>1. k' \in Kernel /\ pc' \in [Thread -> PC] /\ Orderly(k')
  BY OrderlyFacts DEF Moves
<1>2. ~InSend(Idle)' /\ ~InRecv(Idle)'
  <2>1. \A o \in WaitObj : ~InCall(Idle, o)'
    BY InvFacts DEF Moves
  <2>2. ~InCall(Idle, Receivers)' /\ ~InCall(Idle, Senders)'
    BY <2>1
  <2> QED BY <2>2, InvFacts DEF InCall
<1>3. WaitsRight'
  BY MovesLemma DEF WaitsRight
<1>4. Parts'
  BY <1>1, <1>2, <1>3 DEF Parts
<1> QED BY <1>4, PartsAre, PTL

\* A set that loses one element at most, and one that gains one.
LEMMA LoseOne ==
  ASSUME NEW A, NEW B, NEW t, IsFiniteSet(A), IsFiniteSet(B), A \ {t} \subseteq B
  PROVE  Cardinality(A) <= Cardinality(B) + 1
<1>1. /\ IsFiniteSet(A \ {t})
      /\ Cardinality(A \ {t}) = IF t \in A THEN Cardinality(A) - 1 ELSE Cardinality(A)
  BY FS_RemoveElement
<1>2. Cardinality(A \ {t}) <= Cardinality(B)
  BY FS_Subset
<1>3. Cardinality(A) \in Nat /\ Cardinality(B) \in Nat
  BY FS_CardinalityType
<1> QED BY <1>1, <1>2, <1>3

LEMMA GainOne ==
  ASSUME NEW A, NEW B, NEW t, IsFiniteSet(A), t \notin A, B = A \cup {t}
  PROVE  Cardinality(B) = Cardinality(A) + 1
BY FS_AddElement

\* Nothing more is due, and nobody who comes turns away.
LEMMA StillDue ==
  ASSUME Inv, NEW W, NEW e, NEW X, Moves(W, e, X), NEW o \in WaitObj,
         \A u \in X : u \notin Coming(o), Due(o)' = Due(o)
  PROVE  Account(o)'
<1>1. Coming(o) \subseteq Coming(o)'
  BY MovesLemma
<1>2. Cardinality(Coming(o)) <= Cardinality(Coming(o)')
  BY <1>1, MovesLemma, FS_Subset
<1>3. Due(o) \in Nat /\ Cardinality(Coming(o)) \in Nat /\ Account(o)
  BY InvFacts
<1>4. HasWaiter(k', o) => HasWaiter(k, o)
  BY MovesLemma
<1>5. Cardinality(Coming(o)') \in Nat
  BY MovesLemma
<1> QED BY <1>2, <1>3, <1>4, <1>5 DEF Account

\* One who comes takes one.
LEMMA LessDue ==
  ASSUME Inv, NEW W, NEW e, NEW t, NEW X, X \subseteq {t}, Moves(W, e, X), NEW o \in WaitObj,
         Due(o)' = Due(o) - 1
  PROVE  Account(o)'
<1>1. Coming(o) \ {t} \subseteq Coming(o)'
  BY MovesLemma
<1>2. /\ IsFiniteSet(Coming(o)) /\ Due(o) \in Nat /\ Cardinality(Coming(o)) \in Nat
      /\ Account(o)
  BY InvFacts
<1>3. /\ IsFiniteSet(Coming(o)') /\ Cardinality(Coming(o)') \in Nat
      /\ HasWaiter(k', o) => HasWaiter(k, o)
  BY MovesLemma
<1>4. Cardinality(Coming(o)) <= Cardinality(Coming(o)') + 1
  BY <1>1, <1>2, <1>3, LoseOne
<1> QED BY <1>2, <1>3, <1>4 DEF Account

\* One more is due, and one more woken for it, unless none waits.
LEMMA MoreDue ==
  ASSUME Inv, NEW X, NEW o \in WaitObj, Moves(Woke(o), "EOK", X),
         \A u \in X : u \notin Coming(o), Due(o)' = Due(o) + 1
  PROVE  Account(o)'
<1> DEFINE u == Head(k.wait[o])
<1> SUFFICES ASSUME HasWaiter(k', o) PROVE Due(o)' <= Cardinality(Coming(o)')
  BY DEF Account
<1>1. HasWaiter(k, o) /\ Woke(o) = {u}
  BY MovesLemma DEF Woke
<1>2. u \in Thread /\ Waits(k, u, o)
  BY <1>1, InvFacts, OrderlyFacts DEF Waits
<1> HIDE DEF u
<1>3. InCall(u, o) /\ u \notin Coming(o)
  BY <1>2, InvFacts DEF WaitsRight, Coming, Comes
<1>4. Coming(o)' = Coming(o) \cup {u}
  BY <1>1, <1>3, MovesLemma
<1>5. Cardinality(Coming(o)') = Cardinality(Coming(o)) + 1
  BY <1>3, <1>4, InvFacts, GainOne
<1>6. Due(o) \in Nat /\ Cardinality(Coming(o)) \in Nat /\ Due(o) <= Cardinality(Coming(o))
  BY <1>1, InvFacts DEF Account
<1> QED BY <1>5, <1>6

-----------------------------------------------------------------------------
(* The bounded queue of a state *)

GotIs(t) == IF pc[t] = "copyOut" THEN data[held[t]] ELSE got[t]
AbsQueue == Contents(data, Queued)
AbsGot == [t \in Thread |-> GotIs(t)]

\* the calls of threads that this step does not touch
Untouched(v) == /\ pc'[v] = pc[v] /\ held'[v] = held[v] /\ arg'[v] = arg[v] /\ got'[v] = got[v]

LEMMA UntouchedHand ==
  ASSUME Inv, NEW S, Kept(S), NEW v \in Thread, v \in S, Untouched(v)
  PROVE  Hand(v)' /\ GotIs(v)' = GotIs(v)
<1>1. Hand(v)
  BY InvFacts
<1>2. held[v] # Null => data'[held[v]] = data[held[v]] /\ next'[held[v]] = next[held[v]]
  BY DEF Kept
<1>3. pc[v] \in {"append", "copyOut"} => held[v] # Null
  BY <1>1 DEF Hand, Holding
<1>4. InSend(v)' <=> InSend(v)
  BY DEF Untouched, InSend
<1> QED BY <1>1, <1>2, <1>3, <1>4 DEF Hand, GotIs, Untouched

LEMMA SameQueue ==
  ASSUME AbsQueue' = AbsQueue, \A t \in Thread : GotIs(t)' = GotIs(t)
  PROVE  UNCHANGED Abs!vars
BY DEF Abs!vars, AbsQueue, Contents, Queued, GotIs

LEMMA IsSend ==
  ASSUME NEW m, Len(AbsQueue) < Cardinality(Node), AbsQueue' = Append(AbsQueue, m),
         \A t \in Thread : GotIs(t)' = GotIs(t)
  PROVE  Abs!Send(m)
BY DEF Abs!Send, AbsQueue, Contents, Queued, GotIs

LEMMA IsSendUrgent ==
  ASSUME NEW m, Len(AbsQueue) < Cardinality(Node), AbsQueue' = <<m>> \o AbsQueue,
         \A t \in Thread : GotIs(t)' = GotIs(t)
  PROVE  Abs!SendUrgent(m)
BY DEF Abs!SendUrgent, AbsQueue, Contents, Queued, GotIs

LEMMA IsReceive ==
  ASSUME NEW t \in Thread, AbsQueue # <<>>, AbsQueue' = Tail(AbsQueue),
         GotIs(t)' = Head(AbsQueue), \A v \in Thread : v # t => GotIs(v)' = GotIs(v)
  PROVE  Abs!Receive(t)
<1>1. AbsGot' = [AbsGot EXCEPT ![t] = Head(AbsQueue)]
  BY DEF AbsGot
<1> QED BY <1>1 DEF Abs!Receive, AbsQueue, Contents, Queued, AbsGot, GotIs

LEMMA IsClear ==
  ASSUME AbsQueue' = <<>>, \A t \in Thread : GotIs(t)' = GotIs(t)
  PROVE  Abs!Clear
BY DEF Abs!Clear, AbsQueue, Contents, Queued, GotIs

-----------------------------------------------------------------------------
(* The kinds of steps of a thread *)

LEMMA AtFacts ==
  ASSUME Inv, NEW t, NEW l, At(t, l)
  PROVE  /\ t = k.cur /\ t \in Thread /\ pc[t] = l
         /\ InCall(t, Receivers) <=> l \in {"recvSched", "recvWoken"}
         /\ InCall(t, Senders) <=> l \in {"sendSched", "sendWoken"}
         /\ InRecv(t) <=> l \in {"recvSched", "recvWoken"}
         /\ InSend(t) <=> l \in {"sendSched", "sendWoken"}
         /\ l \notin {"sendSched", "recvSched"} => ~Suspended(k, t)
         /\ held[t] # Null <=> l \in Holding
<1>1. t = k.cur /\ t \in Thread /\ pc[t] = l
  BY InvFacts DEF At
<1>2. held[t] # Null <=> pc[t] \in Holding
  BY <1>1, InvFacts DEF Hand
<1> QED BY <1>1, <1>2, InvFacts DEF InCall, InRecv, InSend, Leaves

\* The current thread goes on outside a call, and the threads W are woken.
LEMMA LeaveStep ==
  ASSUME Inv, NEW t \in Thread, NEW l \in PC, Goto(t, l), t = k.cur, ~Suspended(k, t),
         l \notin {"recvSched", "recvWoken", "sendSched", "sendWoken"},
         NEW W, NEW e, Orderly(k'), Awakened(k', k, W, e), k'.cur = k.cur,
         \A u \in W : u \in Thread /\ Suspended(k, u)
  PROVE  Moves(W, e, {t}) /\ Leaves'
<1>1. pc' = [pc EXCEPT ![t] = l] /\ pc \in [Thread -> PC]
  BY InvFacts DEF Goto
<1>2. pc' \in [Thread -> PC]
  BY <1>1
<1>3. ASSUME NEW u \in Thread, NEW o \in WaitObj
      PROVE  InCall(u, o)' <=> InCall(u, o) /\ u \notin {t}
  BY <1>1 DEF InCall, InRecv, InSend
<1>4. Moves(W, e, {t})
  BY <1>2, <1>3 DEF Moves, Awakened
<1>5. Leaves'
  BY DEF Leaves, Awakened
<1> QED BY <1>4, <1>5

\* A step of the kernel that no function of the queue takes part in.
LEMMA KernelStep ==
  ASSUME Inv, NEW W, NEW e, Orderly(k'), Awakened(k', k, W, e),
         \A u \in W : u \in Thread /\ Suspended(k, u),
         Suspended(k', k'.cur) => k'.cur = k.cur, pc' = pc
  PROVE  Moves(W, e, {}) /\ Leaves'
<1>1. \A u \in Thread, o \in WaitObj : InCall(u, o)' <=> InCall(u, o)
  BY DEF InCall, InRecv, InSend
<1>2. Moves(W, e, {})
  BY <1>1, InvFacts DEF Moves, Awakened
<1>3. k'.cur \in Thread
  BY OrderlyFacts
<1>4. Leaves'
  BY <1>3, InvFacts DEF Leaves, Awakened
<1> QED BY <1>2, <1>4

\* The kernel as it is.
LEMMA SameKernel ==
  ASSUME Inv, k' = k
  PROVE  Orderly(k') /\ Awakened(k', k, {}, "EOK") /\ k'.cur = k.cur
BY InvFacts DEF Awakened

\* The last section of a send and of a receive wakes the first waiter of the
\* other side.
LEMMA WakingLemma ==
  ASSUME Inv, NEW o \in WaitObj
  PROVE  LET n == Waking(o)
         IN /\ Orderly(n) /\ Awakened(n, k, Woke(o), "EOK") /\ n.cur = k.cur
            /\ \A u \in Woke(o) : u \in Thread /\ Suspended(k, u)
<1>1. CASE ~HasWaiter(k, o)
  BY <1>1, InvFacts DEF Waking, Woke, Awakened
<1>2. CASE HasWaiter(k, o)
  <2> DEFINE n == ResumeFirst(k, o)
             u == Head(k.wait[o])
  <2>1. /\ Orderly(n) /\ Awakened(n, k, {u}, "EOK") /\ n.cur = k.cur
        /\ u \in Thread /\ u \in ToSet(k.wait[o]) /\ Suspended(k, u)
    BY <1>2, InvFacts, ResumeFirstOrderly
  <2>2. Waking(o) = n /\ Woke(o) = {u}
    BY <1>2 DEF Waking, Woke
  <2> HIDE DEF n, u
  <2> QED BY <2>1, <2>2
<1> QED BY <1>1, <1>2

\* What is left over from a call is dropped.
LEMMA EndCallFacts ==
  ASSUME Inv, NEW t \in Thread, EndCall(t)
  PROVE  arg' \in [Thread -> Call] /\ \A u \in Thread : u # t => arg'[u] = arg[u]
<1>1. arg' = [arg EXCEPT ![t] = NoCall]
  BY DEF EndCall
<1>2. arg \in [Thread -> Call] /\ NoCall \in Call
  BY InvFacts DEF Typed, NoCall, Call
<1> QED BY <1>1, <1>2

\* The others are not touched by a step of t.
LEMMA OthersLemma ==
  ASSUME Inv, NEW t \in Thread, NEW l, Goto(t, l), Kept(Thread \ {t}),
         \A v \in Thread : v # t => held'[v] = held[v] /\ arg'[v] = arg[v] /\ got'[v] = got[v]
  PROVE  \A v \in Thread : v # t => Hand(v)' /\ GotIs(v)' = GotIs(v)
<1> SUFFICES ASSUME NEW v \in Thread, v # t PROVE Hand(v)' /\ GotIs(v)' = GotIs(v)
  OBVIOUS
<1>1. Untouched(v)
  BY InvFacts DEF Untouched, Goto
<1> QED BY <1>1, UntouchedHand

\* A thread that copies nothing goes on copying nothing.
Resting(v) == /\ pc[v] \notin Holding /\ pc'[v] \notin Holding
              /\ InSend(v)' => arg'[v].msg \in Message

\* The lists stay as they are, and nobody who comes turns away.
LEMMA QuietStep ==
  ASSUME Inv, NEW W, NEW e, NEW X, Moves(W, e, X), Leaves', Typed',
         UNCHANGED mq, held' = held, got' = got,
         \A o \in WaitObj : \A u \in X : u \notin Coming(o),
         \A v \in Thread : Resting(v) \/ (pc'[v] = pc[v] /\ arg'[v] = arg[v])
  PROVE  Inv' /\ UNCHANGED Abs!vars
<1>1. /\ Nodes' /\ Queued' = Queued /\ Unused' = Unused /\ entry' = entry /\ Kept(Thread)
      /\ data' = data
  BY InvFacts, SameNodes DEF mq
<1>2. ASSUME NEW v \in Thread
      PROVE  Hand(v)' /\ GotIs(v)' = GotIs(v)
  <2>1. CASE Resting(v)
    <3>1. held[v] = Null
      BY <2>1, InvFacts DEF Resting, Hand
    <3> QED BY <2>1, <3>1 DEF Resting, Hand, GotIs, Holding
  <2>2. CASE pc'[v] = pc[v] /\ arg'[v] = arg[v]
    <3>1. Untouched(v)
      BY <2>2 DEF Untouched
    <3> QED BY <1>1, <3>1, UntouchedHand
  <2> QED BY <2>1, <2>2
<1>3. \A o \in WaitObj : Due(o)' = Due(o)
  BY <1>1 DEF Due
<1>4. \A o \in WaitObj : Account(o)'
  BY <1>3, StillDue
<1>5. Inv'
  BY <1>1, <1>2, <1>4, InvStep
<1>6. AbsQueue' = AbsQueue
  BY <1>1 DEF AbsQueue
<1> QED BY <1>2, <1>5, <1>6, SameQueue

-----------------------------------------------------------------------------
(* The actions *)

\* A node is taken from the free list, in a call or after a wait for one.
LEMMA TakeFreeStep ==
  ASSUME Inv, NEW t \in Thread, At(t, "run") \/ At(t, "sendWoken"), TakeFree(t),
         Typed', arg'[t].msg \in Message, \A v \in Thread : v # t => arg'[v] = arg[v]
  PROVE  Inv' /\ UNCHANGED Abs!vars
<1>1. /\ free # Null /\ held' = [held EXCEPT ![t] = free] /\ free' = next[free]
      /\ Goto(t, "copyIn") /\ k' = k /\ UNCHANGED <<next, data, head, tail, entry>>
      /\ got' = got
  BY DEF TakeFree
<1>2. t = k.cur /\ ~Suspended(k, t) /\ held[t] = Null /\ t \notin Coming(Receivers)
      /\ pc[t] # "copyOut"
  BY AtFacts DEF Coming, Holding
<1>3. /\ Nodes' /\ Queued' = Queued /\ Len(Unused') = Len(Unused) - 1
      /\ free \in Node /\ Kept(Thread \ {t})
  BY <1>1, <1>2, InvFacts, TakeFreeNodes
<1>4. Moves({}, "EOK", {t}) /\ Leaves'
  <2>1. "copyIn" \in PC
    BY DEF PC
  <2> QED BY <1>1, <1>2, <2>1, SameKernel, LeaveStep
<1>5. pc'[t] = "copyIn" /\ held'[t] = free
  <2>1. held \in Hands
    BY InvFacts, NodesFacts
  <2> QED BY <1>1, <2>1, InvFacts DEF Goto, Hands
<1>6. Hand(t)' /\ GotIs(t)' = GotIs(t)
  BY <1>1, <1>2, <1>3, <1>5 DEF Hand, GotIs, Holding
<1>7. \A v \in Thread : v # t => Hand(v)' /\ GotIs(v)' = GotIs(v)
  <2>1. \A v \in Thread : v # t => held'[v] = held[v] /\ got'[v] = got[v]
    BY <1>1
  <2> QED BY <1>1, <1>3, <2>1, OthersLemma
<1>8. Account(Receivers)' /\ Account(Senders)'
  <2>1. Due(Receivers)' = Due(Receivers) /\ Due(Senders)' = Due(Senders) - 1
    BY <1>1, <1>3 DEF Due
  <2>2. \A u \in {t} : u \notin Coming(Receivers)
    BY <1>2
  <2>3. Account(Receivers)'
    BY <1>4, <2>1, <2>2, StillDue, InvFacts
  <2>4. Account(Senders)'
    BY <1>4, <2>1, LessDue, InvFacts
  <2> QED BY <2>3, <2>4
<1>9. (\A v \in Thread : Hand(v)') /\ \A o \in WaitObj : Account(o)'
  BY <1>6, <1>7, <1>8, InvFacts
<1>10. Inv'
  BY <1>3, <1>4, <1>9, InvStep
<1>11. AbsQueue' = AbsQueue
  BY <1>1, <1>3 DEF AbsQueue
<1> QED BY <1>6, <1>7, <1>10, <1>11, SameQueue

\* rt_mq_send_wait and rt_mq_urgent with a node that is free
LEMMA SendStep ==
  ASSUME Inv, NEW t \in Thread,
         SendAgain(t) \/ \E m \in Message, urgent \in BOOLEAN : SendNow(t, m, urgent)
  PROVE  Inv' /\ UNCHANGED Abs!vars
<1>1. CASE SendAgain(t)
  <2>1. At(t, "sendWoken") /\ TakeFree(t) /\ arg' = arg
    BY <1>1 DEF SendAgain, Woken
  <2>2. Typed'
    BY <2>1, InvFacts DEF Typed, TakeFree
  <2>3. arg[t].msg \in Message
    BY <2>1, AtFacts, InvFacts DEF Hand
  <2> QED BY <2>1, <2>2, <2>3, TakeFreeStep
<1>2. ASSUME NEW m \in Message, NEW urgent \in BOOLEAN, SendNow(t, m, urgent)
      PROVE  Inv' /\ UNCHANGED Abs!vars
  <2>1. /\ At(t, "run") /\ TakeFree(t)
        /\ arg' = [arg EXCEPT ![t] = [msg |-> m, urgent |-> urgent, timed |-> FALSE]]
    BY <1>2 DEF SendNow, Calls
  <2>2. /\ arg' \in [Thread -> Call] /\ arg'[t].msg \in Message
        /\ \A v \in Thread : v # t => arg'[v] = arg[v]
    BY <2>1, InvFacts DEF Typed, Call
  <2>3. Typed'
    BY <2>1, <2>2, InvFacts DEF Typed, TakeFree
  <2> QED BY <2>1, <2>2, <2>3, TakeFreeStep
<1> QED BY <1>1, <1>2

\* Both copies: a step of t at a label where it has a node, with interrupts
\* enabled, to another one.
LEMMA CopyStep ==
  ASSUME Inv, NEW t \in Thread, NEW l, At(t, l), l \in {"copyIn", "copyOut"},
         NEW j, Goto(t, j), j \in {"append", "free"}, Only(held[t]),
         k' = k, UNCHANGED <<head, tail, free, entry, alive, held, arg>>,
         got' \in [Thread -> Content], \A v \in Thread : v # t => got'[v] = got[v],
         Hand(t)', GotIs(t)' = GotIs(t)
  PROVE  Inv' /\ UNCHANGED Abs!vars
<1> DEFINE n == held[t]
<1>1. /\ t = k.cur /\ ~Suspended(k, t) /\ n # Null /\ Nodes
      /\ \A o \in WaitObj : t \notin Coming(o)
  BY AtFacts, InvFacts DEF Coming, Holding
<1>2. n \in Node
  BY <1>1, NodesFacts
<1>3. /\ Nodes' /\ Queued' = Queued /\ Unused' = Unused
      /\ Kept(Thread \ {t}) /\ Contents(data', Queued) = Contents(data, Queued)
  <2>1. Only(n) /\ held[t] = n
    OBVIOUS
  <2> HIDE DEF n
  <2> QED BY <1>1, <1>2, <2>1, CopyNodes
<1>4. Moves({}, "EOK", {t}) /\ Leaves'
  <2>1. j \in PC /\ j \notin {"recvSched", "recvWoken", "sendSched", "sendWoken"}
    BY DEF PC
  <2> QED BY <1>1, <2>1, SameKernel, LeaveStep
<1>5. \A v \in Thread : v # t => Hand(v)' /\ GotIs(v)' = GotIs(v)
  BY <1>3, OthersLemma
<1>6. \A o \in WaitObj : Account(o)'
  <2> TAKE o \in WaitObj
  <2>1. Due(o)' = Due(o) /\ \A u \in {t} : u \notin Coming(o)
    BY <1>1, <1>3 DEF Due
  <2> QED BY <1>4, <2>1, StillDue
<1>7. Typed'
  BY InvFacts DEF Typed
<1>8. Inv'
  BY <1>3, <1>4, <1>5, <1>6, <1>7, InvStep
<1>9. AbsQueue' = AbsQueue
  BY <1>3 DEF AbsQueue
<1> QED BY <1>5, <1>8, <1>9, SameQueue

\* A message is copied into a node.
LEMMA CopyInStep ==
  ASSUME Inv, NEW t \in Thread, CopyIn(t)
  PROVE  Inv' /\ UNCHANGED Abs!vars
<1> DEFINE n == held[t]
           m == arg[t].msg
<1>1. /\ At(t, "copyIn") /\ data' = [data EXCEPT ![n] = m]
      /\ next' = (IF arg[t].urgent THEN next ELSE [next EXCEPT ![n] = Null])
      /\ Goto(t, "append") /\ k' = k
      /\ UNCHANGED <<head, tail, free, entry, alive, held, arg, got>>
  BY DEF CopyIn
<1>2. /\ pc[t] = "copyIn" /\ held[t] # Null /\ m \in Message /\ Nodes
      /\ pc \in [Thread -> PC] /\ got \in [Thread -> Content]
  BY <1>1, AtFacts, InvFacts DEF Hand, Holding, Typed
<1>3. /\ n \in Node /\ data \in Filling /\ next \in [Node -> Node \cup {Null}]
  BY <1>2, NodesFacts
<1>4. Only(n) /\ data'[n] = m /\ (~arg[t].urgent => next'[n] = Null)
  <2>1. m \in Content
    BY <1>2 DEF Content
  <2> HIDE DEF n, m
  <2> QED BY <1>1, <1>3, <2>1 DEF Only, Filling
<1>5. pc'[t] = "append" /\ arg' = arg /\ held' = held /\ got' = got
  BY <1>1, <1>2 DEF Goto
<1>6. Hand(t)' /\ GotIs(t)' = GotIs(t)
  BY <1>2, <1>4, <1>5 DEF Hand, Holding, GotIs
<1> QED BY <1>1, <1>2, <1>4, <1>5, <1>6, CopyStep

\* A message is copied out of a node.
LEMMA CopyOutStep ==
  ASSUME Inv, NEW t \in Thread, CopyOut(t)
  PROVE  Inv' /\ UNCHANGED Abs!vars
<1> DEFINE n == held[t]
<1>1. /\ At(t, "copyOut") /\ got' = [got EXCEPT ![t] = data[n]] /\ Goto(t, "free") /\ k' = k
      /\ UNCHANGED mq /\ UNCHANGED <<alive, held, arg>>
  BY DEF CopyOut
<1>2. /\ pc[t] = "copyOut" /\ held[t] # Null /\ Nodes
      /\ pc \in [Thread -> PC] /\ got \in [Thread -> Content]
  BY <1>1, AtFacts, InvFacts DEF Holding, Typed
<1>3. /\ n \in Node /\ data \in Filling /\ next \in [Node -> Node \cup {Null}]
  BY <1>2, NodesFacts
<1>4. Only(n) /\ UNCHANGED <<head, tail, free, entry, data, next>>
  BY <1>1, <1>3 DEF Only, mq
<1>5. pc'[t] = "free" /\ arg' = arg /\ held' = held
  BY <1>1, <1>2 DEF Goto
<1>6. got' \in [Thread -> Content] /\ got'[t] = data[n] /\ \A v \in Thread : v # t => got'[v] = got[v]
  BY <1>1, <1>2, <1>3 DEF Filling
<1>7. Hand(t)' /\ GotIs(t)' = GotIs(t)
  BY <1>2, <1>5, <1>6 DEF Hand, Holding, GotIs, InSend
<1> QED BY <1>1, <1>2, <1>4, <1>5, <1>6, <1>7, CopyStep

\* A message is put into the queue, at its end or, if urgent, at its front.
LEMMA PutMessageStep ==
  ASSUME Inv, NEW t \in Thread, PutMessage(t)
  PROVE  Inv' /\ \E m \in Message : Abs!Send(m) \/ Abs!SendUrgent(m)
<1> DEFINE n == held[t]
           m == arg[t].msg
<1>1. /\ At(t, "append") /\ (IF arg[t].urgent THEN PutFront(n) ELSE PutBack(n))
      /\ entry' = entry + 1 /\ held' = [held EXCEPT ![t] = Null]
      /\ k' = Waking(Receivers) /\ AfterWake(t, Receivers) /\ EndCall(t)
      /\ UNCHANGED <<data, free, got, alive>>
  BY DEF PutMessage
<1>2. /\ t = k.cur /\ ~Suspended(k, t) /\ pc[t] = "append" /\ held[t] # Null /\ Nodes
      /\ \A o \in WaitObj : t \notin Coming(o)
  BY <1>1, AtFacts, InvFacts DEF Coming, Holding
<1>3. /\ m \in Message /\ data[n] = m /\ (~arg[t].urgent => next[n] = Null)
  BY <1>2, InvFacts DEF Hand
<1>4. n \in Node /\ data \in Filling /\ Queued \in Seq(Node) /\ held \in Hands
  BY <1>2, NodesFacts
<1> HIDE DEF n, m
<1>5. held[t] = n
  BY DEF n
<1>6. /\ Nodes' /\ Unused' = Unused /\ Kept(Thread \ {t})
      /\ Queued' = IF arg[t].urgent THEN <<n>> \o Queued ELSE Append(Queued, n)
  <2>1. CASE arg[t].urgent
    BY <1>1, <1>2, <1>4, <1>5, <2>1, PutFrontNodes
  <2>2. CASE ~arg[t].urgent
    BY <1>1, <1>2, <1>3, <1>4, <1>5, <2>2, PutBackNodes
  <2> QED BY <2>1, <2>2
<1>7. \E l \in {"run", "sched"} : Goto(t, l)
  BY <1>1 DEF AfterWake
<1>8. PICK l \in {"run", "sched"} : Goto(t, l)
  BY <1>7
<1>9. l \in PC /\ l \notin {"recvSched", "recvWoken", "sendSched", "sendWoken"} /\ l \notin Holding
      /\ l # "copyOut"
  BY DEF PC, Holding
<1>10. Moves(Woke(Receivers), "EOK", {t}) /\ Leaves'
  <2>1. /\ Orderly(k') /\ Awakened(k', k, Woke(Receivers), "EOK") /\ k'.cur = k.cur
        /\ \A u \in Woke(Receivers) : u \in Thread /\ Suspended(k, u)
    BY <1>1, WakingLemma, InvFacts
  <2> QED BY <1>2, <1>8, <1>9, <2>1, LeaveStep
<1>11. pc'[t] = l /\ held'[t] = Null
  BY <1>1, <1>4, <1>8, InvFacts DEF Goto, Hands
<1>12. Hand(t)' /\ GotIs(t)' = GotIs(t)
  <2>1. ~InSend(t)'
    BY <1>9, <1>11 DEF InSend
  <2> QED BY <1>1, <1>2, <1>9, <1>11, <2>1 DEF Hand, GotIs, Holding
<1>13. \A v \in Thread : v # t => Hand(v)' /\ GotIs(v)' = GotIs(v)
  <2>1. \A v \in Thread : v # t => held'[v] = held[v] /\ got'[v] = got[v] /\ arg'[v] = arg[v]
    BY <1>1, EndCallFacts
  <2> QED BY <1>6, <1>8, <2>1, OthersLemma
<1>14. Account(Receivers)' /\ Account(Senders)'
  <2>1. Due(Receivers)' = Due(Receivers) + 1 /\ Due(Senders)' = Due(Senders)
    BY <1>1, <1>6 DEF Due
  <2>2. \A u \in {t} : u \notin Coming(Receivers) /\ u \notin Coming(Senders)
    BY <1>2, InvFacts
  <2>3. Account(Receivers)'
    BY <1>10, <2>1, <2>2, MoreDue, InvFacts
  <2>4. Account(Senders)'
    BY <1>10, <2>1, <2>2, StillDue, InvFacts
  <2> QED BY <2>3, <2>4
<1>15. (\A v \in Thread : Hand(v)') /\ \A o \in WaitObj : Account(o)'
  BY <1>12, <1>13, <1>14, InvFacts
<1>16. Typed'
  BY <1>1, EndCallFacts, InvFacts DEF Typed
<1>17. Inv'
  BY <1>6, <1>10, <1>15, <1>16, InvStep
<1>18. AbsQueue' = IF arg[t].urgent THEN <<m>> \o AbsQueue ELSE Append(AbsQueue, m)
  <2>1. data' = data
    BY <1>1
  <2>2. CASE arg[t].urgent
    BY <1>3, <1>4, <1>6, <2>1, <2>2, ContentsFront DEF AbsQueue
  <2>3. CASE ~arg[t].urgent
    BY <1>3, <1>4, <1>6, <2>1, <2>3, ContentsBack DEF AbsQueue
  <2> QED BY <2>2, <2>3
<1>19. Len(AbsQueue) < Cardinality(Node)
  <2>1. Len(AbsQueue) = entry /\ entry \in Nat
    BY <1>2, <1>4, ContentsFacts, NodesFacts DEF AbsQueue
  <2>2. entry' \in 0..Cardinality(Node)
    BY <1>6 DEF Nodes
  <2> QED BY <1>1, <2>1, <2>2, NodeCount
<1>20. \A v \in Thread : GotIs(v)' = GotIs(v)
  BY <1>12, <1>13
<1>21. CASE arg[t].urgent
  BY <1>3, <1>17, <1>18, <1>19, <1>20, <1>21, IsSendUrgent
<1>22. CASE ~arg[t].urgent
  BY <1>3, <1>17, <1>18, <1>19, <1>20, <1>22, IsSend
<1> QED BY <1>21, <1>22

\* The first message is taken from the queue, in a call or after a wait for one.
LEMMA ReceiveStep ==
  ASSUME Inv, NEW t \in Thread, At(t, "run") \/ At(t, "recvWoken"), TakeHead(t)
  PROVE  Inv' /\ Abs!Receive(t)
<1>1. /\ entry > 0 /\ held' = [held EXCEPT ![t] = head] /\ head' = next[head]
      /\ tail' = (IF tail = head THEN Null ELSE tail) /\ entry' = entry - 1
      /\ Goto(t, "copyOut") /\ k' = k /\ UNCHANGED <<next, data, free>>
      /\ arg' = arg /\ got' = got /\ alive' = alive
  BY DEF TakeHead
<1>2. t = k.cur /\ ~Suspended(k, t) /\ held[t] = Null /\ t \notin Coming(Senders) /\ Nodes
  BY AtFacts, InvFacts DEF Coming, Holding
<1>3. /\ Nodes' /\ Queued' = Tail(Queued) /\ Unused' = Unused
      /\ Queued # <<>> /\ head = Head(Queued) /\ head \in Node /\ Kept(Thread \ {t})
  BY <1>1, <1>2, TakeHeadNodes
<1>4. Moves({}, "EOK", {t}) /\ Leaves'
  <2>1. "copyOut" \in PC
    BY DEF PC
  <2> QED BY <1>1, <1>2, <2>1, SameKernel, LeaveStep
<1>5. data \in Filling /\ Queued \in Seq(Node) /\ held \in Hands
  BY <1>2, NodesFacts
<1>6. pc'[t] = "copyOut" /\ held'[t] = head
  BY <1>1, <1>5, InvFacts DEF Goto, Hands
<1>7. Hand(t)' /\ GotIs(t)' = data[head]
  <2>1. ~InSend(t)'
    BY <1>6 DEF InSend
  <2> QED BY <1>1, <1>3, <1>6, <2>1 DEF Hand, GotIs, Holding
<1>8. \A v \in Thread : v # t => Hand(v)' /\ GotIs(v)' = GotIs(v)
  <2>1. \A v \in Thread : v # t => held'[v] = held[v] /\ got'[v] = got[v] /\ arg'[v] = arg[v]
    BY <1>1
  <2> QED BY <1>1, <1>3, <2>1, OthersLemma
<1>9. Account(Receivers)' /\ Account(Senders)'
  <2>1. Due(Receivers)' = Due(Receivers) - 1 /\ Due(Senders)' = Due(Senders)
    BY <1>1, <1>3 DEF Due
  <2>2. \A u \in {t} : u \notin Coming(Senders)
    BY <1>2
  <2>3. Account(Receivers)'
    BY <1>4, <2>1, LessDue, InvFacts
  <2>4. Account(Senders)'
    BY <1>4, <2>1, <2>2, StillDue, InvFacts
  <2> QED BY <2>3, <2>4
<1>10. (\A v \in Thread : Hand(v)') /\ \A o \in WaitObj : Account(o)'
  BY <1>7, <1>8, <1>9, InvFacts
<1>11. Typed'
  BY <1>1, InvFacts DEF Typed
<1>12. Inv'
  BY <1>3, <1>4, <1>10, <1>11, InvStep
<1>13. /\ AbsQueue # <<>> /\ Head(AbsQueue) = data[head] /\ AbsQueue' = Tail(AbsQueue)
  BY <1>1, <1>3, <1>5, ContentsTail DEF AbsQueue
<1> QED BY <1>7, <1>8, <1>12, <1>13, IsReceive

\* A node goes back to the free list.
LEMMA FreeNodeStep ==
  ASSUME Inv, NEW t \in Thread, FreeNode(t)
  PROVE  Inv' /\ UNCHANGED Abs!vars
<1> DEFINE n == held[t]
<1>1. /\ At(t, "free") /\ Filed(n) /\ held' = [held EXCEPT ![t] = Null]
      /\ k' = Waking(Senders) /\ AfterWake(t, Senders) /\ EndCall(t)
      /\ UNCHANGED <<head, tail, entry, got, alive>>
  BY DEF FreeNode, Filed
<1>2. /\ t = k.cur /\ ~Suspended(k, t) /\ pc[t] = "free" /\ held[t] # Null /\ Nodes
      /\ \A o \in WaitObj : t \notin Coming(o)
  BY <1>1, AtFacts, InvFacts DEF Coming, Holding
<1>3. n \in Node /\ held \in Hands
  BY <1>2, NodesFacts
<1> HIDE DEF n
<1>4. held[t] = n
  BY DEF n
<1>5. /\ Nodes' /\ Queued' = Queued /\ Len(Unused') = Len(Unused) + 1
      /\ Kept(Thread \ {t}) /\ Contents(data', Queued) = Contents(data, Queued)
  BY <1>1, <1>2, <1>3, <1>4, FreeNodes
<1>6. \E l \in {"run", "sched"} : Goto(t, l)
  BY <1>1 DEF AfterWake
<1>7. PICK l \in {"run", "sched"} : Goto(t, l)
  BY <1>6
<1>8. l \in PC /\ l \notin {"recvSched", "recvWoken", "sendSched", "sendWoken"} /\ l \notin Holding
      /\ l # "copyOut"
  BY DEF PC, Holding
<1>9. Moves(Woke(Senders), "EOK", {t}) /\ Leaves'
  <2>1. /\ Orderly(k') /\ Awakened(k', k, Woke(Senders), "EOK") /\ k'.cur = k.cur
        /\ \A u \in Woke(Senders) : u \in Thread /\ Suspended(k, u)
    BY <1>1, WakingLemma, InvFacts
  <2> QED BY <1>2, <1>7, <1>8, <2>1, LeaveStep
<1>10. pc'[t] = l /\ held'[t] = Null
  BY <1>1, <1>3, <1>7, InvFacts DEF Goto, Hands
<1>11. Hand(t)' /\ GotIs(t)' = GotIs(t)
  <2>1. ~InSend(t)'
    BY <1>8, <1>10 DEF InSend
  <2> QED BY <1>1, <1>2, <1>8, <1>10, <2>1 DEF Hand, GotIs, Holding
<1>12. \A v \in Thread : v # t => Hand(v)' /\ GotIs(v)' = GotIs(v)
  <2>1. \A v \in Thread : v # t => held'[v] = held[v] /\ got'[v] = got[v] /\ arg'[v] = arg[v]
    BY <1>1, EndCallFacts
  <2> QED BY <1>5, <1>7, <2>1, OthersLemma
<1>13. Account(Receivers)' /\ Account(Senders)'
  <2>1. Due(Receivers)' = Due(Receivers) /\ Due(Senders)' = Due(Senders) + 1
    BY <1>1, <1>5 DEF Due
  <2>2. \A u \in {t} : u \notin Coming(Receivers) /\ u \notin Coming(Senders)
    BY <1>2, InvFacts
  <2>3. Account(Receivers)'
    BY <1>9, <2>1, <2>2, StillDue, InvFacts
  <2>4. Account(Senders)'
    BY <1>9, <2>1, <2>2, MoreDue, InvFacts
  <2> QED BY <2>3, <2>4
<1>14. (\A v \in Thread : Hand(v)') /\ \A o \in WaitObj : Account(o)'
  BY <1>11, <1>12, <1>13, InvFacts
<1>15. Typed'
  BY <1>1, EndCallFacts, InvFacts DEF Typed
<1>16. Inv'
  BY <1>5, <1>9, <1>14, <1>15, InvStep
<1>17. AbsQueue' = AbsQueue
  BY <1>5 DEF AbsQueue
<1> QED BY <1>11, <1>12, <1>16, <1>17, SameQueue

\* The current thread starts to wait: for a message when there is none, for a node
\* when there is none.
LEMMA WaitStep ==
  ASSUME Inv, NEW t \in Thread, t = k.cur, ~Suspended(k, t), t # Idle,
         NEW o \in WaitObj, NEW timed, WaitOn(t, o, timed), NEW l, Goto(t, l), Due(o) = 0,
         \/ o = Senders /\ l = "sendSched" /\ ~InRecv(t) /\ arg'[t].msg \in Message
         \/ o = Receivers /\ l = "recvSched" /\ ~InSend(t),
         \A u \in Thread : u # t => arg'[u] = arg[u], UNCHANGED mq, Typed', got' = got,
         held' = held, held[t] = Null
  PROVE  Inv' /\ UNCHANGED Abs!vars
<1>1. Orderly(k') /\ k'.cur = t /\ Sleeps(k', k, t, o, "EINTR")
  <2>1. Orderly(k) /\ t = k.cur /\ ~Suspended(k, t) /\ t # Idle /\ "EINTR" \in Error
    BY InvFacts DEF Error
  <2>2. k' = SleepFor(k, t, o, "EINTR", timed)
    BY DEF WaitOn, SleepFor
  <2> QED BY <2>1, <2>2, BlockOrderly
<1>2. /\ pc' = [pc EXCEPT ![t] = l] /\ pc \in [Thread -> PC] /\ pc' \in [Thread -> PC]
      /\ pc'[t] = l /\ l \in {"sendSched", "recvSched"}
  <2>1. l \in PC
    BY DEF PC
  <2> QED BY <2>1, InvFacts DEF Goto
<1>3. ASSUME NEW u \in Thread, NEW q \in WaitObj
      PROVE  /\ Waits(k', u, q) <=> Waits(k, u, q) \/ (u = t /\ q = o)
             /\ Suspended(k', u) <=> Suspended(k, u) \/ u = t
             /\ k'.error[u] = IF u = t THEN "EINTR" ELSE k.error[u]
             /\ InCall(u, q)' <=> InCall(u, q) \/ (u = t /\ q = o)
  <2>1. ToSet(k'.wait[q]) = IF q = o THEN ToSet(k.wait[q]) \cup {t} ELSE ToSet(k.wait[q])
    BY <1>1 DEF Sleeps
  <2>2. /\ Suspended(k', u) <=> Suspended(k, u) \/ u = t
        /\ k'.error[u] = IF u = t THEN "EINTR" ELSE k.error[u]
    BY <1>1 DEF Sleeps
  <2>3. InCall(u, q)' <=> InCall(u, q) \/ (u = t /\ q = o)
    <3>1. u # t => pc'[u] = pc[u]
      BY <1>2
    <3> QED BY <3>1, <1>2 DEF InCall, InRecv, InSend
  <2> QED BY <2>1, <2>2, <2>3 DEF Waits
<1>4. WaitsRight'
  <2> SUFFICES ASSUME NEW u \in Thread, NEW q \in WaitObj
               PROVE  Waits(k', u, q) <=> InCall(u, q)' /\ Suspended(k', u)
    BY DEF WaitsRight
  <2>1. Waits(k, u, q) <=> InCall(u, q) /\ Suspended(k, u)
    BY InvFacts DEF WaitsRight
  <2>2. u = t /\ q # o => ~InCall(u, q)
    BY DEF InCall
  <2> QED BY <2>1, <2>2, <1>3
<1>5. /\ Nodes' /\ Queued' = Queued /\ Unused' = Unused /\ entry' = entry /\ Kept(Thread)
      /\ data' = data
  BY InvFacts, SameNodes DEF mq
<1>6. Hand(t)' /\ GotIs(t)' = GotIs(t)
  <2>1. pc[t] # "copyOut" /\ pc'[t] \notin Holding /\ pc'[t] # "copyOut"
        /\ pc'[t] \notin {"copyIn", "append"} /\ held'[t] = Null
    BY <1>2, InvFacts DEF Hand, Holding
  <2>2. InSend(t)' => arg'[t].msg \in Message
    BY <1>2 DEF InSend
  <2> QED BY <2>1, <2>2 DEF Hand, GotIs
<1>7. \A v \in Thread : v # t => Hand(v)' /\ GotIs(v)' = GotIs(v)
  <2>1. Kept(Thread \ {t})
    BY <1>5 DEF Kept
  <2> QED BY <2>1, OthersLemma
<1>8. ASSUME NEW q \in WaitObj PROVE Account(q)'
  <2>1. IsFiniteSet(Coming(q)') /\ Cardinality(Coming(q)') \in Nat
    <3>1. Coming(q)' \subseteq Thread
      BY DEF Coming
    <3>2. IsFiniteSet(Coming(q)')
      BY <3>1, FS_Subset
    <3> QED BY <3>2, FS_CardinalityType
  <2>2. Due(q)' = Due(q)
    BY <1>5 DEF Due
  <2>3. CASE q = o
    BY <2>1, <2>2, <2>3 DEF Account
  <2>4. CASE q # o
    <3>1. \A u \in Thread : u \in Coming(q)' <=> u \in Coming(q)
      <4> TAKE u \in Thread
      <4>1. u = t => ~InCall(u, q)
        BY <2>4 DEF InCall
      <4>2. InCall(u, q)' <=> InCall(u, q)
        BY <1>3, <2>4
      <4>3. u # t => (Comes(u)' <=> Comes(u))
        BY <1>3 DEF Comes
      <4> QED BY <4>1, <4>2, <4>3 DEF Coming
    <3>2. Coming(q)' = Coming(q)
      <4>1. Coming(q)' \subseteq Thread /\ Coming(q) \subseteq Thread
        BY DEF Coming
      <4> QED BY <3>1, <4>1
    <3>3. HasWaiter(k', q) => HasWaiter(k, q)
      <4>1. /\ ToSet(k'.wait[q]) = ToSet(k.wait[q])
            /\ HasWaiter(k', q) <=> ToSet(k'.wait[q]) # {}
            /\ HasWaiter(k, q) <=> ToSet(k.wait[q]) # {}
        BY <1>1, <2>4, InvFacts, OrderlyFacts DEF Sleeps
      <4> QED BY <4>1
    <3> QED BY <2>2, <3>2, <3>3, InvFacts DEF Account
  <2> QED BY <2>3, <2>4
<1>9. Leaves'
  BY <1>1, <1>2 DEF Leaves
<1>10. ~InSend(Idle)' /\ ~InRecv(Idle)'
  <2>1. \A q \in WaitObj : ~InCall(Idle, q)'
    BY <1>3, InvFacts
  <2>2. ~InCall(Idle, Receivers)' /\ ~InCall(Idle, Senders)'
    BY <2>1
  <2> QED BY <2>2, InvFacts DEF InCall
<1>11. Inv'
  <2>1. k' \in Kernel
    BY <1>1, OrderlyFacts
  <2>2. \A v \in Thread : Hand(v)'
    BY <1>6, <1>7
  <2>3. Parts'
    BY <1>1, <1>2, <1>4, <1>5, <1>8, <1>9, <1>10, <2>1, <2>2 DEF Parts
  <2> QED BY <2>3, PartsAre, PTL
<1>12. AbsQueue' = AbsQueue
  BY <1>5 DEF AbsQueue
<1> QED BY <1>6, <1>7, <1>11, <1>12, SameQueue

\* Nothing is due to the senders when no node is free.
LEMMA NoneFree ==
  ASSUME Inv, free = Null
  PROVE  Due(Senders) = 0
<1>1. Linked(next, Unused, free) /\ Unused \in Seq(Node)
  BY InvFacts, NodesFacts
<1>2. free = IF Len(Unused) = 0 THEN Null ELSE Unused[1]
  BY <1>1, LinkedFacts
<1>3. Len(Unused) \in Nat /\ (Len(Unused) # 0 => Unused[1] \in Node)
  BY <1>1
<1>4. Len(Unused) = 0
  BY <1>2, <1>3
<1> QED BY <1>4 DEF Due

\* rt_mq_send_wait and rt_mq_recv up to the first rt_schedule
LEMMA FirstWaitStep ==
  ASSUME Inv, NEW t \in Thread, NEW timed \in Timed,
         RecvWait(t, timed) \/ \E m \in Message : SendWait(t, m, timed)
  PROVE  Inv' /\ UNCHANGED Abs!vars
<1>1. timed \in BOOLEAN
  OBVIOUS
<1>2. CASE RecvWait(t, timed)
  <2>1. /\ At(t, "run") /\ t # Idle /\ entry = 0 /\ WaitOn(t, Receivers, timed)
        /\ arg' = [arg EXCEPT ![t] = [NoCall EXCEPT !.timed = timed]]
        /\ Goto(t, "recvSched") /\ UNCHANGED mq /\ UNCHANGED <<alive, held, got>>
    BY <1>2 DEF RecvWait, Calls
  <2>2. t = k.cur /\ ~Suspended(k, t) /\ ~InSend(t) /\ held[t] = Null
    BY <2>1, AtFacts DEF Holding
  <2>3. Typed' /\ \A u \in Thread : u # t => arg'[u] = arg[u]
    <3>1. [NoCall EXCEPT !.timed = timed] \in Call
      BY <1>1 DEF NoCall, Call
    <3> QED BY <2>1, <3>1, InvFacts DEF Typed
  <2>4. Receivers \in WaitObj /\ Due(Receivers) = 0
    BY <2>1 DEF Due
  <2>5. held' = held /\ got' = got
    BY <2>1
  <2> QED BY <2>1, <2>2, <2>3, <2>4, <2>5, WaitStep
<1>3. ASSUME NEW m \in Message, SendWait(t, m, timed)
      PROVE  Inv' /\ UNCHANGED Abs!vars
  <2>1. /\ At(t, "run") /\ t # Idle /\ free = Null /\ WaitOn(t, Senders, timed)
        /\ arg' = [arg EXCEPT ![t] = [msg |-> m, urgent |-> FALSE, timed |-> timed]]
        /\ Goto(t, "sendSched") /\ UNCHANGED mq /\ UNCHANGED <<alive, held, got>>
    BY <1>3 DEF SendWait, Calls
  <2>2. t = k.cur /\ ~Suspended(k, t) /\ ~InRecv(t) /\ held[t] = Null
    BY <2>1, AtFacts DEF Holding
  <2>3. Typed' /\ (\A u \in Thread : u # t => arg'[u] = arg[u]) /\ arg'[t].msg \in Message
    <3>1. [msg |-> m, urgent |-> FALSE, timed |-> timed] \in Call
      BY <1>1 DEF Call
    <3> QED BY <2>1, <3>1, InvFacts DEF Typed
  <2>4. Senders \in WaitObj /\ Due(Senders) = 0
    BY <2>1, NoneFree
  <2>5. held' = held /\ got' = got
    BY <2>1
  <2> QED BY <2>1, <2>2, <2>3, <2>4, <2>5, WaitStep
<1> QED BY <1>2, <1>3

\* a thread that finds that another one was faster
LEMMA WaitAgainStep ==
  ASSUME Inv, NEW t \in Thread, WaitAgain(t)
  PROVE  Inv' /\ UNCHANGED Abs!vars
<1>1. Typed' /\ (\A u \in Thread : u # t => arg'[u] = arg[u])
      /\ arg' = arg /\ UNCHANGED mq /\ got' = got /\ held' = held
  BY InvFacts DEF WaitAgain, Typed
<1>2. Senders \in WaitObj /\ Receivers \in WaitObj
  BY InvFacts
<1>3. CASE /\ Woken(t, "sendWoken") /\ free = Null
           /\ WaitOn(t, Senders, arg[t].timed)
           /\ Goto(t, "sendSched")
  <2>1. t = k.cur /\ ~Suspended(k, t) /\ InSend(t) /\ ~InRecv(t) /\ held[t] = Null
    BY <1>3, AtFacts DEF Woken, Holding
  <2>2. t # Idle /\ arg'[t].msg \in Message /\ Due(Senders) = 0
    BY <1>1, <1>3, <2>1, InvFacts, NoneFree DEF Hand, InCall
  <2> QED BY <1>1, <1>2, <1>3, <2>1, <2>2, WaitStep
<1>4. CASE /\ Woken(t, "recvWoken") /\ entry = 0
           /\ WaitOn(t, Receivers, arg[t].timed)
           /\ Goto(t, "recvSched")
  <2>1. t = k.cur /\ ~Suspended(k, t) /\ InRecv(t) /\ ~InSend(t) /\ held[t] = Null
    BY <1>4, AtFacts DEF Woken, Holding
  <2>2. t # Idle /\ Due(Receivers) = 0
    BY <1>4, <2>1, InvFacts DEF Due, InCall
  <2> QED BY <1>1, <1>2, <1>4, <2>1, <2>2, WaitStep
<1> QED BY <1>3, <1>4 DEF WaitAgain

\* a wait that ended with an error
LEMMA WaitFailedStep ==
  ASSUME Inv, NEW t \in Thread, WaitFailed(t)
  PROVE  Inv' /\ UNCHANGED Abs!vars
<1>1. /\ At(t, "sendWoken") \/ At(t, "recvWoken")
      /\ k.error[t] # "EOK" /\ Goto(t, "run") /\ EndCall(t) /\ k' = k
      /\ UNCHANGED mq /\ UNCHANGED <<alive, held, got>>
  BY DEF WaitFailed
<1>2. t = k.cur /\ ~Suspended(k, t) /\ pc[t] \in {"sendWoken", "recvWoken"}
  BY <1>1, AtFacts
<1>3. \A o \in WaitObj : t \notin Coming(o)
  BY <1>1 DEF Coming, Comes
<1>4. Typed' /\ \A u \in Thread : u # t => arg'[u] = arg[u]
  BY <1>1, EndCallFacts, InvFacts DEF Typed
<1>5. Moves({}, "EOK", {t}) /\ Leaves'
  <2>1. "run" \in PC
    BY DEF PC
  <2> QED BY <1>1, <1>2, <2>1, SameKernel, LeaveStep
<1>6. \A v \in Thread : Resting(v) \/ (pc'[v] = pc[v] /\ arg'[v] = arg[v])
  <2>1. Resting(t)
    BY <1>1, <1>2, InvFacts DEF Goto, Resting, Holding, InSend
  <2>2. \A v \in Thread : v # t => pc'[v] = pc[v]
    BY <1>1, InvFacts DEF Goto
  <2> QED BY <1>4, <2>1, <2>2
<1>7. \A o \in WaitObj : \A u \in {t} : u \notin Coming(o)
  BY <1>3
<1>8. held' = held /\ got' = got
  BY <1>1
<1> QED BY <1>1, <1>4, <1>5, <1>6, <1>7, <1>8, QuietStep

\* a thread that finds that another one was faster, and has no time left
LEMMA TimeUsedUpStep ==
  ASSUME Inv, NEW t \in Thread, TimeUsedUp(t)
  PROVE  Inv' /\ UNCHANGED Abs!vars
<1>1. /\ \/ /\ Woken(t, "sendWoken") /\ free = Null
            /\ k' = [k EXCEPT !.error[t] = "EINTR"]
         \/ /\ Woken(t, "recvWoken") /\ entry = 0
            /\ k' = [k EXCEPT !.error[t] = "ETIMEOUT"]
      /\ Goto(t, "run") /\ EndCall(t) /\ UNCHANGED mq /\ UNCHANGED <<alive, held, got>>
  BY DEF TimeUsedUp
<1>2. t = k.cur /\ ~Suspended(k, t) /\ held[t] = Null
      /\ pc[t] \in {"sendWoken", "recvWoken"}
  BY <1>1, AtFacts DEF Woken, Holding
<1>3. PICK e \in Error : k' = [k EXCEPT !.error[t] = e]
  BY <1>1 DEF Error
<1>4. /\ Orderly(k') /\ k'.cur = k.cur /\ k'.stat = k.stat /\ k'.wait = k.wait
      /\ \A u \in Thread : k'.error[u] = IF u = t THEN e ELSE k.error[u]
  <2>1. InOrder(k, {}) /\ k' = SetError(k, t, e)
    BY <1>3, InvFacts DEF SetError
  <2> QED BY <2>1, ErrorOrderly
<1>5. pc' = [pc EXCEPT ![t] = "run"] /\ pc' \in [Thread -> PC] /\ pc'[t] = "run"
  BY <1>1, InvFacts DEF Goto, PC
<1>6. Moves({}, "EOK", {t})
  <2>1. \A o \in WaitObj : ToSet(k'.wait[o]) = ToSet(k.wait[o]) \ {}
    BY <1>4
  <2>2. \A u \in Thread : /\ u \notin {t} => k'.error[u] = k.error[u]
                          /\ Suspended(k', u) <=> Suspended(k, u)
    BY <1>4 DEF Suspended
  <2>3. \A u \in Thread, o \in WaitObj : InCall(u, o)' <=> InCall(u, o) /\ u \notin {t}
    BY <1>5, InvFacts DEF InCall, InRecv, InSend
  <2> QED BY <1>2, <1>4, <1>5, <2>1, <2>2, <2>3 DEF Moves
<1>7. Leaves'
  BY <1>2, <1>4 DEF Leaves, Suspended
<1>8. Typed' /\ \A u \in Thread : u # t => arg'[u] = arg[u]
  BY <1>1, EndCallFacts, InvFacts DEF Typed
<1>9. /\ Nodes' /\ Queued' = Queued /\ Unused' = Unused /\ entry' = entry /\ Kept(Thread)
      /\ data' = data /\ held' = held /\ got' = got
  BY <1>1, InvFacts, SameNodes DEF mq
<1>10. Hand(t)' /\ GotIs(t)' = GotIs(t)
  BY <1>2, <1>5, <1>9 DEF Hand, GotIs, Holding, InSend
<1>11. \A v \in Thread : v # t => Hand(v)' /\ GotIs(v)' = GotIs(v)
  <2>1. Kept(Thread \ {t})
    BY <1>9 DEF Kept
  <2>2. \A v \in Thread : v # t => held'[v] = held[v] /\ got'[v] = got[v]
    BY <1>9
  <2> QED BY <1>1, <1>8, <2>1, <2>2, OthersLemma
<1>12. ASSUME NEW o \in WaitObj PROVE Account(o)'
  <2>1. Due(o)' = Due(o) /\ Cardinality(Coming(o)') \in Nat
    BY <1>6, <1>9, MovesLemma DEF Due
  <2>2. CASE Due(o) = 0
    BY <2>1, <2>2 DEF Account
  <2>3. CASE Due(o) # 0
    <3>1. t \notin Coming(o)
      <4>1. CASE Woken(t, "sendWoken") /\ free = Null
        <5>1. o = Receivers
          BY <2>3, <4>1, NoneFree
        <5> QED BY <4>1, <5>1, AtFacts DEF Woken, Coming
      <4>2. CASE Woken(t, "recvWoken") /\ entry = 0
        <5>1. o = Senders
          BY <2>3, <4>2 DEF Due
        <5> QED BY <4>2, <5>1, AtFacts DEF Woken, Coming
      <4> QED BY <1>1, <4>1, <4>2
    <3>2. \A u \in {t} : u \notin Coming(o)
      BY <3>1
    <3> QED BY <1>6, <2>1, <3>2, StillDue
  <2> QED BY <2>2, <2>3
<1>13. Inv'
  <2>1. \A v \in Thread : Hand(v)'
    BY <1>10, <1>11
  <2> QED BY <1>6, <1>7, <1>8, <1>9, <1>12, <2>1, InvStep
<1>14. AbsQueue' = AbsQueue
  BY <1>9 DEF AbsQueue
<1> QED BY <1>10, <1>11, <1>13, <1>14, SameQueue

\* rt_mq_control(RT_IPC_CMD_RESET)
LEMMA ResetStep ==
  ASSUME Inv, NEW t \in Thread, Reset(t)
  PROVE  Inv' /\ Abs!Clear
<1> DEFINE m == ResumeAll(k, Receivers)
           n == ResumeAll(m, Senders)
           R == ToSet(k.wait[Receivers])
           S == ToSet(m.wait[Senders])
<1>1. /\ At(t, "run") /\ k' = n /\ Emptied /\ Goto(t, "sched") /\ entry' = 0
      /\ data' = [x \in Node |-> IF x \in ToSet(Chain(head)) THEN NoMessage ELSE data[x]]
      /\ held' = held /\ alive' = alive /\ arg' = arg /\ got' = got
  BY DEF Reset, Calls
<1>2. /\ t = k.cur /\ ~Suspended(k, t) /\ pc[t] = "run" /\ ~InSend(t) /\ held[t] = Null
  BY <1>1, AtFacts DEF Holding
<1>3. Receivers \in WaitObj /\ Senders \in WaitObj /\ WaitObj = {Receivers, Senders} /\ Orderly(k)
  BY InvFacts
<1>4. Orderly(m) /\ Awakened(m, k, R, "ERROR") /\ m.cur = k.cur
  BY <1>3, ResumeAllOrderly
<1>5. Orderly(n) /\ Awakened(n, m, S, "ERROR") /\ n.cur = m.cur
  BY <1>3, <1>4, ResumeAllOrderly
<1>6. /\ \A u \in R : u \in Thread /\ Suspended(k, u)
      /\ \A u \in S : u \in Thread /\ Suspended(m, u)
  BY <1>3, <1>4, OrderlyFacts DEF Suspended
<1> HIDE DEF m, n, R, S
<1>7. Awakened(n, k, R \cup S, "ERROR")
  <2>1. \A o \in WaitObj : ToSet(n.wait[o]) = ToSet(k.wait[o]) \ (R \cup S)
    BY <1>4, <1>5 DEF Awakened
  <2>2. \A u \in Thread : n.error[u] = IF u \in R \cup S THEN "ERROR" ELSE k.error[u]
    BY <1>4, <1>5 DEF Awakened
  <2>3. \A u \in Thread : Suspended(n, u) <=> Suspended(k, u) /\ u \notin R \cup S
    BY <1>4, <1>5 DEF Awakened
  <2>4. n.timer \subseteq k.timer
    BY <1>4, <1>5 DEF Awakened
  <2> QED BY <2>1, <2>2, <2>3, <2>4 DEF Awakened
<1>8. \A u \in R \cup S : u \in Thread /\ Suspended(k, u)
  BY <1>4, <1>6 DEF Awakened
<1>9. Moves(R \cup S, "ERROR", {t}) /\ Leaves'
  <2>1. "sched" \in PC
    BY DEF PC
  <2> QED BY <1>1, <1>2, <1>4, <1>5, <1>7, <1>8, <2>1, LeaveStep
<1>10. ~HasWaiter(k', Receivers) /\ ~HasWaiter(k', Senders)
  <2>1. ToSet(n.wait[Receivers]) = {} /\ ToSet(n.wait[Senders]) = {}
    BY <1>3, <1>4, <1>5 DEF Awakened, R, S
  <2> QED BY <1>1, <1>3, <1>5, <2>1, OrderlyFacts
<1>11. Nodes' /\ Queued' = <<>> /\ Kept(Thread)
  BY <1>1, InvFacts, EmptyNodes DEF Queued
<1>12. Typed'
  BY <1>1, InvFacts DEF Typed
<1>13. \A o \in WaitObj : Account(o)'
  BY <1>3, <1>10 DEF Account
<1>14. \A v \in Thread : Hand(v)' /\ GotIs(v)' = GotIs(v)
  <2>1. pc'[t] = "sched"
    BY <1>1, InvFacts DEF Goto
  <2>2. Hand(t)' /\ GotIs(t)' = GotIs(t)
    BY <1>1, <1>2, <2>1 DEF Hand, GotIs, Holding, InSend
  <2>3. Kept(Thread \ {t})
    BY <1>11 DEF Kept
  <2>4. \A v \in Thread : v # t => held'[v] = held[v] /\ arg'[v] = arg[v] /\ got'[v] = got[v]
    BY <1>1
  <2>5. \A v \in Thread : v # t => Hand(v)' /\ GotIs(v)' = GotIs(v)
    BY <1>1, <2>3, <2>4, OthersLemma
  <2> QED BY <2>2, <2>5
<1>15. Inv'
  <2>1. \A v \in Thread : Hand(v)'
    BY <1>14
  <2> QED BY <1>9, <1>11, <1>12, <1>13, <2>1, InvStep
<1>16. AbsQueue' = <<>>
  BY <1>11 DEF AbsQueue, Contents
<1> QED BY <1>14, <1>15, <1>16, IsClear

\* The current thread goes on outside the calls, and the lists stay as they are.
LEMMA GoOnStep ==
  ASSUME Inv, NEW t \in Thread, NEW l \in {"run", "drainR", "oneR", "drainS", "oneS",
                                           "detachObject", "fault"},
         Goto(t, l), t = k.cur, ~Suspended(k, t), pc[t] \in {"run"} \cup InDetach,
         NEW W, NEW e, Orderly(k'), Awakened(k', k, W, e), k'.cur = k.cur,
         \A u \in W : u \in Thread /\ Suspended(k, u),
         UNCHANGED mq, held' = held, got' = got, arg' = arg, alive' \in BOOLEAN
  PROVE  Inv' /\ UNCHANGED Abs!vars
<1>1. l \in PC /\ l \notin {"recvSched", "recvWoken", "sendSched", "sendWoken"} /\ l \notin Holding
  BY DEF PC, Holding
<1>2. Moves(W, e, {t}) /\ Leaves'
  BY <1>1, LeaveStep
<1>3. \A o \in WaitObj : \A u \in {t} : u \notin Coming(o)
  BY DEF Coming, InCall, InRecv, InSend, InDetach
<1>4. Typed'
  BY InvFacts DEF Typed
<1>5. \A v \in Thread : Resting(v) \/ (pc'[v] = pc[v] /\ arg'[v] = arg[v])
  <2>1. Resting(t)
    <3>1. pc'[t] = l
      BY InvFacts DEF Goto
    <3> QED BY <1>1, <3>1 DEF Resting, Holding, InSend, InDetach
  <2>2. \A v \in Thread : v # t => pc'[v] = pc[v]
    BY InvFacts DEF Goto
  <2> QED BY <2>1, <2>2
<1> QED BY <1>2, <1>3, <1>4, <1>5, QuietStep

\* the steps of rt_mq_detach that look at a list or finish
LEMMA DetachStep ==
  ASSUME Inv, NEW t \in Thread, Detach(t) \/ DrainLook(t) \/ DetachObject(t)
  PROVE  Inv' /\ UNCHANGED Abs!vars
<1>1. /\ \E l \in {"run", "drainR", "drainS", "detachObject"} : At(t, l)
      /\ \E l \in {"run", "drainR", "oneR", "drainS", "oneS", "detachObject", "fault"} : Goto(t, l)
      /\ k' = k /\ UNCHANGED mq /\ arg' = arg /\ got' = got /\ held' = held
  BY DEF Detach, DrainLook, DetachObject, Calls
<1>2. t = k.cur /\ ~Suspended(k, t) /\ pc[t] \in {"run"} \cup InDetach
  BY <1>1, AtFacts DEF InDetach
<1>3. alive' \in BOOLEAN
  BY InvFacts DEF Typed, Detach, DrainLook, DetachObject
<1>4. Orderly(k') /\ Awakened(k', k, {}, "EOK") /\ k'.cur = k.cur
  BY <1>1, SameKernel
<1> DEFINE W == {}
<1>5. Awakened(k', k, W, "EOK") /\ \A u \in W : u \in Thread /\ Suspended(k, u)
  BY <1>4
<1> HIDE DEF W
<1> QED BY <1>1, <1>2, <1>3, <1>4, <1>5, GoOnStep

\* one turn of _ipc_list_resume_all in rt_mq_detach
LEMMA DrainOneStep ==
  ASSUME Inv, NEW t \in Thread, NEW o \in WaitObj,
         NEW one \in {"oneR", "oneS"}, NEW look \in {"drainR", "drainS"},
         DrainOne(t, o, one, look)
  PROVE  Inv' /\ UNCHANGED Abs!vars
<1>1. /\ At(t, one) /\ UNCHANGED mq /\ alive' = alive /\ arg' = arg /\ got' = got /\ held' = held
      /\ \E l \in {"run", "drainR", "oneR", "drainS", "oneS", "detachObject", "fault"} : Goto(t, l)
  BY DEF DrainOne
<1>2. t = k.cur /\ ~Suspended(k, t) /\ pc[t] \in {"run"} \cup InDetach
  BY <1>1, AtFacts DEF InDetach
<1>3. alive' \in BOOLEAN
  BY <1>1, InvFacts DEF Typed
<1>4. CASE HasWaiter(k, o)
  <2> DEFINE u == Head(k.wait[o])
             W == {u}
  <2>1. k' = ResumeFailed(k, u)
    BY <1>4 DEF DrainOne
  <2>2. u \in Thread /\ Suspended(k, u)
    BY <1>4, InvFacts, OrderlyFacts DEF Suspended
  <2> HIDE DEF u
  <2>3. Orderly(k') /\ Awakened(k', k, {u}, "ERROR") /\ k'.cur = k.cur
    BY <2>1, <2>2, ResumeFailedOrderly, InvFacts
  <2>4. Awakened(k', k, W, "ERROR") /\ \A v \in W : v \in Thread /\ Suspended(k, v)
    BY <2>2, <2>3
  <2> HIDE DEF W
  <2> QED BY <1>1, <1>2, <1>3, <2>3, <2>4, GoOnStep
<1>5. CASE ~HasWaiter(k, o)
  <2> DEFINE W == {}
  <2>1. k' = k
    BY <1>5 DEF DrainOne
  <2>2. Orderly(k') /\ Awakened(k', k, W, "EOK") /\ k'.cur = k.cur
    BY <2>1, SameKernel
  <2>3. \A v \in W : v \in Thread /\ Suspended(k, v)
    OBVIOUS
  <2> HIDE DEF W
  <2> QED BY <1>1, <1>2, <1>3, <2>2, <2>3, GoOnStep
<1> QED BY <1>4, <1>5

\* rt_schedule at the end of a function
LEMMA DoScheduleStep ==
  ASSUME Inv, NEW t \in Thread, DoSchedule(t)
  PROVE  Inv' /\ UNCHANGED Abs!vars
<1>1. /\ \/ At(t, "sched") /\ Goto(t, "run")
         \/ At(t, "sendSched") /\ Goto(t, "sendWoken")
         \/ At(t, "recvSched") /\ Goto(t, "recvWoken")
      /\ k' = Schedule(k) /\ UNCHANGED mq /\ UNCHANGED <<alive, held, arg, got>>
  BY DEF DoSchedule
<1>2. Orderly(k') /\ Keeps(k', k) /\ ~Suspended(k', k'.cur)
  BY <1>1, ScheduleOrderly, InvFacts
<1>3. pc' \in [Thread -> PC] /\ pc \in [Thread -> PC]
  BY <1>1, InvFacts DEF Goto, PC
<1>4. ASSUME NEW u \in Thread
      PROVE  /\ InRecv(u)' <=> InRecv(u)
             /\ InSend(u)' <=> InSend(u)
             /\ pc'[u] # pc[u] => pc[u] \notin Holding /\ pc'[u] \notin Holding
  BY <1>1, <1>3 DEF At, Goto, InRecv, InSend, Holding
<1>5. Moves({}, "EOK", {})
  <2>1. \A u \in Thread, o \in WaitObj : InCall(u, o)' <=> InCall(u, o)
    BY <1>4 DEF InCall
  <2> QED BY <1>2, <1>3, <2>1 DEF Moves, Keeps, Awakened
<1>6. Leaves'
  BY <1>2 DEF Leaves
<1>7. Typed'
  BY <1>1, InvFacts DEF Typed
<1>8. \A v \in Thread : Resting(v) \/ (pc'[v] = pc[v] /\ arg'[v] = arg[v])
  <2> TAKE v \in Thread
  <2>1. InSend(v) => arg[v].msg \in Message
    BY InvFacts DEF Hand
  <2>2. arg' = arg
    BY <1>1
  <2> QED BY <1>4, <2>1, <2>2 DEF Resting
<1>9. held' = held /\ got' = got
  BY <1>1
<1> DEFINE X == {}
<1>10. Moves({}, "EOK", X) /\ \A o \in WaitObj : \A u \in X : u \notin Coming(o)
  BY <1>5
<1> HIDE DEF X
<1> QED BY <1>1, <1>6, <1>7, <1>8, <1>9, <1>10, QuietStep

\* rt_mq_send of an interrupt handler
LEMMA IsrSendStep ==
  ASSUME Inv, NEW m \in Message, IsrSend(m)
  PROVE  Inv' /\ Abs!Send(m)
<1> DEFINE n == Waking(Receivers)
           X == {}
<1>1. /\ free # Null /\ Passed(m) /\ entry' = entry + 1
      /\ k' = IF HasWaiter(k, Receivers) THEN Schedule(n) ELSE n
      /\ UNCHANGED <<pc, alive, held, arg, got>>
  BY DEF IsrSend, Passed
<1>2. /\ Orderly(n) /\ Awakened(n, k, Woke(Receivers), "EOK") /\ n.cur = k.cur
      /\ \A u \in Woke(Receivers) : u \in Thread /\ Suspended(k, u)
  BY WakingLemma, InvFacts
<1> HIDE DEF n
<1>3. /\ Orderly(k') /\ Awakened(k', k, Woke(Receivers), "EOK")
      /\ Suspended(k', k'.cur) => k'.cur = k.cur
  <2>1. CASE HasWaiter(k, Receivers)
    BY <2>1, <1>1, <1>2, WokenThenScheduled
  <2>2. CASE ~HasWaiter(k, Receivers)
    BY <2>2, <1>1, <1>2
  <2> QED BY <2>1, <2>2
<1>4. Moves(Woke(Receivers), "EOK", X) /\ Leaves'
  BY <1>1, <1>2, <1>3, KernelStep
<1>5. \A o \in WaitObj : \A u \in X : u \notin Coming(o)
  OBVIOUS
<1>6. \A u \in Thread : X \subseteq {u}
  OBVIOUS
<1> HIDE DEF X
<1>7. /\ Nodes' /\ Queued' = Append(Queued, free) /\ Len(Unused') = Len(Unused) - 1
      /\ Kept(Thread) /\ Contents(data', Queued') = Append(Contents(data, Queued), m)
  <2>1. Nodes /\ held' = held
    BY <1>1, InvFacts
  <2> QED BY <1>1, <2>1, PassNodes
<1>8. Typed'
  BY <1>1, InvFacts DEF Typed
<1>9. ASSUME NEW v \in Thread
      PROVE  Hand(v)' /\ GotIs(v)' = GotIs(v)
  <2>1. Untouched(v)
    BY <1>1 DEF Untouched
  <2> QED BY <1>7, <2>1, UntouchedHand
<1>10. Account(Receivers)' /\ Account(Senders)'
  <2>1. Due(Receivers)' = Due(Receivers) + 1 /\ Due(Senders)' = Due(Senders) - 1
    BY <1>1, <1>7 DEF Due
  <2>2. Account(Receivers)'
    BY <1>4, <1>5, <2>1, MoreDue, InvFacts
  <2>3. Account(Senders)'
    BY <1>4, <1>6, <2>1, LessDue, InvFacts
  <2> QED BY <2>2, <2>3
<1>11. Inv'
  <2>1. (\A v \in Thread : Hand(v)') /\ \A o \in WaitObj : Account(o)'
    BY <1>9, <1>10, InvFacts
  <2> QED BY <1>4, <1>7, <1>8, <2>1, InvStep
<1>12. Len(AbsQueue) < Cardinality(Node)
  <2>1. Len(AbsQueue) = entry /\ entry \in Nat
    BY InvFacts, ContentsFacts, NodesFacts DEF AbsQueue
  <2>2. entry' \in 0..Cardinality(Node)
    BY <1>7 DEF Nodes
  <2> QED BY <1>1, <2>1, <2>2, NodeCount
<1>13. AbsQueue' = Append(AbsQueue, m)
  BY <1>7 DEF AbsQueue
<1> QED BY <1>9, <1>11, <1>12, <1>13, IsSend

\* A step of the kernel that no function of the queue takes part in.
LEMMA AsideStep ==
  ASSUME Inv, NEW W, NEW e, Orderly(k'), Awakened(k', k, W, e),
         \A u \in W : u \in Thread /\ Suspended(k, u),
         Suspended(k', k'.cur) => k'.cur = k.cur,
         UNCHANGED mq, UNCHANGED <<pc, alive, held, arg, got>>
  PROVE  Inv' /\ UNCHANGED Abs!vars
<1> DEFINE X == {}
<1>1. Moves(W, e, X) /\ Leaves'
  BY KernelStep
<1>2. \A o \in WaitObj : \A u \in X : u \notin Coming(o)
  OBVIOUS
<1> HIDE DEF X
<1>3. Typed' /\ held' = held /\ got' = got
  BY InvFacts DEF Typed
<1>4. \A v \in Thread : Resting(v) \/ (pc'[v] = pc[v] /\ arg'[v] = arg[v])
  OBVIOUS
<1> QED BY <1>1, <1>2, <1>3, <1>4, QuietStep

\* the tick, and the timeout of a thread
LEMMA KernelOnlyStep ==
  ASSUME Inv, Tick \/ \E u \in Thread : TimerExpire(u)
  PROVE  Inv' /\ UNCHANGED Abs!vars
<1>1. UNCHANGED mq /\ UNCHANGED <<pc, alive, held, arg, got>>
  BY DEF Tick, TimerExpire
<1>2. CASE Tick
  <2> DEFINE W == {}
  <2>1. k' = TickSlice(k)
    BY <1>2 DEF Tick
  <2>2. Orderly(k') /\ Keeps(k', k) /\ (k'.cur = k.cur \/ ~Suspended(k', k'.cur))
    BY <2>1, TickOrderly, InvFacts
  <2>3. Awakened(k', k, W, "EOK") /\ \A u \in W : u \in Thread /\ Suspended(k, u)
    BY <2>2 DEF Keeps
  <2> HIDE DEF W
  <2> QED BY <1>1, <2>2, <2>3, AsideStep
<1>3. ASSUME NEW u \in Thread, TimerExpire(u)
      PROVE  Inv' /\ UNCHANGED Abs!vars
  <2> DEFINE W == {u}
  <2>1. u \in k.timer /\ k' = ThreadTimeout(k, u)
    BY <1>3 DEF TimerExpire
  <2>2. Suspended(k, u)
    BY <2>1, InvFacts DEF InOrder
  <2>3. Orderly(k') /\ Awakened(k', k, {u}, "ETIMEOUT") /\ ~Suspended(k', k'.cur)
    BY <2>1, <2>2, TimeoutOrderly, InvFacts
  <2>4. Awakened(k', k, W, "ETIMEOUT") /\ \A v \in W : v \in Thread /\ Suspended(k, v)
    BY <2>2, <2>3
  <2> HIDE DEF W
  <2> QED BY <1>1, <2>3, <2>4, AsideStep
<1> QED BY <1>2, <1>3

-----------------------------------------------------------------------------
(* The specification *)

\* each node of q points to the one after it
Following(nx, q) ==
  nx = [n \in Node |-> LET later == {i \in 2..Len(q) : q[i - 1] = n}
                       IN IF later = {} THEN Null ELSE q[Min(later)]]

LEMMA FollowingLinked ==
  ASSUME NEW q \in Seq(Node), IsInjective(q), q # <<>>, NEW nx, Following(nx, q)
  PROVE  nx \in [Node -> Node \cup {Null}] /\ Linked(nx, q, Head(q))
<1> DEFINE later(n) == {i \in 2..Len(q) : q[i - 1] = n}
<1>1. nx = [n \in Node |-> IF later(n) = {} THEN Null ELSE q[Min(later(n))]]
  BY DEF Following
<1>2. ASSUME NEW n \in Node, later(n) # {}
      PROVE  Min(later(n)) \in later(n)
  <2> DEFINE P == later(n)
  <2>1. P \subseteq Nat /\ P # {}
    BY <1>2
  <2> HIDE DEF P
  <2>2. \E m \in P : \A x \in P : m <= x
    BY <2>1, LeastNatural
  <2>3. Min(P) \in P
    BY <2>2 DEF Min
  <2> QED BY <2>3 DEF P
<1>3. \A n \in Node : later(n) \subseteq 2..Len(q)
  OBVIOUS
<1>4. \A i \in 1..Len(q) : q[i] \in Node
  OBVIOUS
<1>5. \A i \in 1..Len(q) : \A j \in 2..Len(q) : j \in later(q[i]) <=> j = i + 1
  <2> TAKE i \in 1..Len(q)
  <2> TAKE j \in 2..Len(q)
  <2>1. j - 1 \in 1..Len(q) /\ Len(q) \in Nat
    OBVIOUS
  <2>2. q[j - 1] = q[i] <=> j - 1 = i
    BY <2>1 DEF IsInjective
  <2>3. j - 1 = i <=> j = i + 1
    BY <2>1
  <2> QED BY <2>2, <2>3
<1> HIDE DEF later
<1>6. nx \in [Node -> Node \cup {Null}]
  <2>1. ASSUME NEW n \in Node, later(n) # {}
        PROVE  q[Min(later(n))] \in Node
    <3>1. Min(later(n)) \in 1..Len(q)
      BY <2>1, <1>2, <1>3
    <3> QED BY <3>1, <1>4
  <2> QED BY <1>1, <2>1
<1>7. ASSUME NEW i \in 1..Len(q)
      PROVE  nx[q[i]] = IF i < Len(q) THEN q[i + 1] ELSE Null
  <2>1. nx[q[i]] = IF later(q[i]) = {} THEN Null ELSE q[Min(later(q[i]))]
    BY <1>1, <1>4
  <2>2. CASE i < Len(q)
    <3>1. i + 1 \in 2..Len(q) /\ i + 1 \in later(q[i])
      BY <2>2, <1>5
    <3>2. Min(later(q[i])) \in later(q[i])
      BY <3>1, <1>2, <1>4
    <3>3. Min(later(q[i])) = i + 1
      BY <3>2, <1>3, <1>4, <1>5
    <3> QED BY <2>1, <2>2, <3>1, <3>3
  <2>3. CASE ~(i < Len(q))
    <3>1. i + 1 \notin 2..Len(q)
      BY <2>3
    <3>2. later(q[i]) = {}
      BY <3>1, <1>3, <1>4, <1>5
    <3> QED BY <2>1, <2>3, <3>2
  <2> QED BY <2>2, <2>3
<1>8. Head(q) = IF Len(q) = 0 THEN Null ELSE q[1]
  OBVIOUS
<1>9. Linked(nx, q, Head(q))
  BY <1>7, <1>8, LinkedFacts
<1> QED BY <1>6, <1>9

\* At the start every node is free.
LEMMA InitNodes ==
  ASSUME Init
  PROVE  Nodes /\ Queued = <<>>
<1> DEFINE e == <<>>
           u == SetToSeq(Node)
<1>1. /\ u \in Seq(Node) /\ IsInjective(u) /\ ToSet(u) = Node /\ Len(u) = Cardinality(Node)
  BY SetToSeqLemma
<1>2. free = Head(u) /\ Following(next, u)
  BY DEF Init, Following
<1>3. /\ data = [n \in Node |-> NoMessage] /\ head = Null /\ tail = Null /\ entry = 0
      /\ held = [t \in Thread |-> Null]
  BY DEF Init
<1> HIDE DEF u
<1>4. u # <<>>
  BY <1>1, HeadLemma
<1>5. next \in [Node -> Node \cup {Null}] /\ Linked(next, u, free)
  BY <1>1, <1>2, <1>4, FollowingLinked
<1>6. /\ e \in Seq(Node) /\ Len(e) = 0 /\ ToSet(e) = {} /\ IsInjective(e) /\ End(e) = Null
  <2>1. e \in Seq(Node) /\ Len(e) = 0 /\ End(e) = Null
    BY DEF End
  <2> QED BY <2>1, HeadLemma
<1>7. Linked(next, e, head)
  BY <1>3, <1>6 DEF Linked
<1> HIDE DEF e
<1>8. data \in Filling /\ held \in Hands /\ \A t \in Thread : held[t] = Null
  BY <1>3 DEF Filling, Content, Hands
<1>9. Shared(e, u, held)
  <2> DEFINE copied == {t \in Thread : held[t] # Null}
             hands  == {held[t] : t \in copied}
  <2>1. copied = {} /\ hands = {}
    BY <1>8
  <2>2. Cardinality(copied) = 0
    BY <2>1, FS_EmptySet
  <2>3. Len(e) + Len(u) + Cardinality(copied) = Cardinality(Node)
    BY <1>1, <1>6, <2>2, NodeCount
  <2> HIDE DEF copied, hands
  <2>4. /\ \A t, v \in copied : t # v => held[t] # held[v]
        /\ ToSet(e) \cap ToSet(u) = {} /\ (ToSet(e) \cup ToSet(u)) \cap hands = {}
        /\ ToSet(e) \cup ToSet(u) \cup hands = Node
    BY <1>1, <1>6, <2>1
  <2> QED BY <1>1, <1>6, <2>3, <2>4 DEF Shared, copied, hands
<1>10. /\ Len(e) \in Nat /\ Len(e) <= Cardinality(Node)
       /\ Len(u) \in Nat /\ Len(u) <= Cardinality(Node)
  BY <1>1, <1>6, <1>8, <1>9, SharedSize
<1>11. ChainOf(next, head) = e /\ ChainOf(next, free) = u
  BY <1>1, <1>5, <1>6, <1>7, <1>10, ChainIs
<1>12. Queued = e /\ Unused = u /\ Chain(head) = e /\ Chain(free) = u
  BY <1>11 DEF Queued, Unused, Chain
<1>13. head \in Node \cup {Null} /\ free \in Node \cup {Null} /\ tail \in Node \cup {Null}
  BY <1>1, <1>3, <1>5, ListEnds
<1>14. entry = Len(e) /\ tail = End(e) /\ entry \in 0..Cardinality(Node)
  BY <1>3, <1>6, NodeCount
<1>15. NodeOwned
  BY <1>5, <1>7, <1>9, <1>12, <1>14 DEF NodeOwned, End
<1>16. Nodes
  BY <1>1, <1>5, <1>6, <1>8, <1>12, <1>13, <1>14, <1>15 DEF Nodes
<1> QED BY <1>12, <1>16 DEF e

LEMMA InitInv ==
  ASSUME Init
  PROVE  Inv /\ Abs!Init
<1>1. /\ k = StartedKernel /\ pc = [t \in Thread |-> "run"] /\ alive = TRUE
      /\ held = [t \in Thread |-> Null]
      /\ arg = [t \in Thread |-> NoCall] /\ got = [t \in Thread |-> NoMessage]
  BY DEF Init
<1>2. /\ Orderly(k) /\ k.cur \in Thread /\ k \in Kernel
      /\ \A t \in Thread : ~Suspended(k, t)
      /\ \A o \in WaitObj : ToSet(k.wait[o]) = {} /\ ~HasWaiter(k, o)
  BY <1>1, StartedLemma
<1>3. pc \in [Thread -> PC] /\ \A t \in Thread : ~InRecv(t) /\ ~InSend(t)
  BY <1>1 DEF PC, InRecv, InSend
<1>4. Nodes /\ Queued = <<>>
  BY InitNodes
<1>5. Typed
  <2>1. NoCall \in Call /\ NoMessage \in Content
    BY DEF NoCall, Call, Content
  <2> QED BY <1>1, <2>1 DEF Typed
<1>6. \A t \in Thread : Hand(t) /\ GotIs(t) = NoMessage
  BY <1>1, <1>3 DEF Hand, Holding, GotIs
<1>7. WaitsRight
  BY <1>2, <1>3 DEF WaitsRight, Waits
<1>8. \A o \in WaitObj : Account(o)
  BY <1>2 DEF Account
<1>9. Parts
  <2>1. Leaves /\ ~InSend(Idle) /\ ~InRecv(Idle)
    BY <1>2, <1>3 DEF Leaves
  <2> QED BY <1>2, <1>3, <1>4, <1>5, <1>6, <1>7, <1>8, <2>1 DEF Parts
<1>10. AbsQueue = <<>> /\ AbsGot = [t \in Thread |-> NoMessage]
  BY <1>4, <1>6 DEF AbsQueue, Contents, AbsGot
<1>11. Abs!Init
  BY <1>10 DEF Abs!Init, AbsQueue, Contents, Queued, AbsGot, GotIs
<1> QED BY <1>9, <1>11, PartsAre

LEMMA NextStep ==
  ASSUME Inv, [Next]_vars
  PROVE  Inv' /\ [Abs!Next]_(Abs!vars)
<1>1. CASE UNCHANGED vars
  <2> DEFINE W == {}
  <2>1. k' = k /\ UNCHANGED mq /\ UNCHANGED <<pc, alive, held, arg, got>>
    BY <1>1 DEF vars
  <2>2. Orderly(k') /\ Awakened(k', k, W, "EOK") /\ k'.cur = k.cur
    BY <2>1, SameKernel
  <2>3. \A u \in W : u \in Thread /\ Suspended(k, u)
    OBVIOUS
  <2> HIDE DEF W
  <2> QED BY <2>1, <2>2, <2>3, AsideStep
<1>2. ASSUME NEW t \in Thread, ThreadStep(t)
      PROVE  Inv' /\ [Abs!Next]_(Abs!vars)
  <2>1. CASE RecvNow(t) \/ RecvAgain(t)
    <3>1. (At(t, "run") \/ At(t, "recvWoken")) /\ TakeHead(t)
      BY <2>1 DEF RecvNow, RecvAgain, Calls, Woken
    <3> QED BY <3>1, ReceiveStep DEF Abs!Next
  <2>2. CASE SendAgain(t) \/ \E m \in Message, urgent \in BOOLEAN : SendNow(t, m, urgent)
    BY <2>2, SendStep
  <2>3. CASE CopyIn(t)
    BY <2>3, CopyInStep
  <2>4. CASE PutMessage(t)
    BY <2>4, PutMessageStep DEF Abs!Next
  <2>5. CASE CopyOut(t)
    BY <2>5, CopyOutStep
  <2>6. CASE FreeNode(t)
    BY <2>6, FreeNodeStep
  <2>7. CASE Reset(t)
    BY <2>7, ResetStep DEF Abs!Next
  <2>8. CASE DoSchedule(t)
    BY <2>8, DoScheduleStep
  <2>9. CASE WaitFailed(t)
    BY <2>9, WaitFailedStep
  <2>10. CASE WaitAgain(t)
    BY <2>10, WaitAgainStep
  <2>11. CASE TimeUsedUp(t)
    BY <2>11, TimeUsedUpStep
  <2>12. CASE Detach(t) \/ DrainLook(t) \/ DetachObject(t)
    BY <2>12, DetachStep
  <2>13. CASE DrainOne(t, Receivers, "oneR", "drainR") \/ DrainOne(t, Senders, "oneS", "drainS")
    BY <2>13, DrainOneStep
  <2>14. CASE \E timed \in Timed : RecvWait(t, timed)
    BY <2>14, FirstWaitStep
  <2>15. CASE \E m \in Message, timed \in Timed : SendWait(t, m, timed)
    BY <2>15, FirstWaitStep
  <2> QED
    BY <1>2, <2>1, <2>2, <2>3, <2>4, <2>5, <2>6, <2>7, <2>8, <2>9, <2>10, <2>11, <2>12,
       <2>13, <2>14, <2>15
    DEF ThreadStep
<1>3. CASE \E m \in Message : IsrSend(m)
  BY <1>3, IsrSendStep DEF Abs!Next
<1>4. CASE Tick \/ \E u \in Thread : TimerExpire(u)
  BY <1>4, KernelOnlyStep
<1> QED BY <1>1, <1>2, <1>3, <1>4 DEF Next

\* Each node is in the queue, in the free list or in the hands of the one thread
\* that copies, and who waits is in the list for it, through timeouts, resets and a
\* detach (rt_mq_send_wait, rt_mq_urgent, rt_mq_recv, rt_mq_control, rt_mq_detach).
THEOREM MessageQueueConsistent == Spec => []Consistent
<1>1. Init => Inv
  BY InitInv
<1>2. Inv /\ [Next]_vars => Inv'
  BY NextStep
<1>3. Inv => Consistent
  BY DEF Inv
<1> QED BY <1>1, <1>2, <1>3, PTL DEF Spec

\* No wake-up is lost: each message has a receiver that comes for it while others
\* sleep, and each free node a sender, although _rt_mq_send_wait and _rt_mq_recv
\* change a node's list in two sections and whoever comes first takes it.
THEOREM MessageQueueNoWakeUpLost == Spec => []NoWakeUpLost
<1>1. Init => Inv
  BY InitInv
<1>2. Inv /\ [Next]_vars => Inv'
  BY NextStep
<1>3. Inv => NoWakeUpLost
  BY DEF Inv
<1> QED BY <1>1, <1>2, <1>3, PTL DEF Spec

\* The lists of ipc.c's message queue implement the bounded queue, although the
\* copies are made with interrupts enabled: no message is lost, mixed up with
\* another, received twice or out of order, whatever the nodes and the threads.
THEOREM MessageQueueImplements == Spec => Implements
<1>1. Init => Inv /\ Abs!Init
  BY InitInv
<1>2. Inv /\ [Next]_vars => Inv' /\ [Abs!Next]_(Abs!vars)
  BY NextStep
<1> QED BY <1>1, <1>2, PTL DEF Spec, Implements, Abs!Spec
=============================================================================
