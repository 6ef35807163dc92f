------------------------- MODULE TimerManagerProofs -------------------------
(***************************************************************************)
(* What holds of TimerManager for any finite set of timers, any times and  *)
(* any bounds, with careful clients: the types, that the list of timers is *)
(* sorted and ends, that no registration is slept through, how far a time  *)
(* that is not normalized makes the manager oversleep, and which timers it *)
(* may use after their destruction.                                        *)
(***************************************************************************)
EXTENDS TimerManager, FiniteSetTheorems, WellFoundedInduction, TLAPS

(* A set of numbers has a least element: induction, for a given set. *)
LEMMA LeastExists ==
    ASSUME NEW T, T \subseteq Nat, T # {}
    PROVE  \E x \in T : \A y \in T : x <= y
<1>1. PICK x \in T : \A y \in T : ~(<<y, x>> \in OpToRel(<, Nat))
  BY NatLessThanWellFounded, WFMin
<1>2. ASSUME NEW y \in T PROVE ~(y < x)
  <2>1. <<y, x>> \in Nat \X Nat
    OBVIOUS
  <2>2. ~(<<y, x>>[1] < <<y, x>>[2])
    BY <1>1, <2>1 DEF OpToRel
  <2> QED BY <2>2
<1>3. \A y \in T : x <= y
  BY <1>2
<1> QED BY <1>3

-----------------------------------------------------------------------------
(* TTimeValue                                                              *)

LEMMA Fields ==
    /\ PerSecond \in Nat /\ PerSecond # 0 /\ Zero \in Instants /\ Instants \subseteq TimeValues
    /\ \A a \in TimeValues : a.Seconds \in Nat /\ a.Nanosec \in Nat /\ a.Nanosec <= 2 * PerSecond - 2
    /\ \A a \in Instants : a.Seconds \in Nat /\ a.Nanosec \in Nat /\ a.Nanosec < PerSecond
<1>1. PerSecond \in Nat /\ PerSecond # 0
  BY TimerAssumption
<1>2. 0 \in 0..PerSecond - 1 /\ \A n \in 0..PerSecond - 1 : n \in 0..2 * PerSecond - 2 /\ n \in Nat /\ n < PerSecond
  BY <1>1
<1>3. \A n \in 0..2 * PerSecond - 2 : n \in Nat /\ n <= 2 * PerSecond - 2
  BY <1>1
<1> QED
  BY <1>1, <1>2, <1>3 DEF Instants, TimeValues, Zero

(* operator< is a strict order whose complement is transitive. *)
LEMMA OrderLaws ==
    /\ \A a, b \in TimeValues : Before(a, b) => ~Before(b, a)
    /\ \A a, b, c \in TimeValues : ~Before(b, a) /\ ~Before(c, b) => ~Before(c, a)
  BY Fields DEF Before

(* normalize makes a time of the sum of two, and moves no time that is one. *)
LEMMA NormalIs ==
    ASSUME NEW s \in Nat, NEW n \in Nat, n < 2 * PerSecond
    PROVE  LET a == [Seconds |-> s, Nanosec |-> n]
           IN  /\ Normal(a) \in Instants
               /\ Normal(a).Seconds = IF n < PerSecond THEN s ELSE s + 1
               /\ Normal(a).Nanosec = IF n < PerSecond THEN n ELSE n - PerSecond
<1> DEFINE a == [Seconds |-> s, Nanosec |-> n]
<1>1. a.Seconds = s /\ a.Nanosec = n
  OBVIOUS
<1>2. CASE n < PerSecond
  <2>1. Normal(a) = a /\ n \in 0..PerSecond - 1
    BY <1>1, <1>2, Fields DEF Normal
  <2> QED BY <1>1, <1>2, <2>1 DEF Instants
<1>3. CASE ~(n < PerSecond)
  <2>1. Normal(a) = [Seconds |-> s + 1, Nanosec |-> n - PerSecond] /\ n - PerSecond \in 0..PerSecond - 1
        /\ s + 1 \in Nat
    BY <1>1, <1>3, Fields DEF Normal
  <2> QED BY <1>3, <2>1 DEF Instants
<1> QED
  BY <1>2, <1>3

LEMMA NormalOf ==
    ASSUME NEW a \in TimeValues
    PROVE  /\ Normal(a) \in Instants
           /\ Normal(a).Seconds = IF a.Nanosec < PerSecond THEN a.Seconds ELSE a.Seconds + 1
           /\ Normal(a).Nanosec = IF a.Nanosec < PerSecond THEN a.Nanosec ELSE a.Nanosec - PerSecond
<1>1. PICK s \in Nat, n \in Nat : a = [Seconds |-> s, Nanosec |-> n] /\ n < 2 * PerSecond
  <2>1. a = [Seconds |-> a.Seconds, Nanosec |-> a.Nanosec]
    BY DEF TimeValues
  <2>2. a.Nanosec < 2 * PerSecond
    BY Fields
  <2> QED BY <2>1, <2>2, Fields
<1>2. a.Seconds = s /\ a.Nanosec = n
  BY <1>1
<1> QED
  BY <1>1, <1>2, NormalIs

LEMMA SumIs ==
    ASSUME NEW a \in Instants, NEW b \in Instants
    PROVE  /\ RawSum(a, b) \in TimeValues /\ Sum(a, b) \in Instants
           /\ RawSum(a, b).Nanosec >= PerSecond => RawSum(a, b) # Normal(RawSum(a, b))
<1> DEFINE c == RawSum(a, b)
<1>1. a.Seconds + b.Seconds \in Nat /\ a.Nanosec + b.Nanosec \in 0..2 * PerSecond - 2
  BY Fields
<1>2. c \in TimeValues
  BY <1>1 DEF RawSum, TimeValues
<1>3. Normal(c) \in Instants
  BY <1>2, NormalOf
<1>4. ASSUME c.Nanosec >= PerSecond PROVE c # Normal(c)
  <2>1. Normal(c).Seconds = c.Seconds + 1 /\ c.Seconds \in Nat
    BY <1>2, <1>4, NormalOf, Fields
  <2> QED BY <2>1
<1> QED
  BY <1>2, <1>3, <1>4 DEF Sum

(* The next tick of the clock. *)
LEMMA TickIs ==
    ASSUME NEW a \in Instants
    PROVE  Sum(a, [Seconds |-> 0, Nanosec |-> 1]) \in Instants /\ Before(a, Sum(a, [Seconds |-> 0, Nanosec |-> 1]))
<1> DEFINE c == [Seconds |-> a.Seconds + 0, Nanosec |-> a.Nanosec + 1]
<1>1. /\ a.Seconds + 0 \in Nat /\ a.Nanosec + 1 \in Nat /\ a.Nanosec + 1 < 2 * PerSecond
      /\ a.Seconds \in Nat /\ a.Nanosec \in Nat /\ a.Nanosec < PerSecond
  BY Fields
<1>2. PICK s \in Nat, n \in Nat : s = a.Seconds + 0 /\ n = a.Nanosec + 1 /\ n < 2 * PerSecond
  BY <1>1
<1>3. c = [Seconds |-> s, Nanosec |-> n]
  BY <1>2
<1>4. /\ Normal(c) \in Instants
      /\ Normal(c).Seconds = IF n < PerSecond THEN s ELSE s + 1
      /\ Normal(c).Nanosec = IF n < PerSecond THEN n ELSE n - PerSecond
  BY <1>2, <1>3, NormalIs
<1>5. Sum(a, [Seconds |-> 0, Nanosec |-> 1]) = Normal(c)
  BY DEF Sum, RawSum
<1> HIDE DEF c
<1>6. Before(a, Normal(c))
  BY <1>1, <1>2, <1>4, Fields DEF Before
<1> QED
  BY <1>4, <1>5, <1>6

(* The list is ordered by the fields, the delay is the one between the times:
   a time y that is not before x may nevertheless come before it, but only in
   the second of x, and when x is not normalized. *)
LEMMA OrderAndDelay ==
    ASSUME NEW x \in TimeValues, NEW y \in TimeValues, NEW d \in Instants,
           ~Before(y, x), ~Before(Normal(x), d), Before(Normal(y), d)
    PROVE  x.Nanosec >= PerSecond /\ Normal(y).Seconds = d.Seconds
<1>1. /\ Normal(x).Seconds = IF x.Nanosec < PerSecond THEN x.Seconds ELSE x.Seconds + 1
      /\ Normal(x).Nanosec = IF x.Nanosec < PerSecond THEN x.Nanosec ELSE x.Nanosec - PerSecond
      /\ Normal(y).Seconds = IF y.Nanosec < PerSecond THEN y.Seconds ELSE y.Seconds + 1
      /\ Normal(y).Nanosec = IF y.Nanosec < PerSecond THEN y.Nanosec ELSE y.Nanosec - PerSecond
  BY NormalOf
<1> QED
  BY <1>1, Fields DEF Before

-----------------------------------------------------------------------------
(* Linked lists of timers                                                  *)

\* head and next link the timers q[1], ..., q[k], each of them once, ...
Chain(head, next, q, k) ==
    /\ k \in Nat /\ q \in [1..k -> Timers]
    /\ \A i, j \in 1..k : q[i] = q[j] => i = j
    /\ head = IF k = 0 THEN Null ELSE q[1]
    /\ next \in [Timers -> Timers \cup {Null}]
    /\ \A i \in 1..k : next[q[i]] = IF i = k THEN Null ELSE q[i + 1]
\* ... and none expires before the ones in front of it.
Sorted(e, q, k) == \A i, j \in 1..k : i < j => ~Before(e[q[j]], e[q[i]])

\* The walk through a list that Walk is for the timers' one.
IsWalk(u, head, next) ==
    u = [n \in Nat |-> IF n = 0 THEN head ELSE IF u[n - 1] = Null THEN Null ELSE next[u[n - 1]]]
WalkOf(head, next) == CHOOSE u : IsWalk(u, head, next)

LEMMA WalkIs == Walk = WalkOf(m_pHead, m_pNext) /\ Walk' = WalkOf(m_pHead', m_pNext')
  BY DEF Walk, WalkOf, IsWalk

(* Two walks through one list agree. *)
LEMMA WalksAgree ==
    ASSUME NEW head, NEW next, NEW u, NEW v, IsWalk(u, head, next), IsWalk(v, head, next)
    PROVE  \A n \in Nat : u[n] = v[n]
<1> DEFINE T == {n \in Nat : u[n] # v[n]}
<1> SUFFICES ASSUME T # {} PROVE FALSE
  OBVIOUS
<1>1. PICK n \in T : \A m \in T : n <= m
  BY LeastExists
<1>2. /\ u[n] = IF n = 0 THEN head ELSE IF u[n - 1] = Null THEN Null ELSE next[u[n - 1]]
      /\ v[n] = IF n = 0 THEN head ELSE IF v[n - 1] = Null THEN Null ELSE next[v[n - 1]]
  BY <1>1 DEF IsWalk
<1>3. CASE n = 0
  BY <1>1, <1>2, <1>3
<1>4. CASE n # 0
  <2>1. n - 1 \in Nat /\ n - 1 \notin T
    BY <1>1, <1>4
  <2>2. u[n - 1] = v[n - 1]
    BY <2>1
  <2> QED BY <1>1, <1>2, <1>4, <2>2
<1> QED
  BY <1>3, <1>4

(* The walk finds the timers of the list, and then Null. *)
LEMMA ChainWalk ==
    ASSUME NEW head, NEW next, NEW q, NEW k, Chain(head, next, q, k)
    PROVE  \A n \in Nat : WalkOf(head, next)[n] = IF n < k THEN q[n + 1] ELSE Null
<1> DEFINE u == [n \in Nat |-> IF n < k THEN q[n + 1] ELSE Null]
<1>1. k \in Nat /\ \A i \in 1..k : q[i] \in Timers
  BY DEF Chain
<1>2. \A n \in Nat : u[n] = IF n = 0 THEN head ELSE IF u[n - 1] = Null THEN Null ELSE next[u[n - 1]]
  <2> TAKE n \in Nat
  <2>1. CASE n = 0
    BY <1>1, <2>1 DEF Chain
  <2>2. CASE n # 0
    <3>1. n - 1 \in Nat
      BY <2>2
    <3>2. u[n - 1] = IF n - 1 < k THEN q[n] ELSE Null
      BY <3>1
    <3>3. CASE n - 1 < k
      <4>1. n \in 1..k /\ u[n - 1] = q[n] /\ q[n] # Null
        BY <1>1, <2>2, <3>2, <3>3, TimerAssumption
      <4>2. next[q[n]] = IF n = k THEN Null ELSE q[n + 1]
        BY <4>1 DEF Chain
      <4>3. u[n] = IF n = k THEN Null ELSE q[n + 1]
        BY <1>1, <4>1
      <4> QED BY <2>2, <4>1, <4>2, <4>3
    <3>4. CASE ~(n - 1 < k)
      <4>1. ~(n < k) /\ u[n - 1] = Null
        BY <1>1, <3>1, <3>2, <3>4
      <4> QED BY <2>2, <4>1
    <3> QED BY <3>3, <3>4
  <2> QED BY <2>1, <2>2
<1>3. IsWalk(u, head, next)
  <2>1. u = [n \in Nat |-> IF n = 0 THEN head ELSE IF u[n - 1] = Null THEN Null ELSE next[u[n - 1]]]
    BY <1>2
  <2> QED BY <2>1 DEF IsWalk
<1>4. IsWalk(WalkOf(head, next), head, next)
  BY <1>3 DEF WalkOf
<1>5. \A n \in Nat : WalkOf(head, next)[n] = u[n]
  BY <1>3, <1>4, WalksAgree
<1> QED
  BY <1>5

(* A list of timers is no longer than there are timers. *)
LEMMA ChainShort ==
    ASSUME NEW head, NEW next, NEW q, NEW k, Chain(head, next, q, k)
    PROVE  k \in Nat /\ Size \in Nat /\ k <= Size
<1>1. k \in Nat /\ q \in Injection(1..k, Timers) /\ IsFiniteSet(Timers)
  BY TimerAssumption DEF Chain, Injection, IsInjective
<1>2. Cardinality(1..k) <= Cardinality(Timers)
  BY <1>1, FS_Injection
<1>3. Cardinality(1..k) = k
  <2>1. 1 \in Int /\ k \in Int /\ Cardinality(1..k) = IF 1 > k THEN 0 ELSE k - 1 + 1
    BY <1>1, FS_Interval
  <2> QED BY <1>1, <2>1
<1>4. Cardinality(Timers) \in Nat
  BY <1>1, FS_CardinalityType
<1> QED
  BY <1>1, <1>2, <1>3, <1>4 DEF Size

Names(q, k) == {q[i] : i \in 1..k}

(* What the walk finds is what is in the list. *)
LEMMA ChainTicking ==
    ASSUME NEW head, NEW next, NEW q, NEW k, Chain(head, next, q, k)
    PROVE  /\ WalkOf(head, next)[Size] = Null
           /\ {WalkOf(head, next)[n] : n \in 0..Size} \ {Null} = {q[i] : i \in 1..k}
<1> DEFINE u == WalkOf(head, next)
<1>1. /\ k \in Nat /\ Size \in Nat /\ k <= Size
      /\ \A n \in Nat : u[n] = IF n < k THEN q[n + 1] ELSE Null
      /\ \A i \in 1..k : q[i] \in Timers /\ q[i] # Null
  <2>1. k \in Nat /\ Size \in Nat /\ k <= Size
    BY ChainShort
  <2>2. \A n \in Nat : u[n] = IF n < k THEN q[n + 1] ELSE Null
    BY ChainWalk
  <2>3. \A i \in 1..k : q[i] \in Timers /\ q[i] # Null
    BY TimerAssumption DEF Chain
  <2> QED BY <2>1, <2>2, <2>3
<1> HIDE DEF u
<1>2. u[Size] = Null
  BY <1>1
<1>3. ASSUME NEW n \in 0..Size, u[n] # Null PROVE \E i \in 1..k : u[n] = q[i]
  <2>1. n < k /\ u[n] = q[n + 1] /\ n + 1 \in 1..k
    BY <1>1, <1>3
  <2> QED BY <2>1
<1>4. ASSUME NEW i \in 1..k PROVE q[i] # Null /\ \E n \in 0..Size : u[n] = q[i]
  <2>1. i - 1 \in 0..Size /\ i - 1 \in Nat /\ i - 1 < k /\ i - 1 + 1 = i
    BY <1>1
  <2>2. u[i - 1] = q[i]
    BY <1>1, <2>1
  <2> QED BY <1>1, <2>1, <2>2
<1>5. {u[n] : n \in 0..Size} \ {Null} = {q[i] : i \in 1..k}
  BY <1>3, <1>4
<1> QED
  BY <1>2, <1>5 DEF u

\* q with t behind its first p timers, and q without its j-th.
With(q, k, t, p) == [i \in 1..k + 1 |-> IF i <= p THEN q[i] ELSE IF i = p + 1 THEN t ELSE q[i - 1]]
Without(q, k, j) == [i \in 1..k - 1 |-> IF i < j THEN q[i] ELSE q[i + 1]]

\* The stores that put t behind the first p timers, and those that take the
\* j-th one out.
Linked(head, next, q, k, t, p, first, link) ==
    /\ first = IF p = 0 THEN t ELSE head
    /\ link \in [Timers -> Timers \cup {Null}]
    /\ link[t] = IF p < k THEN q[p + 1] ELSE Null
    /\ p # 0 => link[q[p]] = t
    /\ \A i \in 1..k : i # p => link[q[i]] = next[q[i]]
Unlinked(head, next, q, k, j, first, link) ==
    /\ first = IF j = 1 THEN next[q[1]] ELSE head
    /\ link \in [Timers -> Timers \cup {Null}]
    /\ j # 1 => link[q[j - 1]] = next[q[j]]
    /\ \A i \in 1..k : i # j - 1 => link[q[i]] = next[q[i]]

(* Linking a timer that is not in the list makes it the list with it. *)
LEMMA ChainWith ==
    ASSUME NEW head, NEW next, NEW q, NEW k, Chain(head, next, q, k),
           NEW t \in Timers, t \notin Names(q, k), NEW p \in 0..k, NEW first, NEW link,
           Linked(head, next, q, k, t, p, first, link)
    PROVE  /\ Chain(first, link, With(q, k, t, p), k + 1)
           /\ Names(With(q, k, t, p), k + 1) = Names(q, k) \cup {t}
<1> USE DEF Names, Linked
<1> DEFINE r == With(q, k, t, p)
<1>1. /\ k \in Nat /\ p \in Nat /\ p <= k
      /\ \A i \in 1..k : q[i] \in Timers /\ q[i] # t
      /\ \A i, j \in 1..k : q[i] = q[j] => i = j
      /\ head = IF k = 0 THEN Null ELSE q[1]
      /\ \A i \in 1..k : next[q[i]] = IF i = k THEN Null ELSE q[i + 1]
  BY DEF Chain
<1>2. /\ \A i \in 1..p : i \in 1..k /\ i \in 1..k + 1 /\ r[i] = q[i]
      /\ p + 1 \in 1..k + 1 /\ r[p + 1] = t
      /\ \A i \in p + 2..k + 1 : i - 1 \in 1..k /\ i \in 1..k + 1 /\ r[i] = q[i - 1]
      /\ \A i \in 1..k + 1 : i \in 1..p \/ i = p + 1 \/ i \in p + 2..k + 1
  BY <1>1 DEF With
<1>3. DOMAIN r = 1..k + 1 /\ r = [i \in 1..k + 1 |-> r[i]]
  BY DEF With
<1> HIDE DEF r
<1>4. \A i \in 1..k + 1 : r[i] \in Timers
  BY <1>1, <1>2
<1>5. r \in [1..k + 1 -> Timers]
  BY <1>3, <1>4
<1>6. ASSUME NEW i \in 1..k + 1, NEW j \in 1..k + 1, r[i] = r[j] PROVE i = j
  <2>1. CASE i = p + 1 \/ j = p + 1
    BY <1>1, <1>2, <1>6, <2>1
  <2>2. CASE i # p + 1 /\ j # p + 1
    <3>1. PICK a \in 1..k : r[i] = q[a] /\ a = IF i <= p THEN i ELSE i - 1
      BY <1>1, <1>2, <2>2
    <3>2. PICK b \in 1..k : r[j] = q[b] /\ b = IF j <= p THEN j ELSE j - 1
      BY <1>1, <1>2, <2>2
    <3>3. a = b
      <4>1. q[a] = q[b]
        BY <1>6, <3>1, <3>2
      <4> QED BY <4>1 DEF Chain
    <3> QED BY <1>1, <2>2, <3>1, <3>2, <3>3
  <2> QED BY <2>1, <2>2
<1>7. first = r[1]
  BY <1>1, <1>2
<1>8. ASSUME NEW i \in 1..k + 1 PROVE link[r[i]] = IF i = k + 1 THEN Null ELSE r[i + 1]
  <2>1. CASE i = p + 1
    <3>1. link[r[i]] = IF p < k THEN q[p + 1] ELSE Null
      BY <1>2, <2>1
    <3>2. CASE p < k
      <4>1. i + 1 \in p + 2..k + 1 /\ i + 1 - 1 = p + 1 /\ i # k + 1
        BY <1>1, <2>1, <3>2
      <4> QED BY <1>2, <3>1, <3>2, <4>1
    <3>3. CASE ~(p < k)
      BY <1>1, <2>1, <3>1, <3>3
    <3> QED BY <3>2, <3>3
  <2>2. CASE i = p
    <3>1. p # 0 /\ p \in 1..p /\ i # k + 1
      BY <1>1, <2>2
    <3>2. r[i] = q[p] /\ r[i + 1] = t
      BY <1>2, <2>2, <3>1
    <3> QED BY <3>1, <3>2
  <2>3. CASE i < p
    <3>1. i \in 1..p /\ i + 1 \in 1..p /\ i \in 1..k /\ i # k /\ i # k + 1 /\ i # p
      BY <1>1, <2>3
    <3>2. r[i] = q[i] /\ r[i + 1] = q[i + 1]
      BY <1>2, <3>1
    <3>3. link[q[i]] = q[i + 1]
      BY <1>1, <3>1
    <3> QED BY <3>1, <3>2, <3>3
  <2>4. CASE i > p + 1
    <3>1. PICK j \in Nat : j = i - 1
      BY <1>1, <2>4
    <3>2. i \in p + 2..k + 1 /\ j \in 1..k /\ j # p /\ r[i] = q[j]
      BY <1>1, <1>2, <2>4, <3>1
    <3>3. link[q[j]] = IF j = k THEN Null ELSE q[j + 1]
      BY <1>1, <3>2
    <3>4. CASE i = k + 1
      BY <1>1, <3>1, <3>2, <3>3, <3>4
    <3>5. CASE i # k + 1
      <4>1. i + 1 \in p + 2..k + 1 /\ i + 1 - 1 = j + 1 /\ j # k
        BY <1>1, <3>1, <3>2, <3>5
      <4>2. r[i + 1] = q[j + 1]
        BY <1>2, <4>1
      <4> QED BY <3>2, <3>3, <3>5, <4>1, <4>2
    <3> QED BY <3>4, <3>5
  <2> QED BY <1>1, <2>1, <2>2, <2>3, <2>4
<1>9. {r[i] : i \in 1..k + 1} = {q[i] : i \in 1..k} \cup {t}
  <2>1. ASSUME NEW i \in 1..k + 1 PROVE r[i] = t \/ \E j \in 1..k : r[i] = q[j]
    BY <1>2
  <2>2. \E i \in 1..k + 1 : r[i] = t
    BY <1>2
  <2>3. ASSUME NEW j \in 1..k PROVE \E i \in 1..k + 1 : r[i] = q[j]
    <3>1. CASE j <= p
      <4>1. j \in 1..p
        BY <1>1, <3>1
      <4> QED BY <1>2, <4>1
    <3>2. CASE ~(j <= p)
      <4>1. j + 1 \in p + 2..k + 1 /\ j + 1 - 1 = j
        BY <1>1, <3>2
      <4> QED BY <1>2, <4>1
    <3> QED BY <3>1, <3>2
  <2> QED BY <2>1, <2>2, <2>3
<1>10. k + 1 \in Nat /\ k + 1 # 0
  BY <1>1
<1>11. Chain(first, link, r, k + 1)
  BY <1>5, <1>6, <1>7, <1>8, <1>10 DEF Chain
<1> QED
  BY <1>9, <1>11 DEF r

(* It stays sorted when the timer goes where registerTimer stops. *)
LEMMA SortedWith ==
    ASSUME NEW q, NEW k \in Nat, q \in [1..k -> Timers], NEW e \in [Timers -> TimeValues], Sorted(e, q, k),
           NEW t \in Timers, NEW p \in 0..k,
           \A i \in 1..p : ~Before(e[t], e[q[i]]),
           p < k => Before(e[t], e[q[p + 1]])
    PROVE  Sorted(e, With(q, k, t, p), k + 1)
<1> DEFINE r == With(q, k, t, p)
<1>1. /\ p \in Nat /\ p <= k
      /\ \A i \in 1..k : e[q[i]] \in TimeValues
      /\ e[t] \in TimeValues
  OBVIOUS
<1>2. /\ \A i \in 1..p : i \in 1..k /\ r[i] = q[i]
      /\ r[p + 1] = t
      /\ \A i \in p + 2..k + 1 : i - 1 \in 1..k /\ r[i] = q[i - 1]
      /\ \A i \in 1..k + 1 : i \in 1..p \/ i = p + 1 \/ i \in p + 2..k + 1
  BY <1>1 DEF With
<1>3. \A i \in 1..p : ~Before(e[t], e[q[i]])
  BY <1>1, <1>2
<1>4. ASSUME NEW i \in p + 1..k PROVE ~Before(e[q[i]], e[t])
  <2>1. p < k /\ p + 1 \in 1..k /\ i \in 1..k
    BY <1>1
  <2>2. ~Before(e[q[p + 1]], e[t])
    BY <1>1, <2>1, OrderLaws
  <2>3. i # p + 1 => ~Before(e[q[i]], e[q[p + 1]])
    BY <1>1, <2>1 DEF Sorted
  <2> QED BY <1>1, <2>1, <2>2, <2>3, OrderLaws
<1> HIDE DEF r
<1>5. ASSUME NEW i \in 1..k + 1, NEW j \in 1..k + 1, i < j PROVE ~Before(e[r[j]], e[r[i]])
  <2>1. CASE j \in 1..p
    <3>1. i \in 1..p /\ i \in 1..k /\ j \in 1..k
      BY <1>1, <1>5, <2>1
    <3> QED BY <1>2, <1>5, <2>1, <3>1 DEF Sorted
  <2>2. CASE j = p + 1
    <3>1. i \in 1..p
      BY <1>1, <1>5, <2>2
    <3> QED BY <1>2, <1>3, <2>2, <3>1
  <2>3. CASE j \in p + 2..k + 1
    <3>1. PICK m \in Nat : m = j - 1
      BY <1>1, <2>3
    <3>2. m \in p + 1..k /\ m \in 1..k /\ r[j] = q[m]
      BY <1>1, <1>2, <2>3, <3>1
    <3>3. CASE i \in 1..p
      <4>1. i < m /\ i \in 1..k /\ r[i] = q[i]
        BY <1>1, <1>2, <3>2, <3>3
      <4> QED BY <3>2, <4>1 DEF Sorted
    <3>4. CASE i = p + 1
      BY <1>2, <1>4, <3>2, <3>4
    <3>5. CASE i \in p + 2..k + 1
      <4>1. PICK l \in Nat : l = i - 1
        BY <1>1, <3>5
      <4>2. l < m /\ l \in 1..k /\ r[i] = q[l]
        BY <1>1, <1>2, <1>5, <3>1, <3>5, <4>1
      <4> QED BY <3>2, <4>2 DEF Sorted
    <3> QED BY <1>2, <3>3, <3>4, <3>5
  <2> QED BY <1>2, <2>1, <2>2, <2>3
<1> QED
  BY <1>5 DEF Sorted, r

(* Unlinking a timer of the list makes it the list without it. *)
LEMMA ChainWithout ==
    ASSUME NEW head, NEW next, NEW q, NEW k, Chain(head, next, q, k), NEW j \in 1..k,
           NEW first, NEW link, Unlinked(head, next, q, k, j, first, link)
    PROVE  /\ Chain(first, link, Without(q, k, j), k - 1)
           /\ Names(Without(q, k, j), k - 1) = Names(q, k) \ {q[j]}
<1> USE DEF Names, Unlinked
<1> DEFINE r == Without(q, k, j)
<1>1. /\ k \in Nat /\ j \in Nat /\ 1 <= j /\ j <= k /\ k # 0
      /\ \A i \in 1..k : q[i] \in Timers
      /\ \A a, b \in 1..k : q[a] = q[b] => a = b
      /\ head = q[1]
      /\ \A i \in 1..k : next[q[i]] = IF i = k THEN Null ELSE q[i + 1]
  BY DEF Chain
<1>2. \A i \in 1..k - 1 : /\ i \in 1..k /\ i + 1 \in 1..k /\ i # k
                          /\ r[i] = IF i < j THEN q[i] ELSE q[i + 1]
  BY <1>1 DEF Without
<1>3. DOMAIN r = 1..k - 1 /\ r = [i \in 1..k - 1 |-> r[i]]
  BY DEF Without
<1> HIDE DEF r
<1>4. r \in [1..k - 1 -> Timers]
  <2>1. \A i \in 1..k - 1 : r[i] \in Timers
    BY <1>1, <1>2
  <2> QED BY <1>3, <2>1
<1>5. ASSUME NEW a \in 1..k - 1, NEW b \in 1..k - 1, r[a] = r[b] PROVE a = b
  <2>1. PICK c \in 1..k : r[a] = q[c] /\ c = IF a < j THEN a ELSE a + 1
    BY <1>2
  <2>2. PICK d \in 1..k : r[b] = q[d] /\ d = IF b < j THEN b ELSE b + 1
    BY <1>2
  <2>3. c = d
    <3>1. q[c] = q[d]
      BY <1>5, <2>1, <2>2
    <3> QED BY <3>1 DEF Chain
  <2> QED BY <1>1, <2>1, <2>2, <2>3
<1>6. first = IF k - 1 = 0 THEN Null ELSE r[1]
  <2>1. CASE j = 1
    <3>1. first = IF k = 1 THEN Null ELSE q[2]
      BY <1>1, <2>1
    <3>2. k # 1 => 1 \in 1..k - 1 /\ r[1] = q[2]
      BY <1>1, <1>2, <2>1
    <3> QED BY <1>1, <3>1, <3>2
  <2>2. CASE j # 1
    <3>1. 1 \in 1..k - 1 /\ 1 < j /\ k - 1 # 0
      BY <1>1, <2>2
    <3> QED BY <1>1, <1>2, <2>2, <3>1
  <2> QED BY <2>1, <2>2
<1>7. ASSUME NEW i \in 1..k - 1 PROVE link[r[i]] = IF i = k - 1 THEN Null ELSE r[i + 1]
  <2>1. CASE i < j - 1
    <3>1. i + 1 \in 1..k - 1 /\ i # k - 1 /\ i < j /\ i + 1 < j /\ i \in 1..k /\ i # k /\ i # j - 1
      BY <1>1, <2>1
    <3>2. r[i] = q[i] /\ r[i + 1] = q[i + 1]
      BY <1>2, <3>1
    <3>3. link[q[i]] = q[i + 1]
      BY <1>1, <3>1
    <3> QED BY <3>1, <3>2, <3>3
  <2>2. CASE i = j - 1
    <3>1. j # 1 /\ i < j /\ r[i] = q[j - 1]
      BY <1>1, <1>2, <2>2
    <3>2. link[r[i]] = IF j = k THEN Null ELSE q[j + 1]
      BY <1>1, <3>1
    <3>3. CASE j = k
      BY <1>1, <2>2, <3>2, <3>3
    <3>4. CASE j # k
      <4>1. j \in 1..k - 1 /\ i + 1 = j /\ i # k - 1 /\ ~(j < j)
        BY <1>1, <2>2, <3>4
      <4>2. r[j] = q[j + 1]
        BY <1>2, <4>1
      <4> QED BY <3>2, <3>4, <4>1, <4>2
    <3> QED BY <3>3, <3>4
  <2>3. CASE i > j - 1
    <3>1. PICK m \in Nat : m = i + 1
      OBVIOUS
    <3>2. ~(i < j) /\ m \in 1..k /\ m # j - 1 /\ r[i] = q[m]
      BY <1>1, <1>2, <2>3, <3>1
    <3>3. link[q[m]] = IF m = k THEN Null ELSE q[m + 1]
      BY <1>1, <3>2
    <3>4. CASE i = k - 1
      <4>1. m = k
        BY <1>1, <3>1, <3>4
      <4> QED BY <3>2, <3>3, <3>4, <4>1
    <3>5. CASE i # k - 1
      <4>1. m \in 1..k - 1 /\ m # k /\ ~(m < j)
        BY <1>1, <2>3, <3>1, <3>5
      <4>2. r[m] = q[m + 1]
        BY <1>2, <4>1
      <4> QED BY <3>1, <3>2, <3>3, <3>5, <4>1, <4>2
    <3> QED BY <3>4, <3>5
  <2> QED BY <1>1, <2>1, <2>2, <2>3
<1>8. {r[i] : i \in 1..k - 1} = {q[i] : i \in 1..k} \ {q[j]}
  <2>1. ASSUME NEW i \in 1..k - 1 PROVE r[i] # q[j] /\ \E a \in 1..k : r[i] = q[a]
    <3>1. PICK c \in 1..k : r[i] = q[c] /\ c = IF i < j THEN i ELSE i + 1
      BY <1>2
    <3>2. c # j
      BY <1>1, <3>1
    <3> QED BY <1>1, <3>1, <3>2
  <2>2. ASSUME NEW a \in 1..k, q[a] # q[j] PROVE \E i \in 1..k - 1 : r[i] = q[a]
    <3>1. a # j
      BY <2>2
    <3>2. CASE a < j
      <4>1. a \in 1..k - 1
        BY <1>1, <3>2
      <4>2. r[a] = q[a]
        BY <1>2, <3>2, <4>1
      <4> QED BY <4>1, <4>2
    <3>3. CASE a > j
      <4>1. PICK i \in 1..k - 1 : a = i + 1
        BY <1>1, <3>3
      <4>2. ~(i < j)
        BY <1>1, <3>3, <4>1
      <4> QED BY <1>2, <4>1, <4>2
    <3> QED BY <1>1, <3>1, <3>2, <3>3
  <2> QED BY <2>1, <2>2
<1>9. k - 1 \in Nat
  BY <1>1
<1>10. Chain(first, link, r, k - 1)
  BY <1>4, <1>5, <1>6, <1>7, <1>9 DEF Chain
<1> QED
  BY <1>8, <1>10 DEF r

LEMMA SortedWithout ==
    ASSUME NEW q, NEW k \in Nat, NEW e, Sorted(e, q, k), NEW j \in 1..k
    PROVE  Sorted(e, Without(q, k, j), k - 1)
<1> DEFINE r == Without(q, k, j)
<1>1. ASSUME NEW a \in 1..k - 1, NEW b \in 1..k - 1, a < b PROVE ~Before(e[r[b]], e[r[a]])
  <2>1. PICK c \in 1..k : r[a] = q[c] /\ c = IF a < j THEN a ELSE a + 1
    BY DEF Without
  <2>2. PICK d \in 1..k : r[b] = q[d] /\ d = IF b < j THEN b ELSE b + 1
    BY DEF Without
  <2> HIDE DEF r
  <2>3. c < d
    BY <1>1, <2>1, <2>2
  <2> QED BY <2>1, <2>2, <2>3 DEF Sorted
<1> QED
  BY <1>1 DEF Sorted

-----------------------------------------------------------------------------
(* The manager's list                                                      *)

\* The list that is in the queue.
Listed(q, k) == Chain(m_pHead, m_pNext, q, k)

(* What the model's operators say of it, in a state and in the next one. *)
LEMMA ListIs ==
    ASSUME NEW q, NEW k, Listed(q, k)
    PROVE  /\ k \in Nat /\ Size \in Nat /\ k <= Size /\ q \in [1..k -> Timers]
           /\ Terminates /\ Ticking = Names(q, k)
           /\ \A n \in Nat : Walk[n] = IF n < k THEN q[n + 1] ELSE Null
<1>1. Chain(m_pHead, m_pNext, q, k)
  BY DEF Listed
<1>2. k \in Nat /\ Size \in Nat /\ k <= Size
  BY <1>1, ChainShort
<1>3. \A n \in Nat : Walk[n] = IF n < k THEN q[n + 1] ELSE Null
  BY <1>1, ChainWalk, WalkIs
<1>4. Walk[Size] = Null /\ {Walk[n] : n \in 0..Size} \ {Null} = {q[i] : i \in 1..k}
  BY <1>1, ChainTicking, WalkIs
<1> QED
  BY <1>1, <1>2, <1>3, <1>4 DEF Chain, Terminates, Ticking, Names

LEMMA ListWillBe ==
    ASSUME NEW q, NEW k, Chain(m_pHead', m_pNext', q, k)
    PROVE  Ticking' = Names(q, k) /\ Terminates'
<1>1. PICK h, n : h = m_pHead' /\ n = m_pNext'
  OBVIOUS
<1>2. Chain(h, n, q, k)
  BY <1>1
<1>3. WalkOf(h, n)[Size] = Null /\ {WalkOf(h, n)[m] : m \in 0..Size} \ {Null} = {q[i] : i \in 1..k}
  BY <1>2, ChainTicking
<1>4. Walk' = WalkOf(h, n)
  BY <1>1, WalkIs
<1>5. Ticking' = {WalkOf(h, n)[m] : m \in 0..Size} \ {Null} /\ (Terminates' <=> WalkOf(h, n)[Size] = Null)
  BY <1>4 DEF Ticking, Terminates, Size
<1> QED
  BY <1>3, <1>5 DEF Names

(* Where a new timer goes: behind those that do not expire later. *)
LEMMA PositionFacts ==
    ASSUME NEW q, NEW k, Listed(q, k), NEW t \in Timers, NEW e \in [Timers -> TimeValues]
    PROVE  /\ Position(t, e) \in 0..k
           /\ \A i \in 1..Position(t, e) : ~Before(e[t], e[q[i]])
           /\ Position(t, e) < k => Before(e[t], e[q[Position(t, e) + 1]])
<1>1. /\ k \in Nat /\ Size \in Nat /\ k <= Size /\ q \in [1..k -> Timers]
      /\ \A n \in Nat : Walk[n] = IF n < k THEN q[n + 1] ELSE Null
  BY ListIs
<1>2. \A i \in 1..k : q[i] # Null
  BY <1>1, TimerAssumption
<1> DEFINE T == {n \in 0..Size : Stops(t, e, n)}
<1>3. k \in T
  BY <1>1 DEF Stops
<1>4. T \subseteq Nat /\ T # {}
  BY <1>3
<1>5. PICK m \in T : \A y \in T : m <= y
  BY <1>4, LeastExists
<1>6. m \in 0..Size /\ Stops(t, e, m) /\ \A j \in 0..m - 1 : ~Stops(t, e, j)
  <2>1. ASSUME NEW j \in 0..m - 1, Stops(t, e, j) PROVE FALSE
    <3>1. j \in T /\ m \in 0..Size
      BY <1>1, <1>5, <2>1
    <3> QED BY <1>5, <3>1
  <2> QED BY <1>5, <2>1
<1> HIDE DEF T
<1> DEFINE p == Position(t, e)
<1>7. p \in 0..Size /\ Stops(t, e, p) /\ \A j \in 0..p - 1 : ~Stops(t, e, j)
  BY <1>6 DEF Position
<1> HIDE DEF p
<1>8. p <= k
  <2>1. CASE p > k
    <3>1. k \in 0..p - 1 /\ Stops(t, e, k)
      BY <1>1, <1>7, <2>1 DEF Stops
    <3> QED BY <1>7, <3>1
  <2> QED BY <1>1, <1>7, <2>1
<1>9. ASSUME NEW i \in 1..p PROVE ~Before(e[t], e[q[i]])
  <2>1. PICK j \in Nat : j = i - 1
    BY <1>7
  <2>2. j \in 0..p - 1 /\ j < k /\ j + 1 = i
    BY <1>1, <1>7, <1>8, <2>1
  <2>3. ~Stops(t, e, j) /\ Walk[j] = q[i]
    BY <1>1, <1>7, <2>2
  <2> QED BY <2>3 DEF Stops
<1>10. p < k => Before(e[t], e[q[p + 1]])
  <2>1. ASSUME p < k PROVE Before(e[t], e[q[p + 1]])
    <3>1. p \in Nat /\ p + 1 \in 1..k
      BY <1>1, <1>7, <2>1
    <3>2. Walk[p] = q[p + 1] /\ Walk[p] # Null
      BY <1>1, <1>2, <2>1, <3>1
    <3> QED BY <1>7, <3>2 DEF Stops
  <2> QED BY <2>1
<1> QED
  BY <1>1, <1>7, <1>8, <1>9, <1>10 DEF p

\* A sorted list with exactly the timers of S is in the queue.
Queued(head, next, e, S) ==
    \E q, k : Chain(head, next, q, k) /\ Sorted(e, q, k) /\ S = Names(q, k)

(* registerTimer adds the timer to the list, and tells the thread if it is the first one. *)
LEMMA Registered ==
    ASSUME NEW e \in [Timers -> TimeValues], Queued(m_pHead, m_pNext, e, Ticking),
           NEW t \in Timers, t \notin Ticking, RegisterTimer(t, e)
    PROVE  /\ Queued(m_pHead', m_pNext', e, Ticking') /\ Ticking' = Ticking \cup {t}
           /\ m_pHead' \in {t, m_pHead} /\ m_pHead' # Null
<1>1. PICK q, k : /\ k \in Nat /\ q \in [1..k -> Timers]
                  /\ Chain(m_pHead, m_pNext, q, k) /\ Sorted(e, q, k) /\ Ticking = Names(q, k)
  BY DEF Queued, Chain
<1>0. k \in Nat /\ q \in [1..k -> Timers]
  BY <1>1
<1> USE <1>0
<1>2. Listed(q, k)
  BY <1>1 DEF Listed
<1>3. \A n \in Nat : Walk[n] = IF n < k THEN q[n + 1] ELSE Null
  BY <1>2, ListIs
<1>4. PICK p : p = Position(t, e)
  OBVIOUS
<1>5. /\ p \in 0..k /\ p \in Nat /\ p <= k /\ \A i \in 1..p : ~Before(e[t], e[q[i]])
      /\ p < k => Before(e[t], e[q[p + 1]])
  <2>1. /\ p \in 0..k /\ \A i \in 1..p : ~Before(e[t], e[q[i]])
        /\ p < k => Before(e[t], e[q[p + 1]])
    <3> HIDE <1>0
    <3> QED BY <1>2, <1>4, PositionFacts
  <2>2. p \in Nat /\ p <= k
    BY <2>1
  <2> QED BY <2>1, <2>2
<1>6. InsertAt(t, p)
  BY <1>4 DEF RegisterTimer
<1>7. PICK first, link : first = m_pHead' /\ link = m_pNext'
  OBVIOUS
<1>8. /\ m_pNext \in [Timers -> Timers \cup {Null}]
      /\ \A i \in 1..k : q[i] \in Timers /\ q[i] # t
      /\ \A i, j \in 1..k : q[i] = q[j] => i = j
      /\ m_pHead = IF k = 0 THEN Null ELSE q[1]
  BY <1>1 DEF Chain, Names
<1>9. Walk[p] = IF p < k THEN q[p + 1] ELSE Null
  BY <1>3, <1>5
<1>10. p # 0 => p - 1 \in Nat /\ p \in 1..k /\ Walk[p - 1] = q[p]
  <2>1. ASSUME p # 0 PROVE p - 1 \in Nat /\ p \in 1..k /\ Walk[p - 1] = q[p]
    <3>1. p - 1 \in Nat /\ p \in 1..k /\ p - 1 < k /\ p - 1 + 1 = p
      BY <1>5, <2>1
    <3> QED BY <1>3, <3>1
  <2> QED BY <2>1
<1>11. PICK w \in Timers \cup {Null} : w = Walk[p]
  <2>1. p < k => p + 1 \in 1..k
    BY <1>5
  <2> QED BY <1>8, <1>9, <2>1
<1>12. /\ first = IF p = 0 THEN t ELSE m_pHead
       /\ link = IF p = 0 THEN [m_pNext EXCEPT ![t] = w] ELSE [[m_pNext EXCEPT ![t] = w] EXCEPT ![q[p]] = t]
  BY <1>6, <1>7, <1>10, <1>11 DEF InsertAt
<1>13. /\ link \in [Timers -> Timers \cup {Null}]
       /\ link[t] = IF p < k THEN q[p + 1] ELSE Null
       /\ p # 0 => link[q[p]] = t
       /\ \A i \in 1..k : i # p => link[q[i]] = m_pNext[q[i]]
  <2>1. CASE p = 0
    BY <1>8, <1>9, <1>11, <1>12, <2>1
  <2>2. CASE p # 0
    <3>1. link = [[m_pNext EXCEPT ![t] = w] EXCEPT ![q[p]] = t] /\ q[p] \in Timers /\ q[p] # t /\ p \in 1..k
      BY <1>8, <1>10, <1>12, <2>2
    <3>2. \A i \in 1..k : i # p => q[i] # q[p]
      BY <1>8, <3>1
    <3> QED BY <1>8, <1>9, <1>11, <3>1, <3>2
  <2> QED BY <2>1, <2>2
<1>14. t \notin Names(q, k) /\ Linked(m_pHead, m_pNext, q, k, t, p, first, link)
  <2>1. t \notin Names(q, k)
    BY <1>8 DEF Names
  <2>2. Linked(m_pHead, m_pNext, q, k, t, p, first, link)
    <3>1. first = IF p = 0 THEN t ELSE m_pHead
      BY <1>12
    <3> HIDE <1>0
    <3> QED BY <1>13, <3>1 DEF Linked
  <2> QED BY <2>1, <2>2
<1>15. PICK r : r = With(q, k, t, p)
  OBVIOUS
<1>16. Chain(first, link, r, k + 1) /\ Names(r, k + 1) = Names(q, k) \cup {t}
  <2>1. Chain(m_pHead, m_pNext, q, k)
    BY <1>1
  <2>2. p \in 0..k
    BY <1>5
  <2> HIDE <1>0
  <2>3. /\ Chain(first, link, With(q, k, t, p), k + 1)
        /\ Names(With(q, k, t, p), k + 1) = Names(q, k) \cup {t}
    BY <2>1, <2>2, <1>14, ChainWith
  <2> QED BY <2>3, <1>15
<1>17. Sorted(e, r, k + 1)
  BY <1>1, <1>5, <1>15, SortedWith
<1>18. Chain(m_pHead', m_pNext', r, k + 1)
  BY <1>7, <1>16
<1>19. Ticking' = Names(r, k + 1)
  BY <1>18, ListWillBe
<1>20. k + 1 \in Nat /\ r \in [1..k + 1 -> Timers]
  BY <1>16 DEF Chain
<1>21. Queued(m_pHead', m_pNext', e, Ticking')
  BY <1>17, <1>18, <1>19, <1>20 DEF Queued
<1>22. Ticking' = Ticking \cup {t}
  BY <1>1, <1>16, <1>19
<1>23. first \in {t, m_pHead} /\ first # Null
  <2>1. t # Null
    BY TimerAssumption
  <2>2. p # 0 => 1 \in 1..k /\ k # 0
    BY <1>5
  <2>3. p # 0 => m_pHead \in Timers
    BY <1>8, <2>2
  <2> QED BY <1>12, <2>1, <2>3, TimerAssumption
<1> QED
  BY <1>7, <1>21, <1>22, <1>23

(* unregisterTimer takes it out; the first timer then does not expire earlier. *)
LEMMA Unregistered ==
    ASSUME NEW e, Queued(m_pHead, m_pNext, e, Ticking), NEW t \in Timers, UnregisterTimer(t)
    PROVE  /\ Queued(m_pHead', m_pNext', e, Ticking') /\ Ticking' = Ticking \ {t}
           /\ \/ m_pHead' \in {m_pHead, Null}
              \/ m_pHead # Null /\ ~Before(e[m_pHead'], e[m_pHead])
<1>1. PICK q, k : /\ k \in Nat /\ q \in [1..k -> Timers]
                  /\ Chain(m_pHead, m_pNext, q, k) /\ Sorted(e, q, k) /\ Ticking = Names(q, k)
  BY DEF Queued, Chain
<1>0. k \in Nat /\ q \in [1..k -> Timers]
  BY <1>1
<1> USE <1>0
<1>2. CASE t \notin Ticking
  <2>1. m_pHead' = m_pHead /\ m_pNext' = m_pNext
    BY <1>2 DEF UnregisterTimer, queue
  <2>2. Chain(m_pHead', m_pNext', q, k)
    BY <1>1, <2>1
  <2>3. Ticking' = Names(q, k)
    BY <2>2, ListWillBe
  <2>4. Queued(m_pHead', m_pNext', e, Ticking')
    BY <1>1, <2>2, <2>3 DEF Queued
  <2> QED BY <1>1, <1>2, <2>1, <2>3, <2>4
<1>3. CASE t \in Ticking
  <2>1. PICK j \in 1..k : t = q[j]
    BY <1>1, <1>3 DEF Names
  <2>2. /\ m_pNext \in [Timers -> Timers \cup {Null}]
        /\ \A i \in 1..k : q[i] \in Timers
        /\ \A a, b \in 1..k : q[a] = q[b] => a = b
        /\ k # 0 /\ 1 \in 1..k /\ m_pHead = q[1]
        /\ \A i \in 1..k : m_pNext[q[i]] = IF i = k THEN Null ELSE q[i + 1]
    BY <1>1 DEF Chain
  <2>3. PICK first, link : first = m_pHead' /\ link = m_pNext'
    OBVIOUS
  <2>4. m_pHead = t <=> j = 1
    BY <2>1, <2>2
  <2>5. /\ first = IF j = 1 THEN m_pNext[q[1]] ELSE m_pHead
        /\ link \in [Timers -> Timers \cup {Null}]
        /\ j # 1 => link[q[j - 1]] = m_pNext[q[j]]
        /\ \A i \in 1..k : i # j - 1 => link[q[i]] = m_pNext[q[i]]
    <3>1. CASE j = 1
      <4>1. m_pHead' = m_pNext[t] /\ m_pNext' = m_pNext
        BY <1>3, <2>4, <3>1 DEF UnregisterTimer
      <4> QED BY <2>1, <2>2, <2>3, <3>1, <4>1
    <3>2. CASE j # 1
      <4> DEFINE prev == CHOOSE p \in Ticking : m_pNext[p] = t
      <4>1. m_pNext' = [m_pNext EXCEPT ![prev] = m_pNext[t]] /\ m_pHead' = m_pHead
        BY <1>3, <2>4, <3>2 DEF UnregisterTimer
      <4>2. PICK h \in 1..k : h = j - 1 /\ h # k /\ h + 1 = j
        BY <3>2
      <4>3. m_pNext[q[h]] = t /\ q[h] \in Ticking
        BY <1>1, <2>1, <2>2, <4>2 DEF Names
      <4>4. prev \in Ticking /\ m_pNext[prev] = t
        BY <4>3
      <4>5. prev = q[h]
        <5>1. PICK i \in 1..k : prev = q[i]
          BY <1>1, <4>4 DEF Names
        <5>2. i # k
          BY <2>1, <2>2, <4>4, <5>1, TimerAssumption
        <5>3. i + 1 \in 1..k /\ q[i + 1] = q[j]
          BY <2>1, <2>2, <4>4, <5>1, <5>2
        <5>4. i + 1 = j
          BY <2>2, <5>3
        <5> QED BY <4>2, <5>1, <5>4
      <4> HIDE DEF prev
      <4>6. link = [m_pNext EXCEPT ![q[h]] = m_pNext[q[j]]] /\ q[h] \in Timers /\ m_pNext[q[j]] \in Timers \cup {Null}
        BY <2>1, <2>2, <2>3, <4>1, <4>5
      <4>7. link \in [Timers -> Timers \cup {Null}] /\ link[q[h]] = m_pNext[q[j]]
        BY <2>2, <4>6
      <4>8. \A i \in 1..k : i # h => link[q[i]] = m_pNext[q[i]]
        BY <2>2, <4>6
      <4> QED BY <2>3, <3>2, <4>1, <4>2, <4>7, <4>8
    <3> QED BY <3>1, <3>2
  <2>6. PICK r : r = Without(q, k, j)
    OBVIOUS
  <2>7. Chain(first, link, r, k - 1) /\ Names(r, k - 1) = Names(q, k) \ {q[j]}
    <3>1. Chain(m_pHead, m_pNext, q, k)
      BY <1>1
    <3>3. Unlinked(m_pHead, m_pNext, q, k, j, first, link)
      BY <2>5 DEF Unlinked
    <3> HIDE <1>0
    <3>2. /\ Chain(first, link, Without(q, k, j), k - 1)
          /\ Names(Without(q, k, j), k - 1) = Names(q, k) \ {q[j]}
      BY <3>1, <3>3, ChainWithout
    <3> QED BY <3>2, <2>6
  <2>8. Sorted(e, r, k - 1)
    BY <1>1, <2>6, SortedWithout
  <2>9. Chain(m_pHead', m_pNext', r, k - 1)
    BY <2>3, <2>7
  <2>10. Ticking' = Names(r, k - 1)
    BY <2>9, ListWillBe
  <2>11. k - 1 \in Nat /\ r \in [1..k - 1 -> Timers]
    BY <2>7 DEF Chain
  <2>12. Queued(m_pHead', m_pNext', e, Ticking')
    BY <2>8, <2>9, <2>10, <2>11 DEF Queued
  <2>13. Ticking' = Ticking \ {t}
    BY <1>1, <2>1, <2>7, <2>10
  <2>14. first \in {m_pHead, Null} \/ (m_pHead # Null /\ ~Before(e[first], e[m_pHead]))
    <3>1. CASE j = 1 /\ k # 1
      <4>1. first = q[2] /\ 2 \in 1..k /\ 1 < 2
        BY <2>2, <2>5, <3>1
      <4>2. ~Before(e[q[2]], e[q[1]])
        BY <1>1, <2>2, <4>1 DEF Sorted
      <4> QED BY <2>2, <4>1, <4>2, TimerAssumption
    <3>2. CASE j = 1 /\ k = 1
      <4>1. first = Null
        BY <2>2, <2>5, <3>2
      <4> QED BY <4>1
    <3>3. CASE j # 1
      <4>1. first = m_pHead
        BY <2>5, <3>3
      <4> QED BY <4>1
    <3> QED BY <3>1, <3>2, <3>3
  <2> QED BY <2>3, <2>12, <2>13, <2>14
<1> QED
  BY <1>2, <1>3

-----------------------------------------------------------------------------
(* The inductive invariant                                                 *)

\* The manager has taken firing out of the queue and may put it back.
Taken == {"solar", "shot", "rearm"}

QueueInv == Queued(m_pHead, m_pNext, m_aExpired, Ticking)
\* A timer that will be put back is nowhere else, ...
FiringInv ==
    /\ firing # Null <=> pc \in Taken \cup {"drop", "destroy"}
    /\ pc = "destroy" => firing \in dropped
    /\ pc \in Taken /\ m_aRepeatDelta[firing] # Zero => firing \notin Ticking /\ starting # firing
\* ... nor is one that a client has looked up to start it, ...
StartingInv == starting # Null => starting \notin Ticking /\ starting \notin dropped /\ starting \in wanted
\* ... only a repeating timer is in the queue after it has been stopped, ...
StoppedInv == \A t \in Ticking \ wanted : m_aRepeatDelta[t] # Zero
\* ... and a timer that clients have released comes back only as one of those.
DroppedInv ==
    \A t \in dropped : /\ t \in Ticking => t \notin wanted /\ m_aRepeatDelta[t] # Zero
                       /\ t \in wanted => m_aRepeatDelta[t] = Zero
\* The references are those of the client and of the manager, and who holds one
\* has a timer that is alive, except for a timer that came back.
Held(t) == firing = t /\ pc # "destroy"
Returned(t) == firing = t /\ pc = "solar" /\ t \in dropped \ wanted /\ m_aRepeatDelta[t] # Zero
RefsInv ==
    \A t \in Timers : /\ refs[t] = IF t \in dropped THEN IF Held(t) THEN 1 ELSE 0
                                                   ELSE IF Held(t) THEN 2 ELSE 1
                      /\ refs[t] # 0 => life[t] = "alive" \/ Returned(t)
LiveInv == \A t \in Ticking : life[t] # "freed"
\* Who has stored times that are not normalized is on record, ...
CarriedInv == \A t \in Timers : m_aExpired[t].Nanosec >= PerSecond => carried
\* ... and the thread sleeps no longer than to a time which the first timer does
\* not expire before.
Awaited(x) ==
    /\ ~Before(m_aExpired[m_pHead], x) /\ ~Before(Normal(x), deadline)
    /\ x.Nanosec >= PerSecond => carried
SleepInv ==
    pc = "wait" /\ ~m_notEmpty /\ Before(now, deadline) /\ m_pHead # Null => \E x \in TimeValues : Awaited(x)

TimerInv ==
    /\ TypeOK /\ QueueInv /\ FiringInv /\ StartingInv /\ StoppedInv /\ DroppedInv /\ RefsInv /\ LiveInv
    /\ CarriedInv /\ SleepInv

(* The timers in the queue, and the first of them. *)
LEMMA QueueFacts ==
    ASSUME QueueInv
    PROVE  /\ Ticking \subseteq Timers /\ (m_pHead # Null => m_pHead \in Ticking)
           /\ m_pHead \in Timers \cup {Null} /\ m_pNext \in [Timers -> Timers \cup {Null}]
<1>1. PICK q, k : Chain(m_pHead, m_pNext, q, k) /\ Ticking = Names(q, k)
  BY DEF QueueInv, Queued
<1>2. k \in Nat /\ (k # 0 => 1 \in 1..k /\ m_pHead = q[1]) /\ (k = 0 => m_pHead = Null)
  BY <1>1 DEF Chain
<1>3. /\ \A i \in 1..k : q[i] \in Timers
      /\ m_pNext \in [Timers -> Timers \cup {Null}]
  BY <1>1 DEF Chain
<1> QED
  BY <1>1, <1>2, <1>3 DEF Names

LEMMA QueueTypes ==
    ASSUME QueueInv'
    PROVE  m_pHead' \in Timers \cup {Null} /\ m_pNext' \in [Timers -> Timers \cup {Null}]
<1>1. PICK q, k : Chain(m_pHead', m_pNext', q, k)
  BY DEF QueueInv, Queued
<1>2. k \in Nat /\ (k # 0 => 1 \in 1..k /\ m_pHead' = q[1]) /\ (k = 0 => m_pHead' = Null)
  BY <1>1 DEF Chain
<1>3. /\ \A i \in 1..k : q[i] \in Timers
      /\ m_pNext' \in [Timers -> Timers \cup {Null}]
  BY <1>1 DEF Chain
<1> QED
  BY <1>2, <1>3

LEMMA SameQueue ==
    ASSUME UNCHANGED queue
    PROVE  Ticking' = Ticking
<1>1. m_pHead' = m_pHead /\ m_pNext' = m_pNext
  BY DEF queue
<1>2. Walk' = Walk
  BY <1>1, WalkIs
<1> QED
  BY <1>2 DEF Ticking, Size

(* The order only depends on the times of the timers in the list. *)
LEMMA QueueTimes ==
    ASSUME NEW head, NEW next, NEW e, NEW d, NEW S, Queued(head, next, e, S), \A t \in S : d[t] = e[t]
    PROVE  Queued(head, next, d, S)
<1>1. PICK q, k : Chain(head, next, q, k) /\ Sorted(e, q, k) /\ S = Names(q, k)
  BY DEF Queued
<1>2. \A i \in 1..k : d[q[i]] = e[q[i]]
  BY <1>1 DEF Names
<1>3. Sorted(d, q, k)
  BY <1>1, <1>2 DEF Sorted
<1> QED
  BY <1>1, <1>3 DEF Queued

-----------------------------------------------------------------------------
(* What each step does to it                                               *)

LEMMA TimerInvInit == Init => TimerInv
<1> SUFFICES ASSUME Init PROVE TimerInv
  OBVIOUS
<1>1. TypeOK
  <2>1. /\ now \in Instants /\ calls \in 0..MaxCalls /\ deadline \in Instants
        /\ m_aTimeOut \in [Timers -> Instants] /\ m_aExpired \in [Timers -> TimeValues]
    <3>1. m_aTimeOut \in [Timers -> Instants]
      <4>1. m_aTimeOut \in [Timers -> TimeOuts] /\ \A x \in TimeOuts : x \in Instants
        BY TimerAssumption DEF Init
      <4> QED BY <4>1
    <3>2. 0 \in 0..MaxCalls /\ StartTime \in Instants /\ Zero \in Instants /\ Zero \in TimeValues
      BY TimerAssumption, Fields
    <3> QED BY <3>1, <3>2 DEF Init
  <2>2. /\ m_pHead \in Timers \cup {Null} /\ m_pNext \in [Timers -> Timers \cup {Null}]
        /\ firing \in Timers \cup {Null} /\ starting \in Timers \cup {Null} /\ dropped \subseteq Timers /\ wanted \subseteq Timers
    BY DEF Init
  <2>3. refs \in [Timers -> 0..2] /\ life \in [Timers -> {"alive", "dying", "freed"}]
    BY DEF Init
  <2> QED BY <2>1, <2>2, <2>3 DEF Init, TypeOK
<1>2. QueueInv /\ Ticking = {}
  <2> DEFINE q == [i \in 1..0 |-> Null]
  <2>1. Chain(m_pHead, m_pNext, q, 0) /\ Sorted(m_aExpired, q, 0)
    BY DEF Init, Chain, Sorted
  <2>2. Ticking = Names(q, 0)
    BY <2>1, ListIs DEF Listed
  <2>3. Names(q, 0) = {}
    BY DEF Names
  <2> HIDE DEF q
  <2> QED BY <2>1, <2>2, <2>3 DEF QueueInv, Queued
<1>3. FiringInv /\ StartingInv /\ StoppedInv /\ DroppedInv /\ LiveInv /\ SleepInv
  BY <1>2 DEF Init, FiringInv, StartingInv, StoppedInv, DroppedInv, LiveInv, SleepInv, Taken
<1>4. RefsInv
  BY TimerAssumption DEF Init, RefsInv, Held
<1>5. CarriedInv
  <2>1. \A t \in Timers : m_aExpired[t] = Zero
    BY DEF Init
  <2>2. Zero.Nanosec < PerSecond /\ Zero.Nanosec \in Nat
    BY Fields
  <2> QED BY <2>1, <2>2, Fields DEF CarriedInv
<1> QED
  BY <1>1, <1>2, <1>3, <1>4, <1>5 DEF TimerInv

(* The steps that leave the queue, the timers and their references alone. *)
LEMMA QuietStep ==
    ASSUME TimerInv,
           \/ ComputeDelay \/ Wait \/ AcquireSolar \/ OnShot \/ TakeSolar \/ DropSolar \/ Tick
           \/ UNCHANGED vars
    PROVE  TimerInv'
<1> USE DEF TimerInv
<1>1. /\ UNCHANGED <<m_pHead, m_pNext, m_aExpired, m_aTimeOut, m_aRepeatDelta, firing, refs, life, starting, dropped,
                      wanted, carried>>
      /\ pc' \in Taken <=> pc \in Taken
      /\ pc' = "destroy" <=> pc = "destroy"
      /\ pc' = "drop" <=> pc = "drop"
  BY DEF TypeOK, Taken, vars, queue, times, manager, objects, history, ComputeDelay, Wait, AcquireSolar, OnShot, TakeSolar,
         DropSolar, Call, Tick
<1>2. Ticking' = Ticking
  BY <1>1, SameQueue DEF queue
<1>3. TypeOK'
  <2>1. CASE ComputeDelay
    <3>1. deadline' \in Instants
      <4>1. Never \in Instants
        <5>1. MaxTime.Seconds \in Nat /\ 0 \in 0..PerSecond - 1
          BY TimerAssumption, Fields
        <5> QED BY <5>1 DEF Never, Instants
      <4>2. m_pHead # Null => End(m_aExpired[m_pHead]) \in Instants
        BY NormalOf DEF TypeOK, End
      <4> QED BY <2>1, <4>1, <4>2 DEF ComputeDelay
    <3> QED BY <2>1, <3>1 DEF TypeOK, ComputeDelay, queue, times, objects, history
  <2>2. CASE Wait \/ AcquireSolar \/ OnShot
    BY <2>2, Fields DEF TypeOK, Wait, AcquireSolar, OnShot, queue, times, objects, history
  <2>3. CASE TakeSolar
    BY <2>3, TimerAssumption DEF TypeOK, TakeSolar, Call, queue, times, objects, manager, history
  <2>4. CASE DropSolar \/ UNCHANGED vars
    BY <2>4 DEF TypeOK, DropSolar, vars, queue, times, objects, manager, history
  <2>5. CASE Tick
    <3>1. now' \in Instants
      BY <2>5, TickIs DEF TypeOK, Tick
    <3> QED BY <2>5, <3>1 DEF TypeOK, Tick, queue, times, objects, manager, history
  <2> QED BY <2>1, <2>2, <2>3, <2>4, <2>5
<1>4. QueueInv'
  BY <1>1, <1>2 DEF QueueInv
<1>5. FiringInv' /\ StartingInv' /\ StoppedInv' /\ DroppedInv' /\ LiveInv' /\ CarriedInv'
  BY <1>1, <1>2 DEF FiringInv, StartingInv, StoppedInv, DroppedInv, LiveInv, CarriedInv
<1>6. RefsInv'
  <2>1. ASSUME NEW t \in Timers, refs[t] # 0 PROVE life[t] = "alive" \/ Returned(t)'
    <3>1. CASE AcquireSolar
      <4>1. firing # Null /\ pc # "destroy" => life[firing] = "alive"
        BY <3>1 DEF AcquireSolar, Gone
      <4>2. life[t] # "alive" => firing = t /\ pc = "solar"
        BY <2>1 DEF RefsInv, Returned
      <4> QED BY <4>1, <4>2, TimerAssumption
    <3>2. CASE ~AcquireSolar
      <4>1. pc = "solar" => pc' = "solar"
        BY <3>2 DEF vars, manager, ComputeDelay, Wait, OnShot, TakeSolar, DropSolar, Tick
      <4> QED BY <1>1, <2>1, <4>1 DEF RefsInv, Returned
    <3> QED BY <3>1, <3>2
  <2> QED BY <1>1, <2>1 DEF RefsInv, Held
<1>7. SleepInv'
  <2>1. CASE ComputeDelay
    <3>1. SUFFICES ASSUME Before(now, deadline'), m_pHead # Null PROVE \E x \in TimeValues : Awaited(x)'
      BY <1>1, <2>1 DEF ComputeDelay, SleepInv
    <3>2. PICK x \in TimeValues : x = m_aExpired[m_pHead] /\ m_pHead \in Timers
      BY <3>1 DEF TypeOK
    <3>3. deadline' = Normal(x)
      <4>1. deadline' = End(x) /\ ~Before(now, now)
        BY <2>1, <3>1, <3>2, OrderLaws, Fields DEF ComputeDelay, TypeOK
      <4> QED BY <3>1, <4>1 DEF End
    <3>4. ~Before(x, x) /\ ~Before(deadline', deadline')
      <4>1. deadline' \in TimeValues
        BY <1>3, Fields DEF TypeOK
      <4> QED BY <4>1, OrderLaws
    <3>5. x.Nanosec >= PerSecond => carried
      BY <3>2 DEF CarriedInv
    <3>6. Awaited(x)'
      BY <1>1, <3>2, <3>3, <3>4, <3>5 DEF Awaited
    <3> QED BY <3>6
  <2>2. CASE ~ComputeDelay
    <3>1. pc' = "wait" => pc = "wait" /\ UNCHANGED <<deadline, m_notEmpty>>
      BY <2>2 DEF vars, queue, times, manager, objects, ComputeDelay, Wait, AcquireSolar, OnShot, TakeSolar,
                  DropSolar, Tick
    <3>2. pc' = "wait" /\ Before(now', deadline') => Before(now, deadline)
      <4>1. CASE Tick
        <5>1. now \in TimeValues /\ now' \in TimeValues /\ deadline \in TimeValues /\ Before(now, now')
          BY <1>3, <4>1, Fields, TickIs DEF TypeOK, Tick
        <5>2. ~Before(now', now)
          BY <5>1, OrderLaws
        <5> QED BY <3>1, <5>1, <5>2, OrderLaws
      <4>2. CASE ~Tick
        <5>1. now' = now
          BY <2>2, <4>2 DEF vars, Wait, AcquireSolar, OnShot, TakeSolar, DropSolar
        <5> QED BY <3>1, <5>1
      <4> QED BY <4>1, <4>2
    <3>3. SUFFICES ASSUME pc' = "wait", ~m_notEmpty', Before(now', deadline'), m_pHead' # Null
                   PROVE  \E x \in TimeValues : Awaited(x)'
      BY DEF SleepInv
    <3>4. PICK x \in TimeValues : Awaited(x)
      BY <1>1, <3>1, <3>2, <3>3 DEF SleepInv
    <3>5. Awaited(x)'
      BY <1>1, <3>1, <3>3, <3>4 DEF Awaited
    <3> QED BY <3>5
  <2> QED BY <2>1, <2>2
<1> QED
  BY <1>3, <1>4, <1>5, <1>6, <1>7

(* Taking the first timer out. *)
LEMMA CheckStep ==
    ASSUME TimerInv, CheckForTimeout
    PROVE  TimerInv'
<1> USE DEF TimerInv
<1>1. /\ UNCHANGED <<now, m_pNext, m_aExpired, m_aTimeOut, m_aRepeatDelta, life, starting, dropped, wanted, carried>>
      /\ pc = "check" /\ firing = Null
  BY DEF CheckForTimeout, times, history, FiringInv, Taken
<1>2. CASE m_pHead # Null /\ IsExpired(m_pHead)
  <2>1. /\ firing' = m_pHead /\ m_pHead' = m_pNext[m_pHead] /\ pc' = "solar"
        /\ refs' = [refs EXCEPT ![m_pHead] = @ + 1]
    BY <1>2 DEF CheckForTimeout
  <2>2. m_pHead \in Ticking /\ m_pHead \in Timers
    BY <1>2, QueueFacts
  <2>3. UnregisterTimer(m_pHead)
    BY <1>1, <2>1, <2>2 DEF UnregisterTimer
  <2>4. PICK e : e = m_aExpired
    OBVIOUS
  <2>5. Queued(m_pHead, m_pNext, e, Ticking)
    BY <2>4 DEF QueueInv
  <2>6. PICK t \in Timers : t = m_pHead
    BY <2>2
  <2>7. UnregisterTimer(t)
    BY <2>3, <2>6
  <2>8. Queued(m_pHead', m_pNext', e, Ticking') /\ Ticking' = Ticking \ {t}
    BY <2>5, <2>7, Unregistered
  <2>9. QueueInv'
    BY <1>1, <2>4, <2>8 DEF QueueInv
  <2>10. /\ starting # t
         /\ t \in dropped => t \notin wanted /\ m_aRepeatDelta[t] # Zero
    BY <2>2, <2>6, TimerAssumption DEF DroppedInv, StartingInv
  <2>11. /\ refs[t] = IF t \in dropped THEN 0 ELSE 1
         /\ t \notin dropped => life[t] = "alive"
         /\ refs' = [refs EXCEPT ![t] = IF t \in dropped THEN 1 ELSE 2]
    <3>1. refs[t] = IF t \in dropped THEN 0 ELSE 1
      BY <1>1, <2>6, TimerAssumption DEF RefsInv, Held
    <3>2. t \notin dropped => life[t] = "alive"
      BY <1>1, <2>6, <3>1, TimerAssumption DEF RefsInv, Returned
    <3> QED BY <2>1, <2>6, <3>1, <3>2
  <2>12. TypeOK'
    <3>1. m_pHead' \in Timers \cup {Null} /\ m_pNext' \in [Timers -> Timers \cup {Null}]
      BY <2>9, QueueTypes
    <3>2. refs' \in [Timers -> 0..2]
      BY <2>11 DEF TypeOK
    <3> QED BY <2>1, <2>6, <3>1, <3>2 DEF TypeOK, CheckForTimeout, times, history
  <2>13. FiringInv'
    BY <1>1, <1>2, <2>1, <2>6, <2>8, <2>10 DEF FiringInv, Taken
  <2>14. StartingInv' /\ StoppedInv' /\ DroppedInv' /\ LiveInv' /\ CarriedInv'
    BY <1>1, <2>8 DEF StartingInv, StoppedInv, DroppedInv, LiveInv, CarriedInv
  <2>15. RefsInv'
    <3>1. firing' = t /\ pc' = "solar"
      BY <2>1, <2>6
    <3>2. ASSUME NEW u \in Timers
          PROVE  /\ refs'[u] = IF u \in dropped THEN IF firing' = u THEN 1 ELSE 0 ELSE IF firing' = u THEN 2 ELSE 1
                 /\ refs'[u] # 0 => life[u] = "alive" \/ Returned(u)'
      <4>1. CASE u = t
        BY <1>1, <2>10, <2>11, <3>1, <4>1 DEF TypeOK, Returned
      <4>2. CASE u # t
        <5>1. refs'[u] = refs[u] /\ firing' # u /\ firing # u
          BY <1>1, <2>11, <3>1, <4>2, TimerAssumption DEF TypeOK
        <5> QED BY <5>1 DEF RefsInv, Held, Returned
      <4> QED BY <4>1, <4>2
    <3> QED BY <1>1, <3>1, <3>2 DEF RefsInv, Held
  <2>16. SleepInv'
    BY <2>1 DEF SleepInv
  <2> QED BY <2>9, <2>12, <2>13, <2>14, <2>15, <2>16
<1>3. CASE ~(m_pHead # Null /\ IsExpired(m_pHead))
  <2>1. UNCHANGED <<m_pHead, firing, refs>> /\ pc' = "top"
    BY <1>3 DEF CheckForTimeout
  <2>2. Ticking' = Ticking
    BY <1>1, <2>1, SameQueue DEF queue
  <2>3. TypeOK'
    BY <1>1, <2>1 DEF TypeOK, CheckForTimeout
  <2>4. QueueInv'
    BY <1>1, <2>1, <2>2 DEF QueueInv
  <2>5. /\ FiringInv' /\ StartingInv' /\ StoppedInv' /\ DroppedInv' /\ LiveInv' /\ CarriedInv'
        /\ SleepInv'
    BY <1>1, <2>1, <2>2 DEF FiringInv, StartingInv, StoppedInv, DroppedInv, LiveInv, CarriedInv, SleepInv, Taken
  <2>6. RefsInv'
    BY <1>1, <2>1, TimerAssumption DEF RefsInv, Held, Returned
  <2> QED BY <2>3, <2>4, <2>5, <2>6
<1> QED
  BY <1>2, <1>3

(* Putting a timer back, as StartRegister and Rearm do, with a new time. *)
LEMMA Enqueue ==
    ASSUME TimerInv, NEW t \in Timers, t \notin Ticking, NEW e \in [Timers -> TimeValues],
           \A u \in Timers : u # t => e[u] = m_aExpired[u], m_aExpired' = e, RegisterTimer(t, e)
    PROVE  /\ QueueInv' /\ Ticking' = Ticking \cup {t}
           /\ UNCHANGED <<now, pc, deadline, carried>> => SleepInv'
<1> USE DEF TimerInv
<1>1. \A u \in Ticking : e[u] = m_aExpired[u]
  BY QueueFacts
<1>2. Queued(m_pHead, m_pNext, e, Ticking)
  <2>1. PICK f, h, n, S : f = m_aExpired /\ h = m_pHead /\ n = m_pNext /\ S = Ticking
    OBVIOUS
  <2>2. Queued(h, n, f, S)
    BY <2>1 DEF QueueInv
  <2>3. Queued(h, n, e, S)
    BY <1>1, <2>1, <2>2, QueueTimes
  <2> QED BY <2>1, <2>3
<1>3. /\ Queued(m_pHead', m_pNext', e, Ticking') /\ Ticking' = Ticking \cup {t}
      /\ m_pHead' \in {t, m_pHead} /\ m_pHead' # Null
  BY <1>2, Registered
<1>4. QueueInv'
  BY <1>3 DEF QueueInv
<1>5. ASSUME UNCHANGED <<now, pc, deadline, carried>> PROVE SleepInv'
  <2>1. SUFFICES ASSUME pc = "wait", ~m_notEmpty', Before(now, deadline) PROVE \E x \in TimeValues : Awaited(x)'
    BY <1>5 DEF SleepInv
  <2>2. m_pHead' # t /\ ~m_notEmpty
    BY <2>1 DEF RegisterTimer
  <2>3. m_pHead' = m_pHead /\ m_pHead # Null /\ m_pHead \in Timers
    BY <1>3, <2>2, QueueFacts
  <2>4. PICK x \in TimeValues : Awaited(x)
    BY <2>1, <2>2, <2>3 DEF SleepInv
  <2>5. m_aExpired'[m_pHead] = m_aExpired[m_pHead]
    BY <2>2, <2>3
  <2>6. Awaited(x)'
    BY <1>5, <2>3, <2>4, <2>5 DEF Awaited
  <2> QED BY <2>6
<1> QED
  BY <1>3, <1>4, <1>5

LEMMA RearmStep ==
    ASSUME TimerInv, Rearm
    PROVE  TimerInv'
<1> USE DEF TimerInv
<1>1. /\ UNCHANGED <<now, m_aTimeOut, m_aRepeatDelta, solar, appRunning, locked, deadline, firing, refs, life, calls,
                      starting, dropped, wanted>>
      /\ pc = "rearm" /\ pc' = "drop" /\ firing \in Timers
  BY DEF Rearm, objects, FiringInv, Taken, TypeOK
<1>2. SleepInv' /\ RefsInv'
  BY <1>1 DEF SleepInv, RefsInv, Held, Returned
<1>3. CASE m_aRepeatDelta[firing] # Zero
  <2>1. PICK t \in Timers : t = firing
    BY <1>1
  <2>2. PICK e, x : e = m_aExpired' /\ x = RawSum(now, m_aRepeatDelta[t])
    OBVIOUS
  <2>3. /\ e = [m_aExpired EXCEPT ![t] = x] /\ RegisterTimer(t, e)
        /\ carried' = (carried \/ x # Normal(x))
    BY <1>3, <2>1, <2>2 DEF Rearm
  <2>4. x \in TimeValues /\ (x.Nanosec >= PerSecond => x # Normal(x))
    <3>1. now \in Instants /\ m_aRepeatDelta[t] \in Instants
      BY TimerAssumption, Fields DEF TypeOK
    <3> QED BY <2>2, <3>1, SumIs
  <2>5. e \in [Timers -> TimeValues] /\ e[t] = x /\ \A u \in Timers : u # t => e[u] = m_aExpired[u]
    BY <2>3, <2>4 DEF TypeOK
  <2>6. t \notin Ticking /\ starting # t
    BY <1>1, <1>3, <2>1 DEF FiringInv, Taken
  <2>7. QueueInv' /\ Ticking' = Ticking \cup {t}
    BY <2>2, <2>3, <2>5, <2>6, Enqueue
  <2>8. TypeOK'
    <3>1. m_pHead' \in Timers \cup {Null} /\ m_pNext' \in [Timers -> Timers \cup {Null}]
      BY <2>7, QueueTypes
    <3>2. m_notEmpty' \in BOOLEAN /\ carried' \in BOOLEAN
      BY <2>3 DEF RegisterTimer, TypeOK
    <3> QED BY <1>1, <2>2, <2>5, <3>1, <3>2 DEF TypeOK
  <2>9. t \in dropped => t \notin wanted
    BY <1>3, <2>1 DEF DroppedInv
  <2>10. FiringInv' /\ StartingInv' /\ StoppedInv' /\ DroppedInv'
    BY <1>1, <1>3, <2>1, <2>6, <2>7, <2>9 DEF FiringInv, StartingInv, StoppedInv, DroppedInv, Taken
  <2>11. LiveInv'
    <3>1. life[t] = "alive"
      BY <1>1, <2>1 DEF RefsInv, Held, Returned
    <3> QED BY <1>1, <2>7, <3>1 DEF LiveInv
  <2>12. CarriedInv'
    BY <2>2, <2>3, <2>4, <2>5 DEF CarriedInv
  <2> QED BY <1>2, <2>7, <2>8, <2>10, <2>11, <2>12
<1>4. CASE m_aRepeatDelta[firing] = Zero
  <2>1. UNCHANGED <<m_pHead, m_pNext, m_aExpired, m_notEmpty, carried>>
    BY <1>4 DEF Rearm, queue
  <2>2. Ticking' = Ticking
    BY <2>1, SameQueue DEF queue
  <2>3. TypeOK'
    BY <1>1, <2>1 DEF TypeOK
  <2>4. QueueInv'
    BY <2>1, <2>2 DEF QueueInv
  <2>5. FiringInv' /\ StartingInv' /\ StoppedInv' /\ DroppedInv' /\ LiveInv' /\ CarriedInv'
    BY <1>1, <2>1, <2>2 DEF FiringInv, StartingInv, StoppedInv, DroppedInv, LiveInv, CarriedInv, Taken
  <2> QED BY <1>2, <2>3, <2>4, <2>5
<1> QED
  BY <1>3, <1>4

LEMMA StartRegisterStep ==
    ASSUME TimerInv, StartRegister
    PROVE  TimerInv'
<1> USE DEF TimerInv
<1>1. /\ UNCHANGED <<now, m_aTimeOut, m_aRepeatDelta, solar, appRunning, locked, pc, deadline, firing, refs, life, calls,
                      dropped, wanted, carried>>
      /\ starting' = Null
  BY DEF StartRegister, objects, manager, history
<1>2. PICK t \in Timers : t = starting /\ t # Null /\ t \notin Ticking /\ t \notin dropped /\ t \in wanted
  BY TimerAssumption DEF StartRegister, StartingInv, TypeOK
<1>3. PICK e, x : e = m_aExpired' /\ x = Sum(now, m_aTimeOut[t])
  OBVIOUS
<1>4. /\ e = IF m_aTimeOut[t] = Zero THEN m_aExpired ELSE [m_aExpired EXCEPT ![t] = x]
      /\ RegisterTimer(t, e)
  BY <1>2, <1>3 DEF StartRegister
<1>5. x \in Instants /\ x \in TimeValues /\ ~(x.Nanosec >= PerSecond)
  <2>1. now \in Instants /\ m_aTimeOut[t] \in Instants
    BY DEF TypeOK
  <2>2. x \in Instants
    BY <1>3, <2>1, SumIs
  <2> QED BY <2>2, Fields
<1>6. e \in [Timers -> TimeValues] /\ \A u \in Timers : e[u] = m_aExpired[u] \/ (u = t /\ e[u] = x)
  BY <1>4, <1>5 DEF TypeOK
<1>7. QueueInv' /\ Ticking' = Ticking \cup {t} /\ SleepInv'
  BY <1>1, <1>2, <1>3, <1>4, <1>6, Enqueue
<1>8. TypeOK'
  <2>1. m_pHead' \in Timers \cup {Null} /\ m_pNext' \in [Timers -> Timers \cup {Null}]
    BY <1>7, QueueTypes
  <2>2. m_notEmpty' \in BOOLEAN
    BY <1>4 DEF RegisterTimer, TypeOK
  <2> QED BY <1>1, <1>3, <1>6, <2>1, <2>2 DEF TypeOK
<1>9. FiringInv'
  <2>1. pc \in Taken /\ m_aRepeatDelta[firing] # Zero => firing # t
    BY <1>2 DEF FiringInv
  <2>2. starting' # firing \/ pc \notin Taken
    BY <1>1 DEF FiringInv
  <2> QED BY <1>1, <1>7, <2>1, <2>2 DEF FiringInv
<1>10. StartingInv' /\ StoppedInv' /\ DroppedInv' /\ RefsInv'
  BY <1>1, <1>2, <1>7 DEF StartingInv, StoppedInv, DroppedInv, RefsInv, Held, Returned
<1>11. LiveInv'
  <2>1. life[t] = "alive"
    BY <1>2 DEF RefsInv, Returned
  <2> QED BY <1>1, <1>7, <2>1 DEF LiveInv
<1>12. CarriedInv'
  BY <1>1, <1>3, <1>5, <1>6 DEF CarriedInv
<1> QED
  BY <1>7, <1>8, <1>9, <1>10, <1>11, <1>12

(* The manager gives its reference back. *)
LEMMA DropStep ==
    ASSUME TimerInv, Drop
    PROVE  TimerInv'
<1> USE DEF TimerInv
<1>1. /\ UNCHANGED <<now, m_pHead, m_pNext, m_aExpired, m_aTimeOut, m_aRepeatDelta, m_notEmpty, solar, appRunning,
                      locked, deadline, calls, starting, dropped, wanted, carried>>
      /\ pc = "drop" /\ pc' \in {"top", "destroy"} /\ firing \in Timers
  BY DEF Drop, queue, times, history, FiringInv, Taken, TypeOK
<1>2. PICK t \in Timers : t = firing
  BY <1>1
<1>3. Ticking' = Ticking
  BY <1>1, SameQueue DEF queue
<1>4. QueueInv' /\ SleepInv' /\ StartingInv' /\ StoppedInv' /\ DroppedInv' /\ CarriedInv'
  BY <1>1, <1>3 DEF QueueInv, SleepInv, StartingInv, StoppedInv, DroppedInv, CarriedInv
<1>5. refs[t] = (IF t \in dropped THEN 1 ELSE 2) /\ life[t] = "alive"
  BY <1>1, <1>2 DEF RefsInv, Held, Returned
<1>6. refs' = [refs EXCEPT ![t] = IF t \in dropped THEN 0 ELSE 1]
  BY <1>2, <1>5 DEF Drop
<1>7. /\ t \in dropped => /\ life' = [life EXCEPT ![t] = "dying"]
                          /\ pc' = "destroy" /\ firing' = t
      /\ t \notin dropped => life' = life /\ pc' = "top" /\ firing' = Null
  BY <1>2, <1>5 DEF Drop
<1>8. TypeOK'
  <2>1. refs' \in [Timers -> 0..2] /\ life' \in [Timers -> {"alive", "dying", "freed"}]
    BY <1>6, <1>7 DEF TypeOK
  <2>2. firing' \in Timers \cup {Null}
    BY <1>7
  <2> QED BY <1>1, <2>1, <2>2 DEF TypeOK
<1>9. FiringInv'
  BY <1>1, <1>7, TimerAssumption DEF FiringInv, Taken
<1>10. RefsInv'
  <2>1. ASSUME NEW u \in Timers
        PROVE  /\ refs'[u] = IF u \in dropped THEN 0 ELSE 1
               /\ ~(firing' = u /\ pc' # "destroy")
               /\ refs'[u] # 0 => life'[u] = "alive"
    <3>1. CASE u = t
      BY <1>5, <1>6, <1>7, <3>1, TimerAssumption DEF TypeOK
    <3>2. CASE u # t
      <4>1. refs'[u] = refs[u] /\ life'[u] = life[u] /\ firing' # u /\ firing # u
        BY <1>2, <1>6, <1>7, <3>2, TimerAssumption DEF TypeOK
      <4> QED BY <1>1, <4>1 DEF RefsInv, Held, Returned
    <3> QED BY <3>1, <3>2
  <2> QED BY <1>1, <2>1 DEF RefsInv, Held
<1>11. LiveInv'
  <2>1. \A u \in Timers : life[u] # "freed" => life'[u] # "freed"
    BY <1>7 DEF TypeOK
  <2> QED BY <1>3, <2>1, QueueFacts DEF LiveInv
<1> QED
  BY <1>4, <1>8, <1>9, <1>10, <1>11

(* Taking a timer out, as Stop and the two destructors do. *)
LEMMA Dequeue ==
    ASSUME TimerInv, NEW t \in Timers, UnregisterTimer(t), m_aExpired' = m_aExpired
    PROVE  /\ QueueInv' /\ Ticking' = Ticking \ {t}
           /\ UNCHANGED <<now, pc, deadline, m_notEmpty, carried>> => SleepInv'
<1> USE DEF TimerInv
<1>1. PICK e : e = m_aExpired
  OBVIOUS
<1>2. Queued(m_pHead, m_pNext, e, Ticking)
  BY <1>1 DEF QueueInv
<1>3. /\ Queued(m_pHead', m_pNext', e, Ticking') /\ Ticking' = Ticking \ {t}
      /\ \/ m_pHead' \in {m_pHead, Null}
         \/ m_pHead # Null /\ ~Before(e[m_pHead'], e[m_pHead])
  BY <1>2, Unregistered
<1>4. QueueInv'
  BY <1>1, <1>3 DEF QueueInv
<1>5. ASSUME UNCHANGED <<now, pc, deadline, m_notEmpty, carried>> PROVE SleepInv'
  <2>1. SUFFICES ASSUME pc = "wait", ~m_notEmpty, Before(now, deadline), m_pHead' # Null
                 PROVE  \E x \in TimeValues : Awaited(x)'
    BY <1>5 DEF SleepInv
  <2>2. PICK a, b : a = m_pHead /\ b = m_pHead'
    OBVIOUS
  <2>3. a # Null /\ (b = a \/ ~Before(e[b], e[a]))
    BY <1>3, <2>1, <2>2
  <2>4. a \in Timers /\ b \in Timers
    BY <1>4, <2>1, <2>2, <2>3, QueueFacts, QueueTypes
  <2>5. PICK x \in TimeValues : Awaited(x)
    BY <2>1, <2>2, <2>3 DEF SleepInv
  <2>6. e[a] \in TimeValues /\ e[b] \in TimeValues
    BY <1>1, <2>4 DEF TypeOK
  <2>7. ~Before(e[b], x)
    <3>1. ~Before(e[a], x)
      BY <1>1, <2>2, <2>5 DEF Awaited
    <3> QED BY <2>3, <2>6, <3>1, OrderLaws
  <2>8. Awaited(x)'
    BY <1>1, <1>5, <2>2, <2>5, <2>7 DEF Awaited
  <2> QED BY <2>8
<1> QED
  BY <1>3, <1>4, <1>5

LEMMA ManagerDestroyStep ==
    ASSUME TimerInv, ManagerDestroy
    PROVE  TimerInv'
<1> USE DEF TimerInv
<1>1. /\ UNCHANGED <<now, m_aExpired, m_aTimeOut, m_aRepeatDelta, m_notEmpty, solar, appRunning, locked, deadline,
                      refs, starting, calls, dropped, wanted, carried>>
      /\ pc = "destroy" /\ pc' = "top" /\ firing' = Null
  BY DEF ManagerDestroy, times, history
<1>2. PICK t \in Timers : t = firing /\ t \in dropped
  BY <1>1 DEF FiringInv, TypeOK
<1>3. UnregisterTimer(t) /\ life' = [life EXCEPT ![t] = "freed"]
  BY <1>2 DEF ManagerDestroy
<1>4. QueueInv' /\ Ticking' = Ticking \ {t}
  BY <1>1, <1>3, Dequeue
<1>5. TypeOK'
  <2>1. m_pHead' \in Timers \cup {Null} /\ m_pNext' \in [Timers -> Timers \cup {Null}]
    BY <1>4, QueueTypes
  <2>2. life' \in [Timers -> {"alive", "dying", "freed"}]
    BY <1>3 DEF TypeOK
  <2> QED BY <1>1, <2>1, <2>2 DEF TypeOK
<1>6. FiringInv' /\ StartingInv' /\ StoppedInv' /\ DroppedInv' /\ CarriedInv' /\ SleepInv'
  BY <1>1, <1>4 DEF FiringInv, StartingInv, StoppedInv, DroppedInv, CarriedInv, SleepInv, Taken
<1>7. RefsInv'
  <2>1. ASSUME NEW u \in Timers
        PROVE  /\ refs[u] = IF u \in dropped THEN 0 ELSE 1
               /\ refs[u] # 0 => life'[u] = "alive"
    <3>1. ~Held(u) /\ ~Returned(u)
      BY <1>1 DEF Held, Returned
    <3>2. refs[u] = IF u \in dropped THEN 0 ELSE 1
      BY <3>1 DEF RefsInv
    <3>3. refs[u] # 0 => u # t /\ life[u] = "alive"
      BY <1>2, <3>1, <3>2 DEF RefsInv
    <3>4. u # t => life'[u] = life[u]
      BY <1>3 DEF TypeOK
    <3> QED BY <3>2, <3>3, <3>4
  <2>2. \A u \in Timers : firing' # u
    BY <1>1, TimerAssumption
  <2> QED BY <1>1, <2>1, <2>2 DEF RefsInv, Held
<1>8. LiveInv'
  BY <1>3, <1>4, QueueFacts DEF LiveInv, TypeOK
<1> QED
  BY <1>4, <1>5, <1>6, <1>7, <1>8

LEMMA StopStep ==
    ASSUME TimerInv, NEW t \in Timers, Stop(t)
    PROVE  TimerInv'
<1> USE DEF TimerInv
<1>1. /\ UNCHANGED <<now, m_aExpired, m_aTimeOut, m_aRepeatDelta, m_notEmpty, solar, appRunning, locked, pc, deadline,
                      firing, refs, life, starting, dropped, carried>>
      /\ UnregisterTimer(t) /\ calls' \in 0..MaxCalls /\ wanted' = wanted \ {t}
      /\ starting = Null /\ t \notin dropped
  BY TimerAssumption DEF Stop, Call, ClientIdle, ClientHas, times, manager, objects, TypeOK
<1>2. QueueInv' /\ Ticking' = Ticking \ {t} /\ SleepInv'
  BY <1>1, Dequeue
<1>3. TypeOK'
  <2>1. m_pHead' \in Timers \cup {Null} /\ m_pNext' \in [Timers -> Timers \cup {Null}]
    BY <1>2, QueueTypes
  <2> QED BY <1>1, <2>1 DEF TypeOK
<1>4. FiringInv' /\ StartingInv' /\ StoppedInv' /\ DroppedInv' /\ RefsInv' /\ LiveInv' /\ CarriedInv'
  BY <1>1, <1>2 DEF FiringInv, StartingInv, StoppedInv, DroppedInv, RefsInv, Held, Returned, LiveInv, CarriedInv
<1> QED
  BY <1>2, <1>3, <1>4

LEMMA ClientDestroyStep ==
    ASSUME TimerInv, NEW t \in Timers, ClientDestroy(t)
    PROVE  TimerInv'
<1> USE DEF TimerInv
<1>1. /\ UNCHANGED <<now, m_aExpired, m_aTimeOut, m_aRepeatDelta, m_notEmpty, solar, appRunning, locked, pc, deadline,
                      firing, refs, starting, calls, dropped, wanted, carried>>
      /\ UnregisterTimer(t) /\ life' = [life EXCEPT ![t] = "freed"] /\ life[t] = "dying"
  BY DEF ClientDestroy, Dying, times, manager, history
<1>2. QueueInv' /\ Ticking' = Ticking \ {t} /\ SleepInv'
  BY <1>1, Dequeue
<1>3. TypeOK'
  <2>1. m_pHead' \in Timers \cup {Null} /\ m_pNext' \in [Timers -> Timers \cup {Null}]
    BY <1>2, QueueTypes
  <2>2. life' \in [Timers -> {"alive", "dying", "freed"}]
    BY <1>1 DEF TypeOK
  <2> QED BY <1>1, <2>1, <2>2 DEF TypeOK
<1>4. FiringInv' /\ StartingInv' /\ StoppedInv' /\ DroppedInv' /\ CarriedInv'
  BY <1>1, <1>2 DEF FiringInv, StartingInv, StoppedInv, DroppedInv, CarriedInv
<1>5. RefsInv'
  <2>1. ASSUME NEW u \in Timers, refs[u] # 0 PROVE life'[u] = "alive" \/ Returned(u)'
    <3>1. CASE Returned(u)
      BY <1>1, <3>1 DEF Returned
    <3>2. CASE ~Returned(u)
      <4>1. life[u] = "alive" /\ u # t
        BY <1>1, <2>1, <3>2 DEF RefsInv
      <4> QED BY <1>1, <4>1 DEF TypeOK
    <3> QED BY <3>1, <3>2
  <2> QED BY <1>1, <2>1 DEF RefsInv, Held
<1>6. LiveInv'
  BY <1>1, <1>2, QueueFacts DEF LiveInv, TypeOK
<1> QED
  BY <1>2, <1>3, <1>4, <1>5, <1>6

-----------------------------------------------------------------------------
(* The calls of a careful client                                           *)

LEMMA StartLookupStep ==
    ASSUME TimerInv, Careful, NEW t \in Timers, StartLookup(t)
    PROVE  TimerInv'
<1> USE DEF TimerInv
<1>1. /\ UNCHANGED <<now, m_pHead, m_pNext, m_aExpired, m_aTimeOut, m_aRepeatDelta, m_notEmpty, solar, appRunning,
                      locked, pc, deadline, firing, refs, life, dropped, carried>>
      /\ t \notin dropped /\ calls' \in 0..MaxCalls /\ wanted' = wanted \cup {t}
      /\ starting' = IF t \in Ticking THEN Null ELSE t
      /\ firing # t \/ m_aRepeatDelta[t] = Zero
  BY TimerAssumption DEF StartLookup, Call, ClientHas, queue, times, manager, objects, TypeOK
<1>2. Ticking' = Ticking
  BY <1>1, SameQueue DEF queue
<1>3. TypeOK'
  BY <1>1 DEF TypeOK
<1>4. QueueInv'
  BY <1>1, <1>2 DEF QueueInv
<1>5. FiringInv'
  BY <1>1, <1>2, TimerAssumption DEF FiringInv, Taken
<1>6. StartingInv' /\ StoppedInv' /\ DroppedInv' /\ LiveInv' /\ CarriedInv'
  BY <1>1, <1>2 DEF StartingInv, StoppedInv, DroppedInv, LiveInv, CarriedInv
<1>7. RefsInv'
  BY <1>1 DEF RefsInv, Held, Returned
<1>8. SleepInv'
  BY <1>1 DEF SleepInv, Awaited
<1> QED
  BY <1>3, <1>4, <1>5, <1>6, <1>7, <1>8

(* A client that sets the time of a timer at rest. *)
LEMMA SetTimeStep ==
    ASSUME TimerInv, Careful, NEW t \in Timers, SetRemainingTime(t) \/ AddTime(t) \/ SetAbsoluteTime(t)
    PROVE  TimerInv'
<1> USE DEF TimerInv
<1>1. /\ UNCHANGED <<now, m_pHead, m_pNext, m_notEmpty, solar, appRunning, locked, pc, deadline, firing, refs, life,
                      starting, dropped, wanted, carried>>
      /\ t \notin Ticking /\ firing # t /\ t \notin dropped /\ calls' \in 0..MaxCalls
  BY TimerAssumption DEF SetRemainingTime, AddTime, SetAbsoluteTime, Call, ClientHas, AtRest, queue, manager, objects,
                         history, TypeOK
<1>2. PICK x \in Instants, r \in {Zero, Period} :
           /\ m_aExpired' = [m_aExpired EXCEPT ![t] = x]
           /\ m_aRepeatDelta' = [m_aRepeatDelta EXCEPT ![t] = r]
  <2>0. now \in Instants /\ TimeOuts \subseteq Instants /\ TimePoints \subseteq Instants
    BY TimerAssumption DEF TypeOK
  <2>1. CASE SetRemainingTime(t)
    <3>1. PICK d \in TimeOuts, r \in {Zero, Period} :
               /\ m_aExpired' = [m_aExpired EXCEPT ![t] = Sum(now, d)]
               /\ m_aRepeatDelta' = [m_aRepeatDelta EXCEPT ![t] = r]
      BY <2>1 DEF SetRemainingTime
    <3>2. Sum(now, d) \in Instants
      BY <2>0, SumIs
    <3> QED BY <3>1, <3>2
  <2>2. CASE AddTime(t)
    <3>1. PICK d \in TimeOuts : m_aExpired' = [m_aExpired EXCEPT ![t] = Sum(Normal(m_aExpired[t]), d)]
      BY <2>2 DEF AddTime
    <3>2. Normal(m_aExpired[t]) \in Instants
      BY NormalOf DEF TypeOK
    <3>3. Sum(Normal(m_aExpired[t]), d) \in Instants
      BY <2>0, <3>2, SumIs
    <3>4. m_aRepeatDelta' = [m_aRepeatDelta EXCEPT ![t] = m_aRepeatDelta[t]] /\ m_aRepeatDelta[t] \in {Zero, Period}
      BY <2>2 DEF AddTime, TypeOK
    <3> QED BY <3>1, <3>3, <3>4
  <2>3. CASE SetAbsoluteTime(t)
    <3>1. PICK time \in TimePoints : m_aExpired' = [m_aExpired EXCEPT ![t] = time]
      BY <2>3 DEF SetAbsoluteTime
    <3>2. time \in Instants
      BY <2>0
    <3> QED BY <2>3, <3>1, <3>2 DEF SetAbsoluteTime
  <2> QED BY <2>1, <2>2, <2>3
<1>3. Ticking' = Ticking
  BY <1>1, SameQueue DEF queue
<1>4. TypeOK'
  <2>1. m_aTimeOut' \in [Timers -> Instants]
    BY Fields DEF SetRemainingTime, AddTime, SetAbsoluteTime, TypeOK
  <2>2. m_aExpired' \in [Timers -> TimeValues] /\ m_aRepeatDelta' \in [Timers -> {Zero, Period}]
    BY <1>2, Fields DEF TypeOK
  <2> QED BY <1>1, <2>1, <2>2 DEF TypeOK
<1>5. \A u \in Timers : u # t => m_aExpired'[u] = m_aExpired[u] /\ m_aRepeatDelta'[u] = m_aRepeatDelta[u]
  BY <1>2 DEF TypeOK
<1>6. Ticking \subseteq Timers /\ (m_pHead # Null => m_pHead \in Ticking)
  BY QueueFacts
<1>7. QueueInv'
  <2>1. PICK e, d, h, n, S : e = m_aExpired /\ d = m_aExpired' /\ h = m_pHead /\ n = m_pNext /\ S = Ticking
    OBVIOUS
  <2>2. Queued(h, n, e, S) /\ \A u \in S : d[u] = e[u]
    BY <1>1, <1>5, <1>6, <2>1 DEF QueueInv
  <2>3. Queued(h, n, d, S)
    BY <2>2, QueueTimes
  <2> QED BY <1>1, <1>3, <2>1, <2>3 DEF QueueInv
<1>8. FiringInv'
  <2>1. pc \in Taken => firing \in Timers
    BY DEF FiringInv, TypeOK
  <2> QED BY <1>1, <1>3, <1>5, <2>1 DEF FiringInv
<1>9. StartingInv' /\ LiveInv'
  BY <1>1, <1>3 DEF StartingInv, LiveInv
<1>10. StoppedInv' /\ DroppedInv'
  BY <1>1, <1>3, <1>5, <1>6 DEF StoppedInv, DroppedInv, TypeOK
<1>11. RefsInv'
  <2>1. \A u \in Timers : Returned(u) => Returned(u)'
    BY <1>1, <1>5 DEF Returned
  <2> QED BY <1>1, <2>1 DEF RefsInv, Held
<1>12. CarriedInv'
  <2>1. m_aExpired'[t] = x /\ ~(x.Nanosec >= PerSecond)
    BY <1>2, Fields DEF TypeOK
  <2> QED BY <1>1, <1>5, <2>1 DEF CarriedInv
<1>13. SleepInv'
  <2>1. m_pHead # Null => m_aExpired'[m_pHead] = m_aExpired[m_pHead]
    BY <1>1, <1>5, <1>6
  <2>2. m_pHead # Null => \A y : Awaited(y) => Awaited(y)'
    BY <1>1, <2>1 DEF Awaited
  <2> QED BY <1>1, <2>2 DEF SleepInv
<1> QED
  BY <1>4, <1>7, <1>8, <1>9, <1>10, <1>11, <1>12, <1>13

LEMMA ClientReleaseStep ==
    ASSUME TimerInv, Careful, NEW t \in Timers, ClientRelease(t)
    PROVE  TimerInv'
<1> USE DEF TimerInv
<1>1. /\ UNCHANGED <<now, m_pHead, m_pNext, m_aExpired, m_aTimeOut, m_aRepeatDelta, m_notEmpty, solar, appRunning,
                      locked, pc, deadline, firing, starting, wanted, carried>>
      /\ t \in wanted => t \notin Ticking /\ m_aRepeatDelta[t] = Zero
      /\ t \notin dropped /\ starting = Null
      /\ dropped' = dropped \cup {t} /\ calls' \in 0..MaxCalls
  BY TimerAssumption DEF ClientRelease, Call, ClientIdle, ClientHas, queue, times, manager, history, TypeOK
<1>2. refs[t] = (IF Held(t) THEN 2 ELSE 1) /\ life[t] = "alive"
  BY <1>1 DEF RefsInv, Returned
<1>3. /\ refs' = [refs EXCEPT ![t] = IF Held(t) THEN 1 ELSE 0]
      /\ life' = IF Held(t) THEN life ELSE [life EXCEPT ![t] = "dying"]
  BY <1>2 DEF ClientRelease
<1>4. Ticking' = Ticking
  BY <1>1, SameQueue DEF queue
<1>5. TypeOK'
  <2>1. refs' \in [Timers -> 0..2] /\ life' \in [Timers -> {"alive", "dying", "freed"}]
    BY <1>3 DEF TypeOK
  <2> QED BY <1>1, <2>1 DEF TypeOK
<1>6. QueueInv'
  BY <1>1, <1>4 DEF QueueInv
<1>7. FiringInv' /\ StartingInv' /\ StoppedInv' /\ CarriedInv'
  BY <1>1, <1>4 DEF FiringInv, StartingInv, StoppedInv, CarriedInv
<1>8. DroppedInv'
  BY <1>1, <1>4 DEF DroppedInv, StoppedInv
<1>9. RefsInv'
  <2>1. ASSUME NEW u \in Timers
        PROVE  /\ refs'[u] = IF u \in dropped' THEN IF Held(u) THEN 1 ELSE 0 ELSE IF Held(u) THEN 2 ELSE 1
               /\ refs'[u] # 0 => life'[u] = "alive" \/ Returned(u)
    <3>1. CASE u = t
      BY <1>1, <1>2, <1>3, <3>1 DEF TypeOK
    <3>2. CASE u # t
      <4>1. refs'[u] = refs[u] /\ life'[u] = life[u] /\ (u \in dropped' <=> u \in dropped)
        BY <1>1, <1>3, <3>2 DEF TypeOK
      <4> QED BY <4>1 DEF RefsInv
    <3> QED BY <3>1, <3>2
  <2>2. \A u \in Timers : (Held(u)' <=> Held(u)) /\ (Returned(u) => Returned(u)')
    BY <1>1 DEF Held, Returned
  <2> QED BY <2>1, <2>2 DEF RefsInv
<1>10. LiveInv'
  BY <1>3, <1>4 DEF LiveInv, TypeOK
<1>11. SleepInv'
  BY <1>1 DEF SleepInv, Awaited
<1> QED
  BY <1>5, <1>6, <1>7, <1>8, <1>9, <1>10, <1>11

LEMMA TimerInvStep ==
    ASSUME TimerInv, Careful, [Next]_vars
    PROVE  TimerInv'
<1>1. CASE CheckForTimeout
  BY <1>1, CheckStep
<1>2. CASE Rearm
  BY <1>2, RearmStep
<1>3. CASE Drop
  BY <1>3, DropStep
<1>4. CASE ManagerDestroy
  BY <1>4, ManagerDestroyStep
<1>5. CASE StartRegister
  BY <1>5, StartRegisterStep
<1>6. CASE \E t \in Timers : \/ StartLookup(t) \/ Stop(t) \/ SetRemainingTime(t) \/ AddTime(t)
                            \/ SetAbsoluteTime(t) \/ ClientRelease(t) \/ ClientDestroy(t)
  BY <1>6, StartLookupStep, StopStep, SetTimeStep, ClientReleaseStep, ClientDestroyStep
<1>7. CASE \/ ComputeDelay \/ Wait \/ AcquireSolar \/ OnShot \/ TakeSolar \/ DropSolar \/ Tick
           \/ UNCHANGED vars
  BY <1>7, QuietStep
<1> QED
  BY <1>1, <1>2, <1>3, <1>4, <1>5, <1>6, <1>7 DEF Next, Manager, Client, InCall

LEMMA TimerInvHolds == ASSUME Careful PROVE Spec => []TimerInv
<1>1. TimerInv /\ [Next]_vars => TimerInv'
  BY TimerInvStep
<1> QED
  BY <1>1, TimerInvInit, PTL DEF Spec

-----------------------------------------------------------------------------
(* The theorems                                                            *)

(* With careful clients every variable of salhelper's timers stays in its type:
   no reference count goes below zero or above the two owners of a timer. *)
THEOREM TypeCorrect == ASSUME Careful PROVE Spec => []TypeOK
<1>1. TimerInv => TypeOK
  BY DEF TimerInv
<1> QED
  BY <1>1, TimerInvHolds, PTL

(* With careful clients the list that m_pHead and the m_pNext make always ends
   and is sorted by expiry time as expiresBefore compares it, field by field,
   however the stores of registerTimer and unregisterTimer in the manager's and
   the clients' threads follow each other. *)
THEOREM QueueSorted == ASSUME Careful PROVE Spec => []SortedQueue
<1>1. ASSUME TimerInv PROVE SortedQueue
  <2>1. PICK q, k : Chain(m_pHead, m_pNext, q, k) /\ Sorted(m_aExpired, q, k)
    BY <1>1 DEF TimerInv, QueueInv, Queued
  <2>2. /\ k \in Nat /\ Size \in Nat /\ Terminates
        /\ \A n \in Nat : Walk[n] = IF n < k THEN q[n + 1] ELSE Null
    BY <2>1, ListIs DEF Listed
  <2>3. ASSUME NEW n \in 0..Size - 1, Walk[n] # Null, Walk[n + 1] # Null
        PROVE  ~Before(m_aExpired[Walk[n + 1]], m_aExpired[Walk[n]])
    <3>1. PICK m \in Nat : m = n + 1
      BY <2>2
    <3>2. n \in Nat /\ n < k /\ m < k /\ Walk[n] = q[m] /\ Walk[m] = q[m + 1]
      BY <2>2, <2>3, <3>1
    <3>3. m \in 1..k /\ m + 1 \in 1..k /\ m < m + 1
      BY <2>2, <3>1, <3>2
    <3>4. ~Before(m_aExpired[q[m + 1]], m_aExpired[q[m]])
      BY <2>1, <3>3 DEF Sorted
    <3> QED BY <3>1, <3>2, <3>4
  <2> QED BY <2>2, <2>3 DEF SortedQueue
<1> QED
  BY <1>1, TimerInvHolds, PTL

(* With careful clients the manager never waits past the time that any timer of
   the queue is due: a timer that is registered between its computation of the
   delay and its wait sets m_notEmpty, and the first timer of the list is due
   first.  There is one exception, which the theorem bounds: once Rearm has put
   a timer back with a time that is not normalized, the list may have a timer
   behind one that is due later, and the manager then wakes up too late for it,
   but still in the second in which it is due. *)
THEOREM NeverSleptThrough == ASSUME Careful PROVE Spec => []NeverOversleeps
<1>1. ASSUME TimerInv, pc = "wait", ~m_notEmpty, Before(now, deadline), NEW t \in Ticking,
             Before(Normal(m_aExpired[t]), deadline)
      PROVE  carried /\ Normal(m_aExpired[t]).Seconds = deadline.Seconds
  <2>1. PICK q, k : Chain(m_pHead, m_pNext, q, k) /\ Sorted(m_aExpired, q, k) /\ Ticking = Names(q, k)
    BY <1>1 DEF TimerInv, QueueInv, Queued
  <2>2. PICK j \in 1..k : t = q[j]
    BY <1>1, <2>1 DEF Names
  <2>3. k \in Nat /\ k # 0 /\ 1 \in 1..k /\ m_pHead = q[1] /\ q[1] \in Timers /\ t \in Timers
    BY <2>1, <2>2 DEF Chain
  <2>4. m_pHead # Null
    BY <2>3, TimerAssumption
  <2>5. PICK x \in TimeValues : Awaited(x)
    BY <1>1, <2>4 DEF TimerInv, SleepInv
  <2>6. PICK y \in TimeValues, h \in TimeValues : y = m_aExpired[t] /\ h = m_aExpired[m_pHead]
    BY <1>1, <2>3 DEF TimerInv, TypeOK
  <2>7. ~Before(y, h)
    <3>1. CASE j = 1
      BY <2>2, <2>3, <2>6, <3>1, OrderLaws
    <3>2. CASE j # 1
      BY <2>1, <2>2, <2>3, <2>6, <3>2 DEF Sorted
    <3> QED BY <3>1, <3>2
  <2>8. ~Before(y, x)
    BY <2>5, <2>6, <2>7, OrderLaws DEF Awaited
  <2>9. deadline \in Instants
    BY <1>1 DEF TimerInv, TypeOK
  <2>10. x.Nanosec >= PerSecond /\ Normal(y).Seconds = deadline.Seconds
    BY <1>1, <2>5, <2>6, <2>8, <2>9, OrderAndDelay DEF Awaited
  <2> QED BY <2>5, <2>6, <2>10 DEF Awaited
<1>2. TimerInv => NeverOversleeps
  BY <1>1 DEF NeverOversleeps
<1> QED
  BY <1>2, TimerInvHolds, PTL

(* With careful clients the queue has no timer that was freed, and the manager
   acquires a timer after its destruction has begun only in the race that the
   code loses: the timer repeats, its client had stopped it while its handler
   ran and dropped it after Rearm had put it back. *)
THEOREM NoneFreed == ASSUME Careful PROVE Spec => []NoUseAfterFree
<1>1. ASSUME TimerInv PROVE NoUseAfterFree
  <2>1. ASSUME Gone PROVE firing \in dropped \ wanted /\ m_aRepeatDelta[firing] # Zero
    <3>1. firing \in Timers /\ Held(firing) /\ life[firing] # "alive"
      BY <1>1, <2>1 DEF TimerInv, TypeOK, Held, Gone
    <3>2. refs[firing] # 0
      BY <1>1, <3>1 DEF TimerInv, RefsInv
    <3> QED BY <1>1, <3>1, <3>2 DEF TimerInv, RefsInv, Returned
  <2>2. \A t \in Ticking : life[t] # "freed"
    BY <1>1 DEF TimerInv, LiveInv
  <2> QED BY <2>1, <2>2 DEF NoUseAfterFree
<1> QED
  BY <1>1, TimerInvHolds, PTL

=============================================================================
