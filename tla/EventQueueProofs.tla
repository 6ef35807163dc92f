-------------------------- MODULE EventQueueProofs --------------------------
(***************************************************************************)
(* Theorems about EventQueue, for any events, frames and bounds.           *)
(***************************************************************************)
EXTENDS EventQueue, SequenceTheorems, WellFoundedInduction, TLAPS

-----------------------------------------------------------------------------
(* Sequences                                                               *)

\* s is a sequence, of whatever.
IsList(s) == Len(s) \in Nat /\ s = [i \in 1..Len(s) |-> s[i]]

(* A sequence of elements of S. *)
LEMMA ListType ==
    ASSUME NEW s, IsList(s), NEW S, \A i \in 1..Len(s) : s[i] \in S
    PROVE  s \in Seq(S)
<1>1. Len(s) \in Nat /\ s \in [1..Len(s) -> S]
  BY DEF IsList
<1> QED
  BY <1>1, SeqDef

LEMMA ListDomain ==
    ASSUME NEW s, IsList(s)
    PROVE  /\ DOMAIN s = 1..Len(s) /\ s \in Seq(Range(s))
           /\ \A x \in Range(s) : \E i \in 1..Len(s) : x = s[i]
           /\ \A i \in 1..Len(s) : s[i] \in Range(s)
<1>1. DOMAIN s = 1..Len(s)
  BY DEF IsList
<1>2. \A i \in 1..Len(s) : s[i] \in Range(s)
  BY <1>1 DEF Range
<1> QED
  BY <1>1, <1>2, ListType DEF Range

LEMMA SeqIsList ==
    ASSUME NEW S, NEW s \in Seq(S)
    PROVE  IsList(s)
  BY LenProperties DEF IsList

(* A function of numbers is one. *)
LEMMA FunctionIsList ==
    ASSUME NEW F, F = [i \in DOMAIN F |-> F[i]], NEW m \in Nat, DOMAIN F = 1..m
    PROVE  IsList(F) /\ Len(F) = m
<1>1. F \in [1..m -> Range(F)]
  BY DEF Range
<1>2. F \in Seq(Range(F))
  BY <1>1, SeqDef
<1>3. Len(F) \in Nat /\ 1..Len(F) = 1..m
  BY <1>2, LenProperties
<1>4. Len(F) = m
  <2> DEFINE l == Len(F)
  <2>1. l \in Nat /\ 1..l = 1..m
    BY <1>3
  <2> HIDE DEF l
  <2>2. l \in 1..l \/ l = 0
    BY <2>1
  <2>3. m \in 1..m \/ m = 0
    OBVIOUS
  <2>4. l <= m /\ m <= l
    BY <2>1, <2>2, <2>3
  <2> QED BY <2>1, <2>4 DEF l
<1> QED
  BY <1>2, <1>4, SeqIsList

LEMMA AppendFacts ==
    ASSUME NEW s, IsList(s), NEW x
    PROVE  /\ IsList(Append(s, x)) /\ Len(Append(s, x)) = Len(s) + 1
           /\ Append(s, x)[Len(s) + 1] = x
           /\ \A i \in 1..Len(s) : Append(s, x)[i] = s[i]
           /\ DOMAIN Append(s, x) = 1..Len(s) + 1
<1> DEFINE S == Range(s) \cup {x}
<1>1. s \in Seq(S) /\ x \in S
  BY ListDomain, ListType
<1> HIDE DEF S
<1>2. Append(s, x) \in Seq(S)
  BY <1>1, AppendProperties
<1>3. /\ Len(Append(s, x)) = Len(s) + 1
      /\ \A i \in 1..Len(s) : Append(s, x)[i] = s[i]
      /\ Append(s, x)[Len(s) + 1] = x
  BY <1>1, AppendProperties
<1>4. IsList(Append(s, x)) /\ DOMAIN Append(s, x) = 1..Len(Append(s, x))
  BY <1>2, SeqIsList, LenProperties
<1> QED
  BY <1>3, <1>4

(* What is left of a sequence from its m-th element. *)
LEMMA SuffixFacts ==
    ASSUME NEW s, IsList(s), NEW m \in 1..Len(s)
    PROVE  /\ IsList(SubSeq(s, m, Len(s))) /\ Len(SubSeq(s, m, Len(s))) = Len(s) - m + 1
           /\ \A i \in 1..Len(s) - m + 1 : SubSeq(s, m, Len(s))[i] = s[m + i - 1]
<1>1. Len(s) \in Int /\ m \in Int /\ m <= Len(s) /\ \A i \in m..Len(s) : s[i] \in Range(s)
  BY ListDomain DEF IsList
<1> DEFINE t == SubSeq(s, m, Len(s))
<1>2. /\ t \in Seq(Range(s)) /\ Len(t) = IF m <= Len(s) THEN Len(s) - m + 1 ELSE 0
      /\ \A i \in 1..Len(s) - m + 1 : t[i] = s[m + i - 1]
  BY <1>1, SubSeqProperties
<1>3. IsList(t)
  BY <1>2, SeqIsList
<1> QED
  BY <1>1, <1>2, <1>3

(* A set of numbers has a least element: induction, for a given set. *)
LEMMA LeastExists ==
    ASSUME NEW T, T \subseteq Nat, T # {}
    PROVE  \E x \in T : \A y \in T : x <= y
<1>1. PICK x \in T : \A y \in T : ~(<<y, x>> \in OpToRel(<, Nat))
  BY NatLessThanWellFounded, WFMin
<1>2. ASSUME NEW y \in T PROVE ~(y < x)
  <2>1. <<y, x>> \in Nat \X Nat
    OBVIOUS
  <2>2. ~(<<y, x>>[1] < <<y, x>>[2])
    BY <1>1, <2>1 DEF OpToRel
  <2> QED BY <2>2
<1>3. \A y \in T : x <= y
  BY <1>2
<1> QED BY <1>3

LEMMA MinFacts ==
    ASSUME NEW T, T \subseteq Nat, T # {}
    PROVE  Min(T) \in T /\ \A y \in T : Min(T) <= y
  BY LeastExists DEF Min

LEMMA MaxFacts ==
    ASSUME NEW n \in Nat, NEW T, T \subseteq 0..n, T # {}
    PROVE  Max(T) \in T /\ \A y \in T : y <= Max(T)
<1> DEFINE U == {n - y : y \in T}
<1>1. U \subseteq Nat /\ U # {}
  <2>1. \A y \in T : n - y \in Nat
    OBVIOUS
  <2> QED
    BY <2>1
<1>2. PICK u \in U : \A v \in U : u <= v
  BY <1>1, LeastExists
<1>3. PICK x \in T : u = n - x
  BY <1>2
<1>4. \A y \in T : x >= y
  <2>1. ASSUME NEW y \in T PROVE x >= y
    <3>1. n - y \in U
      OBVIOUS
    <3>2. n - x <= n - y
      BY <1>2, <1>3, <3>1
    <3>3. x \in Nat /\ y \in Nat
      OBVIOUS
    <3> QED BY <3>2, <3>3
  <2> QED BY <2>1
<1>5. \E z \in T : \A y \in T : z >= y
  BY <1>4
<1>6. Max(T) \in T /\ \A y \in T : Max(T) >= y
  BY <1>5 DEF Max
<1>7. T \subseteq Int
  OBVIOUS
<1> QED
  BY <1>6, <1>7

-----------------------------------------------------------------------------
(* Sums                                                                    *)

\* The function that SumTo is the last value of.
IsSum(u, f, n) == u = [m \in 0..n |-> IF m = 0 THEN 0 ELSE u[m - 1] + f[m]]

LEMMA SumExists ==
    ASSUME NEW f, NEW n \in Nat
    PROVE  \E u : IsSum(u, f, n)
<1> DEFINE T == {k \in Nat : ~\E u : IsSum(u, f, k)}
<1> SUFFICES ASSUME T # {} PROVE FALSE
  OBVIOUS
<1>1. PICK k \in T : \A y \in T : k <= y
  BY LeastExists
<1>2. CASE k = 0
  <2> DEFINE u == [m \in 0..0 |-> 0]
  <2>1. \A m \in 0..0 : m = 0
    OBVIOUS
  <2>2. u = [m \in 0..0 |-> IF m = 0 THEN 0 ELSE u[m - 1] + f[m]]
    BY <2>1
  <2>3. IsSum(u, f, 0)
    BY <2>2 DEF IsSum
  <2> QED BY <1>2, <2>3
<1>3. CASE k # 0
  <2>1. k - 1 \in Nat /\ k - 1 \notin T
    BY <1>1, <1>3
  <2>2. PICK v : IsSum(v, f, k - 1)
    BY <2>1
  <2>3. v = [m \in 0..k - 1 |-> IF m = 0 THEN 0 ELSE v[m - 1] + f[m]]
    BY <2>2 DEF IsSum
  <2> DEFINE u == [m \in 0..k |-> IF m = k THEN v[k - 1] + f[k] ELSE v[m]]
  <2>4. \A m \in 0..k : u[m] = IF m = 0 THEN 0 ELSE u[m - 1] + f[m]
    <3> TAKE m \in 0..k
    <3>1. CASE m = k
      BY <1>3, <2>1, <3>1
    <3>2. CASE m # k
      <4>1. m \in 0..k - 1 /\ u[m] = v[m] /\ (m # 0 => u[m - 1] = v[m - 1])
        BY <2>1, <3>2
      <4>2. v[m] = IF m = 0 THEN 0 ELSE v[m - 1] + f[m]
        BY <2>3, <4>1
      <4> QED BY <4>1, <4>2
    <3> QED BY <3>1, <3>2
  <2>5. u = [m \in 0..k |-> IF m = 0 THEN 0 ELSE u[m - 1] + f[m]]
    BY <2>4
  <2>6. IsSum(u, f, k)
    BY <2>5 DEF IsSum
  <2> QED BY <2>6
<1> QED
  BY <1>2, <1>3

(* Two sums of the same numbers agree as far as both go. *)
LEMMA SumsAgree ==
    ASSUME NEW f, NEW g, NEW n \in Nat, NEW m \in 0..n, NEW u, NEW v, IsSum(u, f, n), IsSum(v, g, m),
           \A i \in 1..m : f[i] = g[i]
    PROVE  u[m] = v[m]
<1> DEFINE T == {k \in 0..m : u[k] # v[k]}
<1> SUFFICES ASSUME T # {} PROVE FALSE
  OBVIOUS
<1>0. T \subseteq Nat
  OBVIOUS
<1>1. PICK k \in T : \A y \in T : k <= y
  BY <1>0, LeastExists
<1>2. /\ u[k] = IF k = 0 THEN 0 ELSE u[k - 1] + f[k]
      /\ v[k] = IF k = 0 THEN 0 ELSE v[k - 1] + g[k]
  BY DEF IsSum
<1>3. CASE k = 0
  BY <1>2, <1>3
<1>4. CASE k # 0
  <2>1. k - 1 \in 0..m /\ k - 1 \notin T /\ f[k] = g[k]
    BY <1>1, <1>4
  <2> QED BY <1>2, <1>4, <2>1
<1> QED
  BY <1>3, <1>4

LEMMA SumToIs ==
    ASSUME NEW f, NEW n \in Nat
    PROVE  \E u : IsSum(u, f, n) /\ SumTo(f, n) = u[n]
<1> DEFINE u == CHOOSE s : IsSum(s, f, n)
<1>1. IsSum(u, f, n)
  BY SumExists
<1>2. SumTo(f, n) = u[n]
  BY DEF SumTo, IsSum
<1> QED
  BY <1>1, <1>2

(* What a sum is. *)
LEMMA SumStep ==
    ASSUME NEW f, NEW n \in Nat
    PROVE  /\ SumTo(f, 0) = 0
           /\ n > 0 => SumTo(f, n) = SumTo(f, n - 1) + f[n]
<1>1. SumTo(f, 0) = 0
  <2>1. PICK u : IsSum(u, f, 0) /\ SumTo(f, 0) = u[0]
    BY SumToIs
  <2> QED BY <2>1 DEF IsSum
<1>2. ASSUME n > 0 PROVE SumTo(f, n) = SumTo(f, n - 1) + f[n]
  <2>1. n - 1 \in Nat /\ n - 1 \in 0..n
    BY <1>2
  <2>2. PICK u : IsSum(u, f, n) /\ SumTo(f, n) = u[n]
    BY SumToIs
  <2>3. PICK v : IsSum(v, f, n - 1) /\ SumTo(f, n - 1) = v[n - 1]
    BY <2>1, SumToIs
  <2>4. u[n - 1] = v[n - 1]
    BY <2>1, <2>2, <2>3, SumsAgree
  <2>5. u[n] = u[n - 1] + f[n]
    BY <1>2, <2>2 DEF IsSum
  <2> QED BY <2>2, <2>3, <2>4, <2>5
<1> QED
  BY <1>1, <1>2

LEMMA SumSame ==
    ASSUME NEW f, NEW g, NEW n \in Nat, \A i \in 1..n : f[i] = g[i]
    PROVE  SumTo(f, n) = SumTo(g, n)
<1>1. PICK u : IsSum(u, f, n) /\ SumTo(f, n) = u[n]
  BY SumToIs
<1>2. PICK v : IsSum(v, g, n) /\ SumTo(g, n) = v[n]
  BY SumToIs
<1> QED
  BY <1>1, <1>2, SumsAgree

LEMMA SumInt ==
    ASSUME NEW f, NEW n \in Nat, \A i \in 1..n : f[i] \in Int
    PROVE  SumTo(f, n) \in Int
<1> DEFINE T == {k \in 0..n : SumTo(f, k) \notin Int}
<1> SUFFICES ASSUME T # {} PROVE FALSE
  BY DEF T
<1>0. T \subseteq Nat
  OBVIOUS
<1>1. PICK k \in T : \A y \in T : k <= y
  BY <1>0, LeastExists
<1>2. CASE k = 0
  BY <1>2, SumStep
<1>3. CASE k # 0
  <2>1. k - 1 \in 0..n /\ k - 1 \notin T /\ k \in Nat /\ k > 0
    BY <1>1, <1>3
  <2>2. SumTo(f, k) = SumTo(f, k - 1) + f[k]
    BY <2>1, SumStep
  <2> QED BY <2>1, <2>2
<1> QED
  BY <1>2, <1>3

LEMMA SumZero ==
    ASSUME NEW f, NEW n \in Nat, \A i \in 1..n : f[i] = 0
    PROVE  SumTo(f, n) = 0
<1> DEFINE T == {k \in 0..n : SumTo(f, k) # 0}
<1> SUFFICES ASSUME T # {} PROVE FALSE
  BY DEF T
<1>0. T \subseteq Nat
  OBVIOUS
<1>1. PICK k \in T : \A y \in T : k <= y
  BY <1>0, LeastExists
<1>2. CASE k = 0
  BY <1>2, SumStep
<1>3. CASE k # 0
  <2>1. k - 1 \in 0..n /\ k - 1 \notin T /\ k \in Nat /\ k > 0
    BY <1>1, <1>3
  <2>2. SumTo(f, k) = SumTo(f, k - 1) + f[k]
    BY <2>1, SumStep
  <2> QED BY <2>1, <2>2
<1> QED
  BY <1>2, <1>3

LEMMA SumPlus ==
    ASSUME NEW f, NEW g, NEW h, NEW n \in Nat,
           \A i \in 1..n : f[i] \in Int /\ g[i] \in Int /\ h[i] = f[i] + g[i]
    PROVE  SumTo(h, n) = SumTo(f, n) + SumTo(g, n)
<1> DEFINE T == {k \in 0..n : SumTo(h, k) # SumTo(f, k) + SumTo(g, k)}
<1> SUFFICES ASSUME T # {} PROVE FALSE
  BY DEF T
<1>0. T \subseteq Nat
  OBVIOUS
<1>1. PICK k \in T : \A y \in T : k <= y
  BY <1>0, LeastExists
<1>2. CASE k = 0
  BY <1>2, SumStep
<1>3. CASE k # 0
  <2>1. k - 1 \in 0..n /\ k - 1 \notin T /\ k \in Nat /\ k > 0 /\ k - 1 \in Nat
    BY <1>1, <1>3
  <2>2. /\ SumTo(f, k) = SumTo(f, k - 1) + f[k] /\ SumTo(g, k) = SumTo(g, k - 1) + g[k]
        /\ SumTo(h, k) = SumTo(h, k - 1) + h[k]
    BY <2>1, SumStep
  <2>3. SumTo(f, k - 1) \in Int /\ SumTo(g, k - 1) \in Int
    BY <2>1, SumInt
  <2>4. h[k] = f[k] + g[k] /\ f[k] \in Int /\ g[k] \in Int
    BY <2>1
  <2>5. SumTo(h, k - 1) = SumTo(f, k - 1) + SumTo(g, k - 1)
    BY <2>1
  <2> HIDE DEF T
  <2>6. SumTo(h, k) = SumTo(f, k) + SumTo(g, k)
    BY <2>2, <2>3, <2>4, <2>5
  <2> QED BY <2>6 DEF T
<1> QED
  BY <1>2, <1>3

(* Numbers that are not negative add up to one that none of them exceeds. *)
LEMMA SumNat ==
    ASSUME NEW f, NEW n \in Nat, \A i \in 1..n : f[i] \in Nat
    PROVE  /\ SumTo(f, n) \in Nat
           /\ \A i \in 1..n : f[i] <= SumTo(f, n)
<1> DEFINE Good(k) == SumTo(f, k) \in Nat /\ \A i \in 1..k : f[i] <= SumTo(f, k)
           T == {k \in 0..n : ~Good(k)}
<1> SUFFICES ASSUME T # {} PROVE FALSE
  OBVIOUS
<1>0. T \subseteq Nat
  OBVIOUS
<1>1. PICK k \in T : \A y \in T : k <= y
  BY <1>0, LeastExists
<1>2. CASE k = 0
  BY <1>2, SumStep
<1>3. CASE k # 0
  <2>1. k - 1 \in 0..n /\ k - 1 \notin T /\ k \in Nat /\ k > 0 /\ k \in 1..n
    BY <1>1, <1>3
  <2>2. SumTo(f, k) = SumTo(f, k - 1) + f[k] /\ f[k] \in Nat
    BY <2>1, SumStep
  <2>3. SumTo(f, k - 1) \in Nat /\ \A i \in 1..k - 1 : f[i] <= SumTo(f, k - 1)
    BY <2>1
  <2>4. ASSUME NEW i \in 1..k PROVE f[i] <= SumTo(f, k)
    <3>1. CASE i = k
      BY <2>2, <2>3, <3>1
    <3>2. CASE i # k
      <4>1. i \in 1..k - 1 /\ f[i] \in Nat
        BY <2>1, <3>2
      <4>2. f[i] <= SumTo(f, k - 1)
        BY <2>3, <4>1
      <4> QED BY <2>2, <2>3, <4>1, <4>2
    <3> QED BY <3>1, <3>2
  <2>5. SumTo(f, k) \in Nat
    BY <2>2, <2>3
  <2> QED BY <1>1, <2>4, <2>5
<1> QED
  BY <1>2, <1>3

-----------------------------------------------------------------------------
(* Purging                                                                 *)

Increasing(s) == \A a, b \in 1..Len(s) : a < b => s[a] < s[b]

LEMMA PurgedFacts ==
    ASSUME NEW s, IsList(s), NEW gone
    PROVE  /\ IsList(Purged(s, gone))
           /\ \/ Purged(s, gone) = <<>> /\ \A i \in 1..Len(s) : s[i] \in gone
              \/ \E m \in 0..Len(s) - 1 :
                    /\ Len(Purged(s, gone)) = Len(s) - m
                    /\ \A i \in 1..Len(s) - m : Purged(s, gone)[i] = s[m + i]
                    /\ s[m + 1] \notin gone /\ \A i \in 1..m : s[i] \in gone
<1> DEFINE kept == {j \in 1..Len(s) : s[j] \notin gone}
<1>1. CASE kept = {}
  <2>1. Purged(s, gone) = <<>>
    BY <1>1 DEF Purged
  <2>2. IsList(<<>>)
    BY SeqIsList, EmptySeq
  <2> QED
    BY <1>1, <2>1, <2>2
<1>2. CASE kept # {}
  <2> DEFINE m == Min(kept)
  <2>1. kept \subseteq Nat /\ Len(s) \in Nat
    BY DEF IsList
  <2>2. m \in kept /\ \A y \in kept : m <= y
    BY <1>2, <2>1, MinFacts
  <2>3. Purged(s, gone) = SubSeq(s, m, Len(s))
    BY <1>2 DEF Purged
  <2> HIDE DEF m
  <2>4. m \in 1..Len(s) /\ s[m] \notin gone
    BY <2>2
  <2>5. \A i \in 1..m - 1 : s[i] \in gone
    BY <2>1, <2>2, <2>4
  <2>6. /\ IsList(Purged(s, gone)) /\ Len(Purged(s, gone)) = Len(s) - (m - 1)
        /\ \A i \in 1..Len(s) - (m - 1) : Purged(s, gone)[i] = s[(m - 1) + i]
    BY <2>1, <2>3, <2>4, SuffixFacts
  <2>7. m - 1 \in 0..Len(s) - 1 /\ s[(m - 1) + 1] \notin gone
    BY <2>1, <2>4
  <2> QED
    BY <2>5, <2>6, <2>7
<1> QED
  BY <1>1, <1>2

(* Purging a queue whose items are in the order of their numbers. *)
LEMMA PurgedQueue ==
    ASSUME NEW s, IsList(s), Increasing(s), \A i \in 1..Len(s) : s[i] \in Nat, NEW gone
    PROVE  LET p == Purged(s, gone) IN
           /\ IsList(p) /\ Increasing(p)
           /\ Range(p) \subseteq Range(s) /\ Range(s) \ gone \subseteq Range(p)
           /\ p # <<>> => Head(p) \notin gone
           /\ \A i \in Range(p), j \in Range(s) : i < j => j \in Range(p)
<1> DEFINE p == Purged(s, gone)
<1>1. IsList(p)
  BY PurgedFacts
<1>2. CASE p = <<>> /\ \A i \in 1..Len(s) : s[i] \in gone
  <2>1. Range(p) = {} /\ Increasing(p)
    BY <1>2 DEF Range, Increasing
  <2>2. Range(s) \subseteq gone
    BY <1>2, ListDomain
  <2> QED
    BY <1>1, <1>2, <2>1, <2>2
<1>3. ASSUME NEW m \in 0..Len(s) - 1, Len(p) = Len(s) - m, \A i \in 1..Len(s) - m : p[i] = s[m + i],
             s[m + 1] \notin gone, \A i \in 1..m : s[i] \in gone
      PROVE  /\ Increasing(p)
             /\ Range(p) \subseteq Range(s) /\ Range(s) \ gone \subseteq Range(p)
             /\ p # <<>> => Head(p) \notin gone
             /\ \A i \in Range(p), j \in Range(s) : i < j => j \in Range(p)
  <2> HIDE DEF p
  <2>0. Len(s) \in Nat /\ Len(p) \in Nat
    BY <1>1 DEF IsList
  <2>1. Increasing(p)
    <3>1. ASSUME NEW a \in 1..Len(p), NEW b \in 1..Len(p), a < b PROVE p[a] < p[b]
      <4>1. /\ p[a] = s[m + a] /\ p[b] = s[m + b]
            /\ m + a \in 1..Len(s) /\ m + b \in 1..Len(s) /\ m + a < m + b
        BY <1>3, <2>0, <3>1
      <4>2. s[m + a] < s[m + b]
        BY <4>1 DEF Increasing
      <4> QED BY <4>1, <4>2
    <3> QED BY <3>1 DEF Increasing
  <2>2. ASSUME NEW x \in Range(p) PROVE x \in Range(s)
    <3>1. PICK i \in 1..Len(p) : x = p[i]
      BY <1>1, ListDomain
    <3>2. m + i \in 1..Len(s) /\ x = s[m + i]
      BY <1>3, <2>0, <3>1
    <3> QED BY <3>2, ListDomain
  <2>3. ASSUME NEW b \in 1..Len(s), b > m PROVE s[b] \in Range(p)
    <3>1. b - m \in 1..Len(p) /\ p[b - m] = s[b]
      BY <1>3, <2>0, <2>3
    <3> QED BY <1>1, <3>1, ListDomain
  <2>4. ASSUME NEW x \in Range(s), x \notin gone PROVE x \in Range(p)
    <3>1. PICK i \in 1..Len(s) : x = s[i]
      BY ListDomain
    <3>2. i > m
      BY <1>3, <2>4, <3>1
    <3> QED BY <2>3, <3>1, <3>2
  <2>5. Head(p) \notin gone
    <3>1. p[1] = s[m + 1] /\ p \in Seq(Range(p)) /\ p # <<>>
      BY <1>1, <1>3, <2>0, ListDomain
    <3> QED BY <1>3, <3>1
  <2>6. ASSUME NEW x \in Range(p), NEW y \in Range(s), x < y PROVE y \in Range(p)
    <3>1. PICK a \in 1..Len(p) : x = p[a]
      BY <1>1, ListDomain
    <3>2. PICK b \in 1..Len(s) : y = s[b]
      BY ListDomain
    <3>3. m + a \in 1..Len(s) /\ x = s[m + a]
      BY <1>3, <2>0, <3>1
    <3>4. b > m
      <4> SUFFICES ASSUME b <= m PROVE FALSE
        BY <2>0
      <4>1. b < m + a
        BY <3>1
      <4>2. s[b] < s[m + a] /\ s[b] \in Nat /\ s[m + a] \in Nat
        BY <3>2, <3>3, <4>1 DEF Increasing
      <4> QED BY <2>6, <3>2, <3>3, <4>2
    <3> QED BY <2>3, <3>2, <3>4
  <2> QED BY <2>1, <2>2, <2>4, <2>5, <2>6
<1> QED
  BY <1>1, <1>2, <1>3, PurgedFacts

(* A new item has the highest number. *)
LEMMA AppendQueue ==
    ASSUME NEW s, IsList(s), Increasing(s), NEW n \in Nat, \A i \in 1..Len(s) : s[i] \in 1..n - 1
    PROVE  /\ Increasing(Append(s, n)) /\ Range(Append(s, n)) = Range(s) \cup {n}
           /\ \A i \in 1..Len(Append(s, n)) : Append(s, n)[i] \in Nat
<1> DEFINE t == Append(s, n)
<1>1. /\ IsList(t) /\ Len(t) = Len(s) + 1 /\ t[Len(s) + 1] = n
      /\ \A i \in 1..Len(s) : t[i] = s[i]
      /\ Len(s) \in Nat
  BY AppendFacts DEF IsList
<1> HIDE DEF t
<1>2. \A i \in 1..Len(t) : t[i] \in Nat
  BY <1>1
<1>3. Increasing(t)
  <2>1. ASSUME NEW a \in 1..Len(t), NEW b \in 1..Len(t), a < b PROVE t[a] < t[b]
    <3>1. a \in 1..Len(s) /\ t[a] = s[a] /\ s[a] \in 1..n - 1
      BY <1>1, <2>1
    <3>2. CASE b \in 1..Len(s)
      <4>1. s[a] < s[b] /\ t[b] = s[b]
        BY <1>1, <2>1, <3>1, <3>2 DEF Increasing
      <4> QED BY <3>1, <4>1
    <3>3. CASE b \notin 1..Len(s)
      <4>1. b = Len(s) + 1
        BY <1>1, <3>3
      <4>2. t[b] = n
        BY <1>1, <4>1
      <4> QED BY <3>1, <4>2
    <3> QED BY <3>2, <3>3
  <2> QED BY <2>1 DEF Increasing
<1>4. Range(t) = Range(s) \cup {n}
  <2>1. ASSUME NEW x \in Range(t) PROVE x \in Range(s) \cup {n}
    <3>1. PICK i \in 1..Len(t) : x = t[i]
      BY <1>1, <2>1, ListDomain
    <3>2. CASE i \in 1..Len(s)
      <4>1. x = s[i]
        BY <1>1, <3>1, <3>2
      <4> QED BY <3>2, <4>1, ListDomain
    <3>3. CASE i \notin 1..Len(s)
      <4>1. i = Len(s) + 1
        BY <1>1, <3>3
      <4> QED BY <1>1, <3>1, <4>1
    <3> QED BY <3>2, <3>3
  <2>2. ASSUME NEW x \in Range(s) \cup {n} PROVE x \in Range(t)
    <3>1. CASE x = n
      BY <1>1, <3>1, ListDomain
    <3>2. CASE x # n
      <4>1. PICK i \in 1..Len(s) : x = s[i]
        BY <3>2, ListDomain
      <4>2. i \in 1..Len(t) /\ t[i] = x
        BY <1>1, <4>1
      <4> QED BY <1>1, <4>2, ListDomain
    <3> QED BY <3>1, <3>2
  <2> QED BY <2>1, <2>2
<1> QED
  BY <1>2, <1>3, <1>4 DEF t

-----------------------------------------------------------------------------
(* The inductive invariant                                                 *)

\* A queue is in the order of posting and of one kind; it holds all that was
\* posted since its oldest item; and that item is not marked.
QueueOK(k) ==
    /\ IsList(queue[k]) /\ Increasing(queue[k])
    /\ \A i \in Waiting(k) : i \in Numbers /\ QueueOf(event[i].id) = k
    /\ \A i \in Waiting(k), j \in Numbers : i < j /\ QueueOf(event[j].id) = k => j \in Waiting(k)
    /\ queue[k] # <<>> => Head(queue[k]) \notin removed

\* What coalescing leaves of an event as it was posted.
EventOK(i) ==
    /\ IsEvent(event[i]) /\ IsEvent(posted[i])
    /\ event[i].id = posted[i].id /\ event[i].frame = posted[i].frame
    /\ event[i].id = "KEYINPUT" => event[i].data.key = posted[i].data.key
    /\ event[i].id = "WHEELMOUSE" => /\ event[i].data.horz = posted[i].data.horz
                                     /\ event[i].data.zoom = posted[i].data.zoom

\* An item waits unmarked until its fate is settled.
FateOK(i) ==
    /\ fate[i].how \in {"queued", "given", "cleared", "superseded"}
    /\ fate[i].at \in 0..scenario.maxPosts
    /\ i \in removed => fate[i].how # "queued"
    /\ \A k \in Queues : i \in Waiting(k) /\ i \notin removed => fate[i].how = "queued"

\* A pointer is to an item that exists; no key went up since the press that the
\* first is to.
PointersOK ==
    /\ {mpKeyInputItem, mpMoveResizeItem, mpPaintItem} \subseteq Waiting("native") \cup {0}
    /\ mpKeyInputItem # 0 => \A i \in Numbers : i > mpKeyInputItem => posted[i].id # "KEYUP"

ListsOK ==
    /\ scenario \in Scenarios
    /\ IsList(event) /\ IsList(posted) /\ IsList(fate)
    /\ Len(posted) = Len(event) /\ Len(fate) = Len(event) /\ Len(event) <= scenario.maxPosts
    /\ removed \subseteq Numbers
    /\ queue = [k \in Queues |-> queue[k]]

ItemsInv ==
    /\ ListsOK /\ PointersOK
    /\ \A k \in Queues : QueueOK(k)
    /\ \A i \in Numbers : EventOK(i) /\ FateOK(i)

\* After the press i one of its key stands that was posted before the item n.
PressStands(i, n) ==
    \E j \in i..n - 1 : /\ Same(i, j, "KEYINPUT") /\ Stands(j)
                        /\ posted[j].data.key = posted[i].data.key
MoveStands(i, n) == \E j \in i..n - 1 : Same(i, j, "MOUSEMOVE") /\ Stands(j)

\* InputKeepsOrder, and that it would hold of a KEYUP or MOUSEBUTTONDOWN posted
\* now.
OrderInv ==
    \A n \in 1..Len(event) + 1 : \A i \in 1..n - 1 :
        /\ (n > Len(event) \/ posted[n].id = "KEYUP") /\ posted[i].id = "KEYINPUT" => PressStands(i, n)
        /\ (n > Len(event) \/ posted[n].id = "MOUSEBUTTONDOWN") /\ posted[i].id = "MOUSEMOVE" => MoveStands(i, n)

\* Once a magnifying event was posted, the rotations before it that still wait
\* are by the page and so are not added to another.
WheelInv ==
    \A z \in Numbers : posted[z].id = "WHEELMOUSE" /\ posted[z].data.zoom =>
        \A i \in 1..z - 1 :
            /\ posted[i].id = "WHEELMOUSE" /\ posted[i].frame = posted[z].frame
            /\ posted[i].data.horz = posted[z].data.horz
            /\ i \in Waiting("native") /\ i \notin removed
            => event[i].data.page

(* The items that a new event takes the place of: they wait, and they are like
   it. *)
LEMMA SupersededFacts ==
    ASSUME ItemsInv, NEW e, IsEvent(e), NEW i \in Superseded(e)
    PROVE  /\ i \in Numbers /\ i \notin removed /\ i \in Waiting(QueueOf(e.id))
           /\ event[i].id = e.id /\ event[i].frame = e.frame
           /\ e.id \in {"EXTTEXTINPUT", "MOUSEMOVE", "KEYINPUT", "WHEELMOUSE", "MOVERESIZE", "PAINT"}
           /\ e.id = "KEYINPUT" => i = mpKeyInputItem /\ event[i].data.key = e.data.key
           /\ e.id = "MOUSEMOVE" => i \in Back("native")
           /\ e.id = "PAINT" => i = mpPaintItem
           /\ e.id = "WHEELMOUSE" => ~event[i].data.page /\ event[i].data.horz = e.data.horz
<1>1. e.id \in {"EXTTEXTINPUT", "MOUSEMOVE", "KEYINPUT", "WHEELMOUSE", "MOVERESIZE", "PAINT"}
  BY DEF Superseded
<1>2. QueueOf(e.id) = "native"
  BY <1>1 DEF QueueOf, NativeIDs
<1>3. \A S : \A j \in Like(S, e) : j \in S /\ j \notin removed /\ j # 0 /\ event[j].id = e.id /\ event[j].frame = e.frame
  BY DEF Like
<1>4. Back("native") \subseteq Waiting("native")
  <2>1. IsList(queue["native"])
    BY DEF ItemsInv, QueueOK, Queues
  <2>2. queue["native"] # <<>> => Len(queue["native"]) \in 1..Len(queue["native"])
    BY <2>1, ListDomain
  <2> QED
    BY <2>1, <2>2, ListDomain DEF Back, Waiting
<1>5. {mpKeyInputItem, mpMoveResizeItem, mpPaintItem} \subseteq Waiting("native") \cup {0}
  BY DEF ItemsInv, PointersOK
<1>6. \A j \in Waiting("native") : j \in Numbers
  BY DEF ItemsInv, QueueOK, Queues
<1>7. CASE e.id = "EXTTEXTINPUT"
  BY <1>2, <1>3, <1>4, <1>6, <1>7 DEF Superseded
<1>8. CASE e.id = "MOUSEMOVE"
  BY <1>2, <1>3, <1>4, <1>6, <1>8 DEF Superseded
<1>9. CASE e.id = "KEYINPUT"
  BY <1>2, <1>3, <1>5, <1>6, <1>9 DEF Superseded
<1>10. CASE e.id = "WHEELMOUSE"
  BY <1>2, <1>3, <1>6, <1>10 DEF Superseded
<1>11. CASE e.id = "MOVERESIZE"
  BY <1>2, <1>3, <1>5, <1>6, <1>11 DEF Superseded
<1>12. CASE e.id = "PAINT"
  BY <1>2, <1>3, <1>5, <1>6, <1>12 DEF Superseded
<1> QED
  BY <1>1, <1>7, <1>8, <1>9, <1>10, <1>11, <1>12

(* The rectangle around cells. *)
LEMMA AroundFacts ==
    ASSUME NEW cells, cells \subseteq 0..Width
    PROVE  cells \subseteq Around(cells) /\ Around(cells) \subseteq 0..Width
<1>1. CASE cells = {}
  BY <1>1 DEF Around
<1>2. CASE cells # {}
  <2>1. cells \subseteq Nat
    BY WidthAssumption
  <2>2. /\ Min(cells) \in cells /\ Max(cells) \in cells
        /\ \A c \in cells : Min(cells) <= c /\ c <= Max(cells)
    BY <1>2, <2>1, MinFacts, MaxFacts, WidthAssumption
  <2>3. Around(cells) = Min(cells)..Max(cells)
    BY <1>2 DEF Around
  <2> DEFINE a == Min(cells)
             b == Max(cells)
  <2>4. a \in 0..Width /\ b \in 0..Width /\ Width \in Nat
    BY <2>2, WidthAssumption
  <2>5. \A c \in cells : a <= c /\ c <= b /\ c \in 0..Width
    BY <2>2
  <2>6. Around(cells) = a..b
    BY <2>3
  <2> HIDE DEF a, b
  <2>7. \A c \in cells : c \in a..b
    BY <2>4, <2>5
  <2>8. a..b \subseteq 0..Width
    BY <2>4
  <2> QED
    BY <2>6, <2>7, <2>8
<1> QED
  BY <1>1, <1>2

(* The rotation of items is a number. *)
LEMMA RotationInt ==
    ASSUME NEW s, IsList(s), NEW S, \A i \in 1..Len(s) : i \in S => s[i].data.delta \in Int
    PROVE  RotationOf(S, s) \in Int
<1> DEFINE f == [i \in DOMAIN s |-> IF i \in S THEN s[i].data.delta ELSE 0]
<1>1. DOMAIN s = 1..Len(s) /\ Len(s) \in Nat
  BY DEF IsList
<1>2. \A i \in 1..Len(s) : f[i] \in Int
  BY <1>1
<1>3. RotationOf(S, s) = SumTo(f, Len(s))
  BY DEF RotationOf
<1> HIDE DEF f
<1> QED
  BY <1>1, <1>2, <1>3, SumInt

(* What a new event says once it stands for others too. *)
LEMMA CoalescedFacts ==
    ASSUME ItemsInv, NEW e, IsEvent(e), NEW c, c = Coalesced(e, Superseded(e))
    PROVE  /\ IsEvent(c) /\ c.id = e.id /\ c.frame = e.frame
           /\ e.id = "KEYINPUT" => c.data.key = e.data.key
           /\ e.id = "PAINT" => /\ e.data.area \subseteq c.data.area
                                /\ \A i \in Superseded(e) : event[i].data.area \subseteq c.data.area
           /\ e.id = "WHEELMOUSE" =>
                  /\ c.data.horz = e.data.horz /\ c.data.zoom = e.data.zoom
                  /\ c.data.delta = IF Superseded(e) = {} \/ e.data.zoom THEN e.data.delta
                                    ELSE e.data.delta + RotationOf(Superseded(e), event)
<1> DEFINE old == Superseded(e)
<1>0. \A i \in old : i \in Numbers /\ event[i].id = e.id /\ IsEvent(event[i])
  BY SupersededFacts DEF ItemsInv, EventOK
<1>1. CASE old = {}
  BY <1>1 DEF Coalesced
<1>2. CASE old # {} /\ e.id = "KEYINPUT"
  <2> DEFINE d == [e.data EXCEPT !.repeat = e.data.repeat + 1]
  <2>1. e.data \in [key : {e.data.key}, char : BOOLEAN, repeat : Nat]
    BY <1>2 DEF IsEvent
  <2>2. d \in [key : {e.data.key}, char : BOOLEAN, repeat : Nat] /\ d.key = e.data.key
    BY <2>1
  <2>3. c = [e EXCEPT !.data = d]
    BY <1>2 DEF Coalesced
  <2> HIDE DEF d
  <2>4. c = [id |-> e.id, frame |-> e.frame, data |-> d]
    BY <2>3 DEF IsEvent
  <2>5. c.id = e.id /\ c.frame = e.frame /\ c.data = d
    BY <2>4
  <2> QED
    BY <1>2, <2>2, <2>4, <2>5 DEF IsEvent
<1>3. CASE old # {} /\ e.id = "WHEELMOUSE"
  <2> DEFINE turned == e.data.delta + IF e.data.zoom THEN 0 ELSE RotationOf(old, event)
             d == [e.data EXCEPT !.page = FALSE, !.delta = turned]
  <2>1. e.data \in [delta : Int, horz : BOOLEAN, page : BOOLEAN, zoom : BOOLEAN]
    BY <1>3 DEF IsEvent
  <2>2. RotationOf(old, event) \in Int
    <3>1. IsList(event)
      BY DEF ItemsInv, ListsOK
    <3>2. \A i \in 1..Len(event) : i \in old => event[i].data.delta \in Int
      BY <1>0, <1>3 DEF IsEvent
    <3> QED BY <3>1, <3>2, RotationInt
  <2>3. turned \in Int
    BY <2>1, <2>2
  <2>4. c = [e EXCEPT !.data = d]
    BY <1>3 DEF Coalesced
  <2> HIDE DEF turned
  <2>5. /\ d \in [delta : Int, horz : BOOLEAN, page : BOOLEAN, zoom : BOOLEAN]
        /\ d.horz = e.data.horz /\ d.zoom = e.data.zoom /\ d.delta = turned
    BY <2>1, <2>3
  <2> HIDE DEF d
  <2>6. c = [id |-> e.id, frame |-> e.frame, data |-> d]
    BY <2>4 DEF IsEvent
  <2>7. c.id = e.id /\ c.frame = e.frame /\ c.data = d
    BY <2>6
  <2> QED
    BY <1>3, <2>5, <2>6, <2>7 DEF IsEvent, turned
<1>4. CASE old # {} /\ e.id = "PAINT"
  <2> DEFINE cells == e.data.area \cup UNION {event[i].data.area : i \in old}
             d == [area |-> Around(cells)]
  <2>1. e.data.area \subseteq 0..Width /\ \A i \in old : event[i].data.area \subseteq 0..Width
    BY <1>0, <1>4 DEF IsEvent
  <2>2. cells \subseteq 0..Width
    BY <2>1
  <2>3. cells \subseteq Around(cells) /\ Around(cells) \subseteq 0..Width
    BY <2>2, AroundFacts
  <2>4. e.data.area \subseteq cells /\ \A i \in old : event[i].data.area \subseteq cells
    OBVIOUS
  <2>5. c = [e EXCEPT !.data = d]
    BY <1>4 DEF Coalesced
  <2> HIDE DEF cells
  <2>6. d \in [area : SUBSET (0..Width)] /\ d.area = Around(cells)
    BY <2>3
  <2> HIDE DEF d
  <2>7. c = [id |-> e.id, frame |-> e.frame, data |-> d]
    BY <2>5 DEF IsEvent
  <2>8. c.id = e.id /\ c.frame = e.frame /\ c.data = d
    BY <2>7
  <2> QED
    BY <1>4, <2>3, <2>4, <2>6, <2>7, <2>8 DEF IsEvent
<1>5. CASE old # {} /\ e.id \notin {"KEYINPUT", "WHEELMOUSE", "PAINT"}
  BY <1>5 DEF Coalesced
<1> QED
  BY <1>1, <1>2, <1>3, <1>4, <1>5

NewItem == Len(event) + 1

\* The items that are marked when e is posted.
Gone(e) == removed \cup Superseded(e) \cup (IF Repeated(e) THEN {NewItem} ELSE {})

(* What posting does to the lists and to the queue of the event. *)
LEMMA PostFacts ==
    ASSUME ItemsInv, NEW e, IsEvent(e), PostCachedEvent(e)
    PROVE  LET n == NewItem
               k == QueueOf(e.id)
               gone == Gone(e)
           IN
           /\ n \in Nat \ {0} /\ Numbers = 1..n - 1 /\ Numbers' = 1..n /\ k \in Queues
           /\ n <= scenario.maxPosts /\ scenario' = scenario
           /\ IsList(event') /\ IsList(posted') /\ IsList(fate')
           /\ Len(event') = n /\ Len(posted') = n /\ Len(fate') = n
           /\ \A i \in Numbers :
                 /\ event'[i] = event[i] /\ posted'[i] = posted[i]
                 /\ fate'[i] = IF i \in gone /\ fate[i].how = "queued"
                                 THEN [how |-> "superseded", at |-> n] ELSE fate[i]
           /\ event'[n] = Coalesced(e, Superseded(e)) /\ posted'[n] = e
           /\ fate'[n] = [how |-> IF Repeated(e) THEN "superseded" ELSE "queued", at |-> n]
           /\ removed' = gone
           /\ queue' = [queue EXCEPT ![k] = Purged(Append(queue[k], n), gone)]
<1>n. PICK n : n = NewItem
  OBVIOUS
<1>g. PICK gone : gone = Gone(e)
  OBVIOUS
<1>k. PICK k : k = QueueOf(e.id)
  OBVIOUS
<1>1. /\ IsList(event) /\ IsList(posted) /\ IsList(fate)
      /\ Len(posted) = n - 1 /\ Len(fate) = n - 1 /\ Len(event) = n - 1 /\ n \in Nat \ {0}
  BY <1>n DEF ItemsInv, ListsOK, IsList, NewItem
<1>2. Numbers = 1..n - 1
  BY <1>1, ListDomain DEF Numbers
<1>3. k \in Queues
  BY <1>k DEF QueueOf, Queues
<1> DEFINE F == [i \in Numbers |-> IF i \in gone /\ fate[i].how = "queued"
                                     THEN [how |-> "superseded", at |-> n] ELSE fate[i]]
           r == [how |-> IF Repeated(e) THEN "superseded" ELSE "queued", at |-> n]
<1>4. /\ event' = Append(event, Coalesced(e, Superseded(e))) /\ posted' = Append(posted, e)
      /\ fate' = Append(F, r) /\ removed' = gone
      /\ n <= scenario.maxPosts /\ scenario' = scenario
      /\ queue' = [queue EXCEPT ![k] = Purged(Append(queue[k], n), gone)]
  BY <1>n, <1>g, <1>k, Zenon DEF PostCachedEvent, NewItem, Gone
<1>5. IsList(F) /\ Len(F) = n - 1
  <2>1. DOMAIN F = 1..n - 1 /\ n - 1 \in Nat
    BY <1>1, <1>2
  <2> QED
    BY <2>1, FunctionIsList
<1>6. \A i \in Numbers : F[i] = IF i \in gone /\ fate[i].how = "queued"
                                  THEN [how |-> "superseded", at |-> n] ELSE fate[i]
  OBVIOUS
<1> HIDE DEF F
<1>7. /\ IsList(fate') /\ Len(fate') = n /\ fate'[n] = r /\ \A i \in Numbers : fate'[i] = F[i]
  BY <1>1, <1>2, <1>4, <1>5, AppendFacts
<1>8. /\ IsList(event') /\ Len(event') = n /\ event'[n] = Coalesced(e, Superseded(e))
      /\ \A i \in Numbers : event'[i] = event[i]
      /\ DOMAIN event' = 1..n
  BY <1>1, <1>2, <1>4, AppendFacts
<1>9. IsList(posted') /\ Len(posted') = n /\ posted'[n] = e /\ \A i \in Numbers : posted'[i] = posted[i]
  BY <1>1, <1>2, <1>4, AppendFacts
<1>10. Numbers' = 1..n
  BY <1>8 DEF Numbers
<1> QED
  BY <1>n, <1>g, <1>k, <1>1, <1>2, <1>3, <1>4, <1>6, <1>7, <1>8, <1>9, <1>10

(* A pointer, when the items of before that are not in after are deleted. *)
LEMMA KeptFacts ==
    ASSUME NEW p, NEW before, NEW after, p \in Range(before) \cup {0}
    PROVE  /\ Kept(p, before, after) \in Range(after) \cup {0}
           /\ Kept(p, before, after) \in {p, 0}
  BY DEF Kept

LEMMA HeadFacts ==
    ASSUME NEW s, IsList(s), s # <<>>
    PROVE  Head(s) \in Range(s) /\ 1 \in 1..Len(s) /\ Head(s) = s[1]
<1>1. s \in Seq(Range(s))
  BY ListDomain
<1>2. Len(s) \in Nat /\ Len(s) # 0 /\ Head(s) = s[1]
  BY <1>1, EmptySeq
<1>3. 1 \in 1..Len(s)
  BY <1>2
<1> QED
  BY <1>2, <1>3, ListDomain

\* The items S leave the queues ks, all that hold one.
Leaving(S, why, ks) ==
    /\ S \subseteq Numbers /\ why \in {"given", "cleared"} /\ ks \subseteq Queues
    /\ \A k \in Queues \ ks : Waiting(k) \cap S = {}
    /\ Remove(S, why, ks)

(* What removing does to the lists. *)
LEMMA RemoveFacts ==
    ASSUME ItemsInv, NEW S, NEW why, NEW ks, Leaving(S, why, ks)
    PROVE  /\ event' = event /\ posted' = posted /\ scenario' = scenario /\ Numbers' = Numbers
           /\ removed' = removed \cup S
           /\ queue' = [k \in Queues |-> IF k \in ks THEN Purged(queue[k], removed') ELSE queue[k]]
           /\ IsList(fate') /\ Len(fate') = Len(event)
           /\ \A i \in Numbers : /\ fate'[i] = IF i \in S /\ fate[i].how = "queued"
                                                 THEN [how |-> why, at |-> Len(event)] ELSE fate[i]
                                 /\ Stands(i)' <=> Stands(i)
<1>1. /\ event' = event /\ posted' = posted /\ scenario' = scenario
      /\ removed' = removed \cup S
      /\ queue' = [k \in Queues |-> IF k \in ks THEN Purged(queue[k], removed') ELSE queue[k]]
      /\ fate' = [i \in Numbers |-> IF i \in S /\ fate[i].how = "queued"
                                      THEN [how |-> why, at |-> Len(event)] ELSE fate[i]]
  BY DEF Leaving, Remove
<1>2. Numbers' = Numbers
  BY <1>1 DEF Numbers
<1>3. IsList(event) /\ Numbers = 1..Len(event) /\ Len(event) \in Nat
  BY ListDomain DEF ItemsInv, ListsOK, Numbers, IsList
<1>4. DOMAIN fate' = 1..Len(event) /\ fate' = [i \in DOMAIN fate' |-> fate'[i]]
  BY <1>1, <1>3
<1>5. IsList(fate') /\ Len(fate') = Len(event)
  BY <1>3, <1>4, FunctionIsList
<1>6. ASSUME NEW i \in Numbers
      PROVE  /\ fate'[i] = IF i \in S /\ fate[i].how = "queued"
                             THEN [how |-> why, at |-> Len(event)] ELSE fate[i]
             /\ Stands(i)' <=> Stands(i)
  <2>1. fate'[i] = IF i \in S /\ fate[i].how = "queued"
                     THEN [how |-> why, at |-> Len(event)] ELSE fate[i]
    BY <1>1
  <2>2. why # "superseded"
    BY DEF Leaving
  <2> QED BY <2>1, <2>2 DEF Stands
<1> QED
  BY <1>1, <1>2, <1>5, <1>6

(* Every step posts an event, takes items out of the queues, or leaves the
   items alone. *)
LEMMA ItemSteps ==
    ASSUME ItemsInv, [Next]_vars
    PROVE  \/ \E e : IsEvent(e) /\ PostCachedEvent(e)
           \/ \E S, why, ks : Leaving(S, why, ks)
           \/ UNCHANGED <<scenario, items>>
<1>1. CASE Post
  <2>1. scenario \in Scenarios
    BY DEF ItemsInv, ListsOK
  <2>2. PICK e \in scenario.events : PostCachedEvent(e)
    BY <1>1 DEF Post
  <2>3. IsEvent(e)
    BY <2>1, <2>2, ScenarioAssumption
  <2> QED BY <2>2, <2>3
<1>2. ASSUME NEW f \in Frames, RemoveCachedEvents(f) PROVE \E S, why, ks : Leaving(S, why, ks)
  <2> DEFINE S == {i \in Waiting("native") \cup Waiting("nonNative") : event[i].frame = f}
  <2>1. S \subseteq Numbers
    BY DEF ItemsInv, QueueOK, Queues
  <2>2. Remove(S, "cleared", Queues)
    BY <1>2 DEF RemoveCachedEvents
  <2> HIDE DEF S
  <2>3. Leaving(S, "cleared", Queues)
    BY <2>1, <2>2 DEF Leaving
  <2> QED BY <2>3
<1>3. ASSUME NEW k \in Queues, TakeFront(k) PROVE \E S, why, ks : Leaving(S, why, ks)
  <2> DEFINE i == Head(queue[k])
  <2>1. i \in Waiting(k)
    BY <1>3, HeadFacts DEF ItemsInv, QueueOK, Waiting, TakeFront
  <2>2. Remove({i}, "given", {k})
    BY <1>3 DEF TakeFront
  <2> HIDE DEF i
  <2>3. i \in Numbers /\ QueueOf(event[i].id) = k
    BY <2>1 DEF ItemsInv, QueueOK
  <2>4. \A l \in Queues \ {k} : Waiting(l) \cap {i} = {}
    BY <2>3 DEF ItemsInv, QueueOK
  <2>5. Leaving({i}, "given", {k})
    BY <2>2, <2>3, <2>4 DEF Leaving
  <2> QED BY <2>5
<1>4. CASE BeginTermination
  <2> DEFINE e == [id |-> "SHUTDOWN", frame |-> NoFrame, data |-> [none |-> 0]]
  <2>1. PostCachedEvent(e)
    BY <1>4 DEF BeginTermination
  <2>2. IsEvent(e)
    BY DEF IsEvent, IDs
  <2> QED BY <2>1, <2>2
<1>5. CASE GetNative \/ GetNonNative \/ Get \/ Dispatch
  BY <1>3, <1>5 DEF GetNative, GetNonNative, Get, Dispatch, RefuseSHUTDOWN, DispatchSHUTDOWN, Queues
<1>6. CASE Call \/ Reset \/ Check \/ Wake \/ Set
  BY <1>6 DEF Call, Reset, Check, Wake, Set, At
<1>7. CASE Answer \/ EndTermination \/ Loading
  BY <1>7 DEF Answer, Veto, ShutDown, EndTermination, Loading, BeginLoading, EndLoading, EndPrinting
<1>8. CASE Done \/ UNCHANGED vars
  BY <1>8 DEF Done, vars
<1> QED
  BY <1>1, <1>2, <1>4, <1>5, <1>6, <1>7, <1>8 DEF Next, Yield, Termination

-----------------------------------------------------------------------------
(* The items: TypeOK's part of them, and ItemsAreLive                      *)

LEMMA InitItems == Init => ItemsInv
<1> SUFFICES ASSUME Init PROVE ItemsInv
  OBVIOUS
<1>1. /\ event = <<>> /\ posted = <<>> /\ fate = <<>> /\ scenario \in Scenarios
      /\ queue = [k \in Queues |-> <<>>] /\ removed = {}
      /\ mpKeyInputItem = 0 /\ mpMoveResizeItem = 0 /\ mpPaintItem = 0
  BY DEF Init
<1>2. IsList(<<>>) /\ Len(<<>>) = 0 /\ DOMAIN <<>> = {} /\ Range(<<>>) = {}
  <2>1. IsList(<<>>) /\ Len(<<>>) = 0
    BY SeqIsList, EmptySeq
  <2>2. DOMAIN <<>> = {}
    BY <2>1, ListDomain
  <2> QED BY <2>1, <2>2 DEF Range
<1>3. scenario.maxPosts \in Nat /\ Numbers = {}
  BY <1>1, <1>2, ScenarioAssumption DEF Numbers
<1>4. ListsOK /\ PointersOK
  BY <1>1, <1>2, <1>3 DEF ListsOK, PointersOK
<1>5. ASSUME NEW k \in Queues PROVE QueueOK(k)
  <2>1. queue[k] = <<>>
    BY <1>1
  <2>2. Increasing(<<>>)
    BY <1>2 DEF Increasing
  <2> QED BY <1>2, <2>1, <2>2 DEF QueueOK, Waiting
<1> QED
  BY <1>3, <1>4, <1>5 DEF ItemsInv

(* A queue that is purged. *)
LEMMA PurgedOK ==
    ASSUME ItemsInv, NEW k \in Queues, NEW gone
    PROVE  LET p == Purged(queue[k], gone) IN
           /\ IsList(p) /\ Increasing(p)
           /\ Range(p) \subseteq Waiting(k) /\ Waiting(k) \ gone \subseteq Range(p)
           /\ p # <<>> => Head(p) \notin gone
           /\ \A i \in Range(p), j \in Waiting(k) : i < j => j \in Range(p)
<1>1. IsList(queue[k]) /\ Increasing(queue[k]) /\ Waiting(k) \subseteq Numbers
  BY DEF ItemsInv, QueueOK
<1>2. Numbers \subseteq Nat
  BY ListDomain DEF ItemsInv, ListsOK, Numbers, IsList
<1>3. \A i \in 1..Len(queue[k]) : queue[k][i] \in Nat
  BY <1>1, <1>2, ListDomain DEF Waiting
<1> QED
  BY <1>1, <1>3, PurgedQueue DEF Waiting

LEMMA RemoveKeeps ==
    ASSUME ItemsInv, NEW S, NEW why, NEW ks, Leaving(S, why, ks)
    PROVE  ItemsInv'
<1>0. /\ event' = event /\ posted' = posted /\ scenario' = scenario /\ Numbers' = Numbers
      /\ removed' = removed \cup S
      /\ queue' = [k \in Queues |-> IF k \in ks THEN Purged(queue[k], removed') ELSE queue[k]]
      /\ IsList(fate') /\ Len(fate') = Len(event)
      /\ \A i \in Numbers : fate'[i] = IF i \in S /\ fate[i].how = "queued"
                                         THEN [how |-> why, at |-> Len(event)] ELSE fate[i]
  BY RemoveFacts
<1>1. S \subseteq Numbers /\ why \in {"given", "cleared"} /\ \A k \in Queues \ ks : Waiting(k) \cap S = {}
  BY DEF Leaving
<1>2. ListsOK'
  BY <1>0, <1>1 DEF ItemsInv, ListsOK
<1>3. ASSUME NEW k \in Queues
      PROVE  /\ QueueOK(k)'
             /\ Waiting(k)' \subseteq Waiting(k) /\ Waiting(k) \ removed' \subseteq Waiting(k)'
             /\ Waiting(k)' \cap S \subseteq removed'
  <2>0. QueueOK(k)
    BY DEF ItemsInv
  <2>1. CASE k \in ks
    <3> DEFINE p == Purged(queue[k], removed')
    <3>1. queue'[k] = p
      BY <1>0, <2>1
    <3>2. /\ IsList(p) /\ Increasing(p)
          /\ Range(p) \subseteq Waiting(k) /\ Waiting(k) \ removed' \subseteq Range(p)
          /\ p # <<>> => Head(p) \notin removed'
          /\ \A i \in Range(p), j \in Waiting(k) : i < j => j \in Range(p)
      BY PurgedOK
    <3> HIDE DEF p
    <3>3. Waiting(k)' = Range(p)
      BY <3>1 DEF Waiting
    <3>4. QueueOK(k)'
      BY <1>0, <2>0, <3>1, <3>2, <3>3 DEF QueueOK
    <3> QED BY <1>0, <3>2, <3>3, <3>4
  <2>2. CASE k \notin ks
    <3>1. queue'[k] = queue[k] /\ Waiting(k)' = Waiting(k) /\ Waiting(k) \cap S = {}
      BY <1>0, <1>1, <2>2 DEF Waiting
    <3>2. queue[k] # <<>> => Head(queue[k]) \in Waiting(k)
      BY <2>0, HeadFacts DEF QueueOK, Waiting
    <3>3. queue[k] # <<>> => Head(queue[k]) \notin removed'
      BY <1>0, <2>0, <3>1, <3>2 DEF QueueOK
    <3>4. QueueOK(k)'
      BY <1>0, <2>0, <3>1, <3>3 DEF QueueOK
    <3> QED BY <1>0, <3>1, <3>4
  <2> QED BY <2>1, <2>2
<1>4. ASSUME NEW i \in Numbers PROVE EventOK(i)' /\ FateOK(i)'
  <2>0. EventOK(i) /\ FateOK(i)
    BY DEF ItemsInv
  <2>1. EventOK(i)'
    BY <1>0, <2>0 DEF EventOK, IsEvent
  <2>2. Len(event) \in 0..scenario.maxPosts
    BY ScenarioAssumption DEF ItemsInv, ListsOK, IsList
  <2>3. CASE i \in S /\ fate[i].how = "queued"
    <3>1. fate'[i] = [how |-> why, at |-> Len(event)]
      BY <1>0, <2>3
    <3> QED BY <1>0, <1>1, <2>1, <2>2, <2>3, <3>1 DEF FateOK
  <2>4. CASE ~(i \in S /\ fate[i].how = "queued")
    <3>1. fate'[i] = fate[i]
      BY <1>0, <2>4
    <3>2. \A k \in Queues : i \in Waiting(k)' /\ i \notin removed' => fate'[i].how = "queued"
      BY <1>0, <1>3, <2>0, <3>1 DEF FateOK
    <3>3. i \in removed' => fate'[i].how # "queued"
      BY <1>0, <2>0, <2>4, <3>1 DEF FateOK
    <3> QED BY <1>0, <2>0, <2>1, <3>1, <3>2, <3>3 DEF FateOK
  <2> QED BY <2>3, <2>4
<1>5. PointersOK'
  <2>1. /\ mpKeyInputItem' = Kept(mpKeyInputItem, queue["native"], queue'["native"])
        /\ mpMoveResizeItem' = Kept(mpMoveResizeItem, queue["native"], queue'["native"])
        /\ mpPaintItem' = Kept(mpPaintItem, queue["native"], queue'["native"])
    BY DEF Leaving, Remove
  <2>2. {mpKeyInputItem, mpMoveResizeItem, mpPaintItem} \subseteq Range(queue["native"]) \cup {0}
    BY DEF ItemsInv, PointersOK, Waiting
  <2>3. /\ mpKeyInputItem' \in Range(queue'["native"]) \cup {0} /\ mpKeyInputItem' \in {mpKeyInputItem, 0}
        /\ mpMoveResizeItem' \in Range(queue'["native"]) \cup {0}
        /\ mpPaintItem' \in Range(queue'["native"]) \cup {0}
    BY <2>1, <2>2, KeptFacts
  <2> QED BY <1>0, <2>3 DEF ItemsInv, PointersOK, Waiting
<1> QED
  BY <1>0, <1>2, <1>3, <1>4, <1>5 DEF ItemsInv

(* The queue of a new event, before it is purged. *)
LEMMA AppendOK ==
    ASSUME ItemsInv, NEW k \in Queues, NEW gone
    PROVE  LET n == NewItem
               s == Append(queue[k], n)
               p == Purged(s, gone)
           IN
           /\ Range(s) = Waiting(k) \cup {n}
           /\ IsList(p) /\ Increasing(p)
           /\ Range(p) \subseteq Range(s) /\ Range(s) \ gone \subseteq Range(p)
           /\ p # <<>> => Head(p) \notin gone
           /\ \A i \in Range(p), j \in Range(s) : i < j => j \in Range(p)
<1>n. PICK n : n = NewItem
  OBVIOUS
<1>s. PICK s : s = Append(queue[k], n)
  OBVIOUS
<1>1. IsList(queue[k]) /\ Increasing(queue[k]) /\ Waiting(k) \subseteq Numbers
  BY DEF ItemsInv, QueueOK
<1>2. Numbers = 1..n - 1 /\ n \in Nat
  BY <1>n, ListDomain DEF ItemsInv, ListsOK, Numbers, IsList, NewItem
<1>3. \A i \in 1..Len(queue[k]) : queue[k][i] \in 1..n - 1
  BY <1>1, <1>2, ListDomain DEF Waiting
<1>4. IsList(s)
  BY <1>s, <1>1, AppendFacts
<1>5. /\ Increasing(s) /\ Range(s) = Waiting(k) \cup {n}
      /\ \A i \in 1..Len(s) : s[i] \in Nat
  BY <1>s, <1>1, <1>2, <1>3, AppendQueue DEF Waiting
<1> QED
  BY <1>n, <1>s, <1>4, <1>5, PurgedQueue

LEMMA PostQueue ==
    ASSUME ItemsInv, NEW e, IsEvent(e), PostCachedEvent(e), NEW k \in Queues
    PROVE  LET n == NewItem IN
           /\ QueueOK(k)'
           /\ Waiting(k)' \subseteq Waiting(k) \cup {n}
           /\ Waiting(k) \ removed' \subseteq Waiting(k)'
           /\ QueueOf(e.id) = k => Range(Append(queue[k], n)) = Waiting(k) \cup {n}
<1>n. PICK n : n = NewItem
  OBVIOUS
<1>g. PICK gone : gone = Gone(e)
  OBVIOUS
<1>m. PICK mine : mine = QueueOf(e.id)
  OBVIOUS
<1>0. /\ n \in Nat \ {0} /\ Numbers = 1..n - 1 /\ Numbers' = 1..n
      /\ \A i \in Numbers : event'[i] = event[i]
      /\ event'[n] = Coalesced(e, Superseded(e))
      /\ removed' = gone
      /\ queue' = [queue EXCEPT ![mine] = Purged(Append(queue[mine], n), gone)]
  BY <1>n, <1>g, <1>m, PostFacts
<1>1. event'[n].id = e.id
  BY <1>0, CoalescedFacts
<1>2. QueueOK(k) /\ queue = [l \in Queues |-> queue[l]]
  BY DEF ItemsInv, ListsOK
<1>3. \A i \in Superseded(e) : i \in Numbers /\ event[i].id = e.id
  BY SupersededFacts
<1>4. CASE k = QueueOf(e.id)
  <2>s. PICK s : s = Append(queue[k], n)
    OBVIOUS
  <2>p. PICK p : p = Purged(s, gone)
    OBVIOUS
  <2>1. queue'[k] = p
    BY <1>0, <1>2, <1>4, <1>m, <2>s, <2>p
  <2>2. /\ Range(s) = Waiting(k) \cup {n}
        /\ IsList(p) /\ Increasing(p)
        /\ Range(p) \subseteq Range(s) /\ Range(s) \ gone \subseteq Range(p)
        /\ p # <<>> => Head(p) \notin gone
        /\ \A i \in Range(p), j \in Range(s) : i < j => j \in Range(p)
    BY <1>n, <2>s, <2>p, AppendOK
  <2>3. Waiting(k)' = Range(p)
    BY <2>1 DEF Waiting
  <2>4. \A i \in Range(s) : i \in Numbers' /\ QueueOf(event'[i].id) = k
    BY <1>0, <1>1, <1>2, <1>4, <2>2 DEF QueueOK
  <2>5. ASSUME NEW i \in Range(p), NEW j \in Numbers', i < j, QueueOf(event'[j].id) = k
        PROVE  j \in Range(p)
    <3>1. i \in Range(s)
      BY <2>2
    <3>2. CASE j = n
      BY <2>2, <2>5, <3>2
    <3>3. CASE j # n
      <4>1. j \in Numbers /\ i \in Numbers
        BY <1>0, <2>4, <2>5, <3>1, <3>3
      <4>2. i \in Waiting(k) /\ QueueOf(event[j].id) = k
        BY <1>0, <2>2, <2>5, <3>1, <4>1
      <4>3. j \in Waiting(k)
        BY <1>2, <2>5, <4>1, <4>2 DEF QueueOK
      <4> QED BY <2>2, <2>5, <4>3
    <3> QED BY <3>2, <3>3
  <2>6. QueueOK(k)'
    BY <1>0, <2>1, <2>2, <2>3, <2>4, <2>5 DEF QueueOK
  <2> QED BY <1>0, <1>n, <2>s, <2>2, <2>3, <2>6
<1>5. CASE k # QueueOf(e.id)
  <2>1. queue'[k] = queue[k]
    BY <1>0, <1>2, <1>5, <1>m
  <2>2. Waiting(k)' = Waiting(k)
    BY <2>1 DEF Waiting
  <2>3. queue[k] # <<>> => Head(queue[k]) \in Waiting(k)
    BY <1>2, HeadFacts DEF QueueOK, Waiting
  <2>4. \A i \in Waiting(k) : i \in removed' => i \in removed
    <3>1. \A i \in Waiting(k) : i # n /\ i \notin Superseded(e)
      BY <1>0, <1>2, <1>3, <1>5 DEF QueueOK
    <3> QED BY <1>0, <1>g, <1>n, <3>1 DEF Gone
  <2>5. \A i \in Waiting(k), j \in Numbers' : i < j /\ QueueOf(event'[j].id) = k => j \in Waiting(k)
    BY <1>0, <1>1, <1>2, <1>5 DEF QueueOK
  <2>6. \A i \in Waiting(k) : i \in Numbers' /\ QueueOf(event'[i].id) = k
    BY <1>0, <1>2 DEF QueueOK
  <2>7. QueueOK(k)'
    BY <1>2, <2>1, <2>2, <2>3, <2>4, <2>5, <2>6 DEF QueueOK
  <2> QED BY <1>5, <1>n, <2>2, <2>7
<1> QED
  BY <1>4, <1>5, <1>n

(* A new event is dropped or coalesced; the others' fates are settled. *)
LEMMA PostItems ==
    ASSUME ItemsInv, NEW e, IsEvent(e), PostCachedEvent(e), NEW i \in Numbers'
    PROVE  EventOK(i)' /\ FateOK(i)'
<1>n. PICK n : n = NewItem
  OBVIOUS
<1>0. /\ n \in Nat \ {0} /\ Numbers = 1..n - 1 /\ Numbers' = 1..n
      /\ n <= scenario.maxPosts /\ scenario' = scenario
      /\ \A j \in Numbers : /\ event'[j] = event[j] /\ posted'[j] = posted[j]
                            /\ fate'[j] = IF j \in Gone(e) /\ fate[j].how = "queued"
                                            THEN [how |-> "superseded", at |-> n] ELSE fate[j]
      /\ event'[n] = Coalesced(e, Superseded(e)) /\ posted'[n] = e
      /\ fate'[n] = [how |-> IF Repeated(e) THEN "superseded" ELSE "queued", at |-> n]
      /\ removed' = Gone(e)
  BY <1>n, PostFacts
<1>1. scenario.maxPosts \in Nat /\ n \in 0..scenario.maxPosts
  BY <1>0, ScenarioAssumption DEF ItemsInv, ListsOK
<1>2. \A k \in Queues : Waiting(k)' \subseteq Waiting(k) \cup {n}
  BY <1>n, PostQueue
<1>3. CASE i = n
  <2>1. EventOK(i)'
    <3>1. PICK c : c = Coalesced(e, Superseded(e))
      OBVIOUS
    <3>2. /\ IsEvent(c) /\ c.id = e.id /\ c.frame = e.frame
          /\ e.id = "KEYINPUT" => c.data.key = e.data.key
          /\ e.id = "WHEELMOUSE" => c.data.horz = e.data.horz /\ c.data.zoom = e.data.zoom
      BY <3>1, CoalescedFacts
    <3>3. event'[i] = c /\ posted'[i] = e
      BY <1>0, <1>3, <3>1
    <3>4. IsEvent(event'[i]) /\ IsEvent(posted'[i])
      BY <3>2, <3>3
    <3> QED BY <3>2, <3>3, <3>4 DEF EventOK, IsEvent
  <2>2. removed \subseteq Numbers /\ Superseded(e) \subseteq Numbers
    BY SupersededFacts DEF ItemsInv, ListsOK
  <2>3. n \notin Numbers
    BY <1>0
  <2>4. n \in removed' <=> Repeated(e)
    BY <1>0, <1>n, <2>2, <2>3 DEF Gone
  <2>5. FateOK(i)'
    BY <1>0, <1>1, <1>3, <2>4 DEF FateOK
  <2> QED BY <2>1, <2>5
<1>4. CASE i # n
  <2>0. i \in Numbers
    BY <1>0, <1>4
  <2>1. EventOK(i) /\ FateOK(i)
    BY <2>0 DEF ItemsInv
  <2>2. EventOK(i)'
    BY <1>0, <2>0, <2>1 DEF EventOK, IsEvent
  <2>3. i \in removed => i \in Gone(e)
    BY DEF Gone
  <2>4. CASE i \in Gone(e) /\ fate[i].how = "queued"
    <3>1. fate'[i] = [how |-> "superseded", at |-> n]
      BY <1>0, <2>0, <2>4
    <3> QED BY <1>0, <1>1, <2>2, <2>4, <3>1 DEF FateOK
  <2>5. CASE ~(i \in Gone(e) /\ fate[i].how = "queued")
    <3>1. fate'[i] = fate[i]
      BY <1>0, <2>0, <2>5
    <3>2. \A k \in Queues : i \in Waiting(k)' => i \in Waiting(k)
      BY <1>2, <1>4
    <3>3. \A k \in Queues : i \in Waiting(k)' /\ i \notin removed' => fate'[i].how = "queued"
      BY <1>0, <2>1, <2>3, <3>1, <3>2 DEF FateOK
    <3>4. i \in removed' => fate'[i].how # "queued"
      BY <1>0, <2>5, <3>1
    <3> QED BY <1>0, <2>1, <2>2, <3>1, <3>3, <3>4 DEF FateOK
  <2> QED BY <2>4, <2>5
<1> QED
  BY <1>3, <1>4

LEMMA PostPointers ==
    ASSUME ItemsInv, NEW e, IsEvent(e), PostCachedEvent(e)
    PROVE  PointersOK'
<1>n. PICK n : n = NewItem
  OBVIOUS
<1>k. PICK k : k = QueueOf(e.id)
  OBVIOUS
<1>s. PICK s : s = Append(queue[k], n)
  OBVIOUS
<1>0. /\ n \in Nat \ {0} /\ Numbers = 1..n - 1 /\ Numbers' = 1..n /\ k \in Queues
      /\ \A j \in Numbers : posted'[j] = posted[j]
      /\ posted'[n] = e
      /\ queue' = [queue EXCEPT ![k] = Purged(s, Gone(e))]
  BY <1>n, <1>k, <1>s, PostFacts
<1>1. Range(s) = Waiting(k) \cup {n}
  BY <1>n, <1>k, <1>s, <1>0, PostQueue
<1> DEFINE q1 == LastKey(e, n)
           q2 == IF e.id = "MOVERESIZE" THEN n ELSE mpMoveResizeItem
           q3 == IF e.id = "PAINT" THEN n ELSE mpPaintItem
<1>2. /\ mpKeyInputItem' = Kept(q1, s, queue'[k])
      /\ mpMoveResizeItem' = Kept(q2, s, queue'[k])
      /\ mpPaintItem' = Kept(q3, s, queue'[k])
  <2>1. /\ mpKeyInputItem' = Kept(LastKey(e, n), s, queue'[k])
        /\ mpMoveResizeItem' = Kept(IF e.id \in {"MOVERESIZE"} THEN n ELSE mpMoveResizeItem, s, queue'[k])
        /\ mpPaintItem' = Kept(IF e.id \in {"PAINT"} THEN n ELSE mpPaintItem, s, queue'[k])
    BY <1>n, <1>k, <1>s, Zenon DEF PostCachedEvent, NewItem
  <2> QED BY <2>1
<1>3. {mpKeyInputItem, mpMoveResizeItem, mpPaintItem} \subseteq Waiting("native") \cup {0}
  BY DEF ItemsInv, PointersOK
<1>4. /\ q1 \in Waiting("native") \cup {0, n}
      /\ q2 \in Waiting("native") \cup {0, n}
      /\ q3 \in Waiting("native") \cup {0, n}
      /\ k # "native" => {q1, q2, q3} \subseteq Waiting("native") \cup {0}
  BY <1>3, <1>k DEF LastKey, QueueOf, NativeIDs
<1>5. q1 # 0 => \A i \in Numbers' : i > q1 => posted'[i].id # "KEYUP"
  <2>1. CASE e.id = "KEYINPUT"
    <3>1. q1 = n
      BY <2>1 DEF LastKey
    <3> QED BY <1>0, <3>1
  <2>2. CASE e.id = "KEYUP"
    BY <2>2 DEF LastKey
  <2>3. CASE e.id \notin {"KEYINPUT", "KEYUP"}
    <3>1. q1 = mpKeyInputItem
      BY <2>3 DEF LastKey
    <3>2. mpKeyInputItem # 0 => \A i \in Numbers : i > mpKeyInputItem => posted[i].id # "KEYUP"
      BY DEF ItemsInv, PointersOK
    <3>3. \A i \in Numbers' : i \in Numbers \/ i = n
      BY <1>0
    <3> QED BY <1>0, <2>3, <3>1, <3>2, <3>3
  <2> QED BY <2>1, <2>2, <2>3
<1> HIDE DEF q1, q2, q3
<1>6. ASSUME NEW q, q \in Waiting("native") \cup {0, n},
             k # "native" => q \in Waiting("native") \cup {0}
      PROVE  /\ Kept(q, s, queue'[k]) \in Waiting("native")' \cup {0}
             /\ Kept(q, s, queue'[k]) \in {q, 0}
  <2>1. CASE k = "native"
    <3>1. q \in Range(s) \cup {0}
      BY <1>1, <1>6, <2>1
    <3> QED BY <2>1, <3>1, KeptFacts DEF Waiting
  <2>2. CASE k # "native"
    <3>1. queue'["native"] = queue["native"]
      BY <1>0, <2>2 DEF ItemsInv, ListsOK, Queues
    <3> QED BY <1>6, <2>2, <3>1 DEF Kept, Waiting
  <2> QED BY <2>1, <2>2
<1>7. /\ mpKeyInputItem' \in Waiting("native")' \cup {0} /\ mpKeyInputItem' \in {q1, 0}
      /\ mpMoveResizeItem' \in Waiting("native")' \cup {0}
      /\ mpPaintItem' \in Waiting("native")' \cup {0}
  BY <1>2, <1>4, <1>6
<1> QED
  BY <1>5, <1>7 DEF PointersOK

LEMMA PostKeeps ==
    ASSUME ItemsInv, NEW e, IsEvent(e), PostCachedEvent(e)
    PROVE  ItemsInv'
<1>n. PICK n : n = NewItem
  OBVIOUS
<1>0. /\ n \in Nat \ {0} /\ Numbers = 1..n - 1 /\ Numbers' = 1..n
      /\ n <= scenario.maxPosts /\ scenario' = scenario
      /\ IsList(event') /\ IsList(posted') /\ IsList(fate')
      /\ Len(event') = n /\ Len(posted') = n /\ Len(fate') = n
      /\ removed' = Gone(e)
      /\ queue' = [queue EXCEPT ![QueueOf(e.id)] = Purged(Append(queue[QueueOf(e.id)], n), Gone(e))]
  BY <1>n, PostFacts
<1>1. removed \subseteq Numbers /\ Superseded(e) \subseteq Numbers
  BY SupersededFacts DEF ItemsInv, ListsOK
<1>2. removed' \subseteq Numbers'
  <2>1. Numbers \subseteq Numbers' /\ n \in Numbers'
    BY <1>0
  <2>2. Gone(e) \subseteq Numbers \cup {n}
    BY <1>1, <1>n DEF Gone
  <2> QED BY <1>0, <2>1, <2>2
<1>3. queue' = [k \in Queues |-> queue'[k]]
  BY <1>0 DEF ItemsInv, ListsOK
<1>4. ListsOK'
  BY <1>0, <1>2, <1>3 DEF ItemsInv, ListsOK
<1>5. \A k \in Queues : QueueOK(k)'
  BY PostQueue
<1> QED
  BY <1>4, <1>5, PostPointers, PostItems DEF ItemsInv

LEMMA ItemsStep == ItemsInv /\ [Next]_vars => ItemsInv'
<1> SUFFICES ASSUME ItemsInv, [Next]_vars PROVE ItemsInv'
  OBVIOUS
<1>1. ASSUME NEW e, IsEvent(e), PostCachedEvent(e) PROVE ItemsInv'
  BY <1>1, PostKeeps
<1>2. ASSUME NEW S, NEW why, NEW ks, Leaving(S, why, ks) PROVE ItemsInv'
  BY <1>2, RemoveKeeps
<1>3. CASE UNCHANGED <<scenario, items>>
  <2>1. /\ ListsOK' /\ PointersOK'
    BY <1>3 DEF ItemsInv, ListsOK, PointersOK, items, pointers, Waiting, Numbers
  <2>2. Numbers' = Numbers /\ \A k \in Queues : QueueOK(k)'
    BY <1>3 DEF ItemsInv, QueueOK, items, Waiting, Numbers
  <2>3. \A i \in Numbers : EventOK(i)' /\ FateOK(i)'
    BY <1>3 DEF ItemsInv, EventOK, FateOK, items, Waiting, IsEvent
  <2> QED BY <2>1, <2>2, <2>3 DEF ItemsInv
<1> QED
  BY <1>1, <1>2, <1>3, ItemSteps

LEMMA ItemsHold == Spec => []ItemsInv
  BY InitItems, ItemsStep, PTL DEF Spec

(* Taking the front of a queue without a look at its mark hands out no removed
   item, and coalescing through the pointers touches no deleted one, whatever
   is posted, taken and removed. *)
THEOREM ItemsLive == Spec => []ItemsAreLive
<1>1. ItemsInv => ItemsAreLive
  BY DEF ItemsInv, PointersOK, QueueOK, ItemsAreLive
<1> QED
  BY <1>1, ItemsHold, PTL

\* The types of what is not an item.
RestOK ==
    /\ cancelled \subseteq Numbers /\ dropped \subseteq Numbers
    /\ asked \in Numbers \cup {0} /\ terminating \in Seq(Numbers)
    /\ waiter \in {"out", "reset", "check", "wait", "set", "get"} /\ loading \in {"no", "now", "done"}
    /\ maCondition \in BOOLEAN /\ mbShutdownDisabled \in BOOLEAN /\ mbInTermination \in BOOLEAN
    /\ bInQueryExit \in BOOLEAN /\ isShutDown \in BOOLEAN
    /\ removes \in 0..scenario.maxRemoves

LEMMA InitRest == Init => RestOK
<1> SUFFICES ASSUME Init PROVE RestOK
  OBVIOUS
<1>1. scenario \in Scenarios /\ removes = 0 /\ terminating = <<>>
  BY DEF Init
<1>2. removes \in 0..scenario.maxRemoves /\ terminating \in Seq(Numbers)
  BY <1>1, ScenarioAssumption
<1> QED
  BY <1>2 DEF Init, RestOK

LEMMA NumbersGrow == ItemsInv /\ [Next]_vars => Numbers \subseteq Numbers' /\ scenario' = scenario
<1> SUFFICES ASSUME ItemsInv, [Next]_vars PROVE Numbers \subseteq Numbers' /\ scenario' = scenario
  OBVIOUS
<1>1. ASSUME NEW e, IsEvent(e), PostCachedEvent(e) PROVE Numbers \subseteq Numbers' /\ scenario' = scenario
  <2>n. PICK n : n = NewItem
    OBVIOUS
  <2>1. n \in Nat \ {0} /\ Numbers = 1..n - 1 /\ Numbers' = 1..n /\ scenario' = scenario
    BY <1>1, <2>n, PostFacts
  <2> QED BY <2>1
<1>2. ASSUME NEW S, NEW why, NEW ks, Leaving(S, why, ks) PROVE Numbers' = Numbers /\ scenario' = scenario
  BY <1>2, RemoveFacts
<1>3. CASE UNCHANGED <<scenario, items>>
  BY <1>3 DEF items, Numbers
<1> QED
  BY <1>1, <1>2, <1>3, ItemSteps

LEMMA RestStep == ItemsInv /\ RestOK /\ [Next]_vars => RestOK'
<1> SUFFICES ASSUME ItemsInv, RestOK, [Next]_vars PROVE RestOK'
  OBVIOUS
<1>0. Numbers \subseteq Numbers' /\ scenario' = scenario /\ Seq(Numbers) \subseteq Seq(Numbers')
  <2>1. Numbers \subseteq Numbers' /\ scenario' = scenario
    BY NumbersGrow
  <2>2. \A s \in Seq(Numbers) : s \in Seq(Numbers')
    <3> TAKE s \in Seq(Numbers)
    <3>1. IsList(s) /\ \A i \in 1..Len(s) : s[i] \in Numbers'
      BY <2>1, SeqIsList
    <3> QED BY <3>1, ListType
  <2> QED BY <2>1, <2>2
<1>1. ASSUME NEW k \in Queues, TakeFront(k) PROVE Head(queue[k]) \in Numbers
  BY <1>1, HeadFacts DEF ItemsInv, QueueOK, Waiting, TakeFront
<1>2. Waiting("native") \cup Waiting("nonNative") \subseteq Numbers
  BY DEF ItemsInv, QueueOK, Queues
<1>3. CASE Post
  BY <1>0, <1>3 DEF Post, PostCachedEvent, RestOK, shutdown, handler, query
<1>4. ASSUME NEW f \in Frames, RemoveCachedEvents(f) PROVE RestOK'
  <2>1. removes < scenario.maxRemoves /\ removes' = removes + 1
    BY <1>4 DEF RemoveCachedEvents
  <2>2. scenario.maxRemoves \in Nat
    BY ScenarioAssumption DEF ItemsInv, ListsOK
  <2>3. removes + 1 \in 0..scenario.maxRemoves
    BY <2>1, <2>2 DEF RestOK
  <2> QED BY <1>0, <1>4, <2>1, <2>3 DEF RemoveCachedEvents, RestOK, shutdown, handler, query
<1>5. CASE GetNative \/ GetNonNative \/ Call \/ Reset \/ Check \/ Wake \/ Set \/ Get
  <2>1. UNCHANGED <<shutdown, removes>>
    BY <1>5 DEF GetNative, GetNonNative, Call, Reset, Check, Wake, Set, Get, At
  <2>2. maCondition' \in BOOLEAN
    BY <1>5 DEF GetNative, GetNonNative, Call, Reset, Check, Wake, Set, Get, At, RestOK
  <2>3. waiter' \in {"out", "reset", "check", "wait", "set", "get"}
    BY <1>5 DEF GetNative, GetNonNative, Call, Reset, Check, Wake, Set, Get, At, RestOK
  <2> QED BY <1>0, <2>1, <2>2, <2>3 DEF RestOK, shutdown, handler, query
<1>6. CASE RefuseSHUTDOWN
  <2>1. Head(queue["nonNative"]) \in Numbers
    BY <1>1, <1>6 DEF RefuseSHUTDOWN, Queues
  <2> QED BY <1>0, <1>6, <2>1 DEF RefuseSHUTDOWN, SetShutdownDisabled, RestOK, query
<1>7. CASE DispatchSHUTDOWN
  <2>1. Head(queue["nonNative"]) \in Numbers
    BY <1>1, <1>7 DEF DispatchSHUTDOWN, Queues
  <2> QED BY <1>0, <1>7, <2>1 DEF DispatchSHUTDOWN, RestOK, handler
<1>8. CASE Answer
  BY <1>0, <1>8 DEF Answer, Veto, ShutDown, SetShutdownDisabled, RestOK, handler
<1>9. CASE BeginTermination
  <2> DEFINE e == [id |-> "SHUTDOWN", frame |-> NoFrame, data |-> [none |-> 0]]
  <2>1. PostCachedEvent(e) /\ IsEvent(e)
    BY <1>9 DEF BeginTermination, IsEvent, IDs
  <2>n. PICK n : n = NewItem
    OBVIOUS
  <2>2. n \in Nat \ {0} /\ Numbers' = 1..n /\ Len(event') = n
    BY <2>1, <2>n, PostFacts
  <2>3. n \in Numbers'
    BY <2>2
  <2>4. terminating' = <<n>> \o terminating /\ maCondition' = TRUE
    BY <1>9, <2>2 DEF BeginTermination, PostCachedEvent
  <2>5. <<n>> \in Seq(Numbers') /\ terminating \in Seq(Numbers')
    BY <1>0, <2>3 DEF RestOK
  <2>6. terminating' \in Seq(Numbers')
    BY <2>4, <2>5, ConcatProperties
  <2> QED BY <1>0, <1>9, <2>4, <2>6 DEF BeginTermination, RestOK, query
<1>10. CASE EndTermination
  <2>1. Tail(terminating) \in Seq(Numbers)
    BY <1>10, HeadTailProperties DEF EndTermination, RestOK
  <2> QED BY <1>0, <1>10, <2>1 DEF EndTermination, RestOK, query
<1>11. CASE Loading
  BY <1>0, <1>2, <1>11 DEF Loading, BeginLoading, EndLoading, EndPrinting, SetShutdownDisabled, RestOK, query, IsSHUTDOWN
<1>12. CASE Done \/ UNCHANGED vars
  BY <1>0, <1>12 DEF Done, vars, RestOK, shutdown, handler, query
<1> QED
  BY <1>3, <1>4, <1>5, <1>6, <1>7, <1>8, <1>9, <1>10, <1>11, <1>12
  DEF Next, Yield, Dispatch, Termination

(* The variables keep their types, with any bounds. *)
THEOREM TypeCorrect == Spec => []TypeOK
<1>1. ItemsInv /\ RestOK => TypeOK
  <2> SUFFICES ASSUME ItemsInv, RestOK PROVE TypeOK
    OBVIOUS
  <2>1. IsList(event) /\ Numbers = 1..Len(event)
    BY ListDomain DEF ItemsInv, ListsOK, Numbers
  <2>2. event \in Seq([id : IDs, frame : Frames \cup {NoFrame}, data : {event[i].data : i \in Numbers}])
    <3> DEFINE D == {event[i].data : i \in Numbers}
    <3>1. \A i \in 1..Len(event) : event[i] \in [id : IDs, frame : Frames \cup {NoFrame}, data : D]
      <4> TAKE i \in 1..Len(event)
      <4>1. /\ event[i] = [id |-> event[i].id, frame |-> event[i].frame, data |-> event[i].data]
            /\ event[i].id \in IDs /\ event[i].frame \in Frames \cup {NoFrame}
        BY <2>1 DEF ItemsInv, EventOK, IsEvent
      <4>2. event[i].data \in D
        BY <2>1
      <4> HIDE DEF D
      <4> QED BY <4>1, <4>2
    <3> HIDE DEF D
    <3>2. event \in Seq([id : IDs, frame : Frames \cup {NoFrame}, data : D])
      BY <2>1, <3>1, ListType
    <3> QED BY <3>2 DEF D
  <2>3. queue \in [Queues -> Seq(Numbers)]
    <3>1. ASSUME NEW k \in Queues PROVE queue[k] \in Seq(Numbers)
      <4>1. IsList(queue[k]) /\ \A i \in Range(queue[k]) : i \in Numbers
        BY DEF ItemsInv, QueueOK, Waiting
      <4>2. \A i \in 1..Len(queue[k]) : queue[k][i] \in Numbers
        BY <4>1, ListDomain
      <4> QED BY <4>1, <4>2, ListType
    <3>2. queue = [k \in Queues |-> queue[k]]
      BY DEF ItemsInv, ListsOK
    <3> QED BY <3>1, <3>2
  <2>4. {mpKeyInputItem, mpMoveResizeItem, mpPaintItem} \subseteq Numbers \cup {0}
    BY DEF ItemsInv, PointersOK, QueueOK, Queues
  <2>5. \A i \in Numbers : /\ fate[i].how \in {"queued", "given", "cleared", "superseded"}
                           /\ fate[i].at \in 0..scenario.maxPosts
    BY DEF ItemsInv, FateOK
  <2>6. {maCondition, mbShutdownDisabled, mbInTermination, bInQueryExit, isShutDown} \subseteq BOOLEAN
    BY DEF RestOK
  <2> QED
    BY <2>2, <2>3, <2>4, <2>5, <2>6 DEF TypeOK, RestOK, ItemsInv, ListsOK
<1>2. ItemsInv /\ RestOK /\ [Next]_vars => RestOK'
  BY RestStep
<1> QED
  BY <1>1, <1>2, InitRest, ItemsHold, PTL DEF Spec

-----------------------------------------------------------------------------
(* InputKeepsOrder                                                         *)

(* Only the items that a new event takes the place of no longer stand. *)
LEMMA StandsKept ==
    ASSUME ItemsInv, NEW e, IsEvent(e), PostCachedEvent(e), NEW n, n = NewItem
    PROVE  /\ \A i \in Numbers : Stands(i) /\ i \notin Superseded(e) => Stands(i)'
           /\ \A i \in Numbers : ~Stands(i) => ~Stands(i)'
           /\ \A i \in Superseded(e) : Stands(i) /\ ~Stands(i)'
           /\ Stands(n)' <=> ~Repeated(e)
<1>0. /\ Numbers = 1..n - 1 /\ n \in Nat
      /\ \A i \in Numbers : fate'[i] = IF i \in Gone(e) /\ fate[i].how = "queued"
                                         THEN [how |-> "superseded", at |-> n] ELSE fate[i]
      /\ fate'[n] = [how |-> IF Repeated(e) THEN "superseded" ELSE "queued", at |-> n]
  BY PostFacts
<1>1. ASSUME NEW i \in Numbers, Stands(i), i \notin Superseded(e) PROVE Stands(i)'
  <2>1. i \in removed => fate[i].how # "queued"
    BY DEF ItemsInv, FateOK
  <2>2. i # n
    BY <1>0
  <2>3. ~(i \in Gone(e) /\ fate[i].how = "queued")
    BY <1>1, <2>1, <2>2 DEF Gone
  <2> QED BY <1>0, <1>1, <2>3 DEF Stands
<1>2. ASSUME NEW i \in Numbers, ~Stands(i) PROVE ~Stands(i)'
  BY <1>0, <1>2 DEF Stands
<1>3. ASSUME NEW i \in Superseded(e) PROVE Stands(i) /\ ~Stands(i)'
  <2>1. i \in Numbers /\ i \notin removed /\ i \in Waiting(QueueOf(e.id)) /\ QueueOf(e.id) \in Queues
    BY SupersededFacts DEF QueueOf, Queues
  <2>2. fate[i].how = "queued"
    BY <2>1 DEF ItemsInv, FateOK
  <2>3. i \in Gone(e)
    BY DEF Gone
  <2> QED BY <1>0, <2>1, <2>2, <2>3 DEF Stands
<1>4. Stands(n)' <=> ~Repeated(e)
  BY <1>0 DEF Stands
<1> QED
  BY <1>1, <1>2, <1>3, <1>4

(* The press j, or the one that takes its place, stands for the press i. *)
LEMMA PressKept ==
    ASSUME ItemsInv, NEW e, IsEvent(e), PostCachedEvent(e), NEW i \in Numbers, NEW j \in Numbers,
           Same(i, j, "KEYINPUT"), Stands(j), posted[j].data.key = posted[i].data.key,
           NEW n, n = NewItem
    PROVE  \/ /\ Same(i, j, "KEYINPUT")' /\ Stands(j)'
              /\ posted'[j].data.key = posted'[i].data.key
           \/ /\ e.id = "KEYINPUT" /\ j = mpKeyInputItem
              /\ Same(i, n, "KEYINPUT")' /\ Stands(n)'
              /\ posted'[n].data.key = posted'[i].data.key
<1>0. /\ \A k \in Numbers : posted'[k] = posted[k]
      /\ posted'[n] = e
  BY PostFacts
<1>1. CASE j \notin Superseded(e)
  BY <1>0, <1>1, StandsKept DEF Same
<1>2. CASE j \in Superseded(e)
  <2>1. event[j].id = e.id /\ event[j].frame = e.frame /\ EventOK(j)
    BY <1>2, SupersededFacts DEF ItemsInv
  <2>2. e.id = "KEYINPUT" /\ e.frame = posted[j].frame
    BY <2>1 DEF Same, EventOK
  <2>3. j = mpKeyInputItem /\ event[j].data.key = e.data.key
    BY <1>2, <2>2, SupersededFacts
  <2>4. e.data.key = posted[j].data.key
    BY <2>1, <2>2, <2>3 DEF EventOK
  <2>5. Stands(n)'
    BY <2>2, StandsKept DEF Repeated
  <2> QED BY <1>0, <2>2, <2>3, <2>4, <2>5 DEF Same
<1> QED
  BY <1>1, <1>2

LEMMA MoveKept ==
    ASSUME ItemsInv, NEW e, IsEvent(e), PostCachedEvent(e), NEW i \in Numbers, NEW j \in Numbers,
           Same(i, j, "MOUSEMOVE"), Stands(j), NEW n, n = NewItem
    PROVE  \/ Same(i, j, "MOUSEMOVE")' /\ Stands(j)'
           \/ /\ e.id = "MOUSEMOVE" /\ j \in Back("native")
              /\ Same(i, n, "MOUSEMOVE")' /\ Stands(n)'
<1>0. /\ \A k \in Numbers : posted'[k] = posted[k]
      /\ posted'[n] = e
  BY PostFacts
<1>1. CASE j \notin Superseded(e)
  BY <1>0, <1>1, StandsKept DEF Same
<1>2. CASE j \in Superseded(e)
  <2>1. event[j].id = e.id /\ event[j].frame = e.frame /\ EventOK(j)
    BY <1>2, SupersededFacts DEF ItemsInv
  <2>2. e.id = "MOUSEMOVE" /\ e.frame = posted[j].frame
    BY <2>1 DEF Same, EventOK
  <2>3. j \in Back("native")
    BY <1>2, <2>2, SupersededFacts
  <2>4. Stands(n)'
    BY <2>2, StandsKept DEF Repeated
  <2> QED BY <1>0, <2>2, <2>3, <2>4 DEF Same
<1> QED
  BY <1>1, <1>2

(* No native event was posted after the one at the back of the queue. *)
LEMMA BackIsLast ==
    ASSUME ItemsInv, NEW j \in Back("native"), NEW m \in Numbers, QueueOf(event[m].id) = "native"
    PROVE  m <= j
<1>1. QueueOK("native") /\ Numbers \subseteq Nat
  BY ListDomain DEF ItemsInv, Queues, ListsOK, Numbers, IsList
<1>2. PICK l : l = Len(queue["native"])
  OBVIOUS
<1>3. queue["native"] # <<>> /\ j = queue["native"][l]
  BY <1>2 DEF Back
<1>4. l \in 1..l /\ l \in Nat /\ 1 \in 1..l /\ IsList(queue["native"])
  BY <1>1, <1>2, <1>3, HeadFacts DEF QueueOK, IsList
<1>5. j \in Waiting("native") /\ j \in Numbers
  BY <1>1, <1>2, <1>3, <1>4, ListDomain DEF QueueOK, Waiting
<1> SUFFICES ASSUME ~(m <= j) PROVE FALSE
  OBVIOUS
<1>6. m \in Waiting("native")
  <2>1. j < m
    BY <1>1, <1>5
  <2> QED BY <1>1, <1>5, <2>1 DEF QueueOK
<1>7. PICK a \in 1..l : m = queue["native"][a]
  BY <1>2, <1>4, <1>6, ListDomain DEF Waiting
<1>8. a = l
  <2> SUFFICES ASSUME a < l PROVE FALSE
    BY <1>4
  <2>1. queue["native"][a] < queue["native"][l]
    BY <1>1, <1>2, <1>4 DEF QueueOK, Increasing
  <2> QED BY <1>1, <1>3, <1>5, <1>7, <2>1
<1> QED
  BY <1>1, <1>3, <1>5, <1>7, <1>8

LEMMA OrderPost ==
    ASSUME ItemsInv, OrderInv, NEW e, IsEvent(e), PostCachedEvent(e)
    PROVE  OrderInv'
<1>n. PICK n : n = NewItem
  OBVIOUS
<1>0. /\ n \in Nat \ {0} /\ Numbers = 1..n - 1 /\ Len(event') = n /\ Len(event) = n - 1
      /\ \A k \in Numbers : posted'[k] = posted[k]
      /\ posted'[n] = e
  <2>1. Len(event) \in Nat /\ n = Len(event) + 1
    BY <1>n DEF ItemsInv, ListsOK, IsList, NewItem
  <2>2. n \in Nat \ {0} /\ Len(event) = n - 1
    BY <2>1
  <2> QED BY <1>n, <2>2, PostFacts
<1>1. ASSUME NEW m \in 1..n + 1, NEW i \in 1..m - 1,
             m > n \/ posted'[m].id = "KEYUP", posted'[i].id = "KEYINPUT"
      PROVE  PressStands(i, m)'
  <2>1. CASE i = n
    <3>1. e.id = "KEYINPUT" /\ Stands(n)'
      BY <1>0, <1>1, <1>n, <2>1, StandsKept DEF Repeated
    <3>2. n \in i..m - 1
      BY <1>0, <2>1
    <3> QED BY <1>0, <2>1, <3>1, <3>2 DEF PressStands, Same
  <2>2. CASE i # n
    <3>0. i \in Numbers /\ posted[i].id = "KEYINPUT"
      BY <1>0, <1>1, <2>2
    <3>1. CASE m > n
      <4>1. PressStands(i, n)
        <5>1. n \in 1..Len(event) + 1 /\ n > Len(event) /\ i \in 1..n - 1
          BY <1>0, <3>0
        <5> QED BY <3>0, <5>1 DEF OrderInv
      <4>2. PICK j \in i..n - 1 : Same(i, j, "KEYINPUT") /\ Stands(j) /\ posted[j].data.key = posted[i].data.key
        BY <4>1 DEF PressStands
      <4>3. j \in Numbers /\ j \in i..m - 1 /\ n \in i..m - 1
        BY <1>0, <3>0, <3>1
      <4>4. \/ Same(i, j, "KEYINPUT")' /\ Stands(j)' /\ posted'[j].data.key = posted'[i].data.key
            \/ Same(i, n, "KEYINPUT")' /\ Stands(n)' /\ posted'[n].data.key = posted'[i].data.key
        BY <1>n, <3>0, <4>2, <4>3, PressKept
      <4> QED BY <4>3, <4>4 DEF PressStands
    <3>2. CASE m = n
      <4>1. PressStands(i, n) /\ e.id = "KEYUP"
        <5>1. n \in 1..Len(event) + 1 /\ n > Len(event) /\ i \in 1..n - 1
          BY <1>0, <3>0
        <5>2. e.id = "KEYUP"
          BY <1>0, <1>1, <3>2
        <5> QED BY <3>0, <5>1, <5>2 DEF OrderInv
      <4>2. PICK j \in i..n - 1 : Same(i, j, "KEYINPUT") /\ Stands(j) /\ posted[j].data.key = posted[i].data.key
        BY <4>1 DEF PressStands
      <4>3. j \in Numbers /\ j \in i..m - 1
        BY <1>0, <3>0, <3>2
      <4>4. Same(i, j, "KEYINPUT")' /\ Stands(j)' /\ posted'[j].data.key = posted'[i].data.key
        BY <3>0, <4>1, <4>2, <4>3, PressKept
      <4> QED BY <4>3, <4>4 DEF PressStands
    <3>3. CASE m < n
      <4>0. m \in Numbers /\ i \in 1..m - 1 /\ posted[m].id = "KEYUP"
        BY <1>0, <1>1, <3>3
      <4>1. PressStands(i, m)
        <5>1. m \in 1..Len(event) + 1
          BY <1>0, <4>0
        <5> QED BY <3>0, <4>0, <5>1 DEF OrderInv
      <4>2. PICK j \in i..m - 1 : Same(i, j, "KEYINPUT") /\ Stands(j) /\ posted[j].data.key = posted[i].data.key
        BY <4>1 DEF PressStands
      <4>3. j \in Numbers /\ j # 0 /\ m > j
        BY <1>0, <3>0, <4>0
      <4>4. j # mpKeyInputItem
        BY <4>0, <4>3 DEF ItemsInv, PointersOK
      <4>5. Same(i, j, "KEYINPUT")' /\ Stands(j)' /\ posted'[j].data.key = posted'[i].data.key
        BY <3>0, <4>2, <4>3, <4>4, PressKept
      <4> QED BY <4>5 DEF PressStands
    <3> QED BY <1>0, <3>1, <3>2, <3>3
  <2> QED BY <2>1, <2>2
<1>2. ASSUME NEW m \in 1..n + 1, NEW i \in 1..m - 1,
             m > n \/ posted'[m].id = "MOUSEBUTTONDOWN", posted'[i].id = "MOUSEMOVE"
      PROVE  MoveStands(i, m)'
  <2>1. CASE i = n
    <3>1. e.id = "MOUSEMOVE" /\ Stands(n)'
      BY <1>0, <1>2, <1>n, <2>1, StandsKept DEF Repeated
    <3>2. n \in i..m - 1
      BY <1>0, <2>1
    <3> QED BY <1>0, <2>1, <3>1, <3>2 DEF MoveStands, Same
  <2>2. CASE i # n
    <3>0. i \in Numbers /\ posted[i].id = "MOUSEMOVE"
      BY <1>0, <1>2, <2>2
    <3>1. CASE m > n
      <4>1. MoveStands(i, n)
        <5>1. n \in 1..Len(event) + 1 /\ n > Len(event) /\ i \in 1..n - 1
          BY <1>0, <3>0
        <5> QED BY <3>0, <5>1 DEF OrderInv
      <4>2. PICK j \in i..n - 1 : Same(i, j, "MOUSEMOVE") /\ Stands(j)
        BY <4>1 DEF MoveStands
      <4>3. j \in Numbers /\ j \in i..m - 1 /\ n \in i..m - 1
        BY <1>0, <3>0, <3>1
      <4>4. \/ Same(i, j, "MOUSEMOVE")' /\ Stands(j)'
            \/ Same(i, n, "MOUSEMOVE")' /\ Stands(n)'
        BY <1>n, <3>0, <4>2, <4>3, MoveKept
      <4> QED BY <4>3, <4>4 DEF MoveStands
    <3>2. CASE m = n
      <4>1. MoveStands(i, n) /\ e.id = "MOUSEBUTTONDOWN"
        <5>1. n \in 1..Len(event) + 1 /\ n > Len(event) /\ i \in 1..n - 1
          BY <1>0, <3>0
        <5>2. e.id = "MOUSEBUTTONDOWN"
          BY <1>0, <1>2, <3>2
        <5> QED BY <3>0, <5>1, <5>2 DEF OrderInv
      <4>2. PICK j \in i..n - 1 : Same(i, j, "MOUSEMOVE") /\ Stands(j)
        BY <4>1 DEF MoveStands
      <4>3. j \in Numbers /\ j \in i..m - 1
        BY <1>0, <3>0, <3>2
      <4>4. Same(i, j, "MOUSEMOVE")' /\ Stands(j)'
        BY <3>0, <4>1, <4>2, <4>3, MoveKept
      <4> QED BY <4>3, <4>4 DEF MoveStands
    <3>3. CASE m < n
      <4>0. m \in Numbers /\ i \in 1..m - 1 /\ posted[m].id = "MOUSEBUTTONDOWN"
        BY <1>0, <1>2, <3>3
      <4>1. MoveStands(i, m)
        <5>1. m \in 1..Len(event) + 1
          BY <1>0, <4>0
        <5> QED BY <3>0, <4>0, <5>1 DEF OrderInv
      <4>2. PICK j \in i..m - 1 : Same(i, j, "MOUSEMOVE") /\ Stands(j)
        BY <4>1 DEF MoveStands
      <4>3. j \in Numbers /\ ~(m <= j)
        BY <1>0, <3>0, <4>0
      <4>4. j \notin Back("native")
        <5>1. QueueOf(event[m].id) = "native"
          BY <4>0 DEF ItemsInv, EventOK, QueueOf, NativeIDs
        <5> QED BY <4>0, <4>3, <5>1, BackIsLast
      <4>5. Same(i, j, "MOUSEMOVE")' /\ Stands(j)'
        BY <3>0, <4>2, <4>3, <4>4, MoveKept
      <4> QED BY <4>5 DEF MoveStands
    <3> QED BY <1>0, <3>1, <3>2, <3>3
  <2> QED BY <2>1, <2>2
<1> QED
  BY <1>0, <1>1, <1>2 DEF OrderInv

LEMMA OrderStep == ItemsInv /\ OrderInv /\ [Next]_vars => OrderInv'
<1> SUFFICES ASSUME ItemsInv, OrderInv, [Next]_vars PROVE OrderInv'
  OBVIOUS
<1>1. ASSUME NEW e, IsEvent(e), PostCachedEvent(e) PROVE OrderInv'
  BY <1>1, OrderPost
<1>2. ASSUME event' = event, posted' = posted, \A i \in Numbers : Stands(i)' <=> Stands(i)
      PROVE  OrderInv'
  <2>0. Len(event) \in Nat /\ Numbers = 1..Len(event)
    BY ListDomain DEF ItemsInv, ListsOK, IsList, Numbers
  <2>1. ASSUME NEW n \in 1..Len(event) + 1, NEW i \in 1..n - 1
        PROVE  /\ PressStands(i, n) => PressStands(i, n)'
               /\ MoveStands(i, n) => MoveStands(i, n)'
    <3>1. \A j \in i..n - 1 : j \in Numbers
      BY <2>0
    <3> QED BY <1>2, <3>1 DEF PressStands, MoveStands, Same
  <2> QED BY <1>2, <2>1 DEF OrderInv
<1>3. ASSUME NEW S, NEW why, NEW ks, Leaving(S, why, ks) PROVE OrderInv'
  BY <1>2, <1>3, RemoveFacts
<1>4. CASE UNCHANGED <<scenario, items>>
  BY <1>2, <1>4 DEF items, Stands
<1> QED
  BY <1>1, <1>3, <1>4, ItemSteps

LEMMA OrderHolds == Spec => []OrderInv
<1>1. Init => OrderInv
  <2> SUFFICES ASSUME Init PROVE OrderInv
    OBVIOUS
  <2>1. Len(event) = 0
    BY EmptySeq DEF Init
  <2> QED BY <2>1 DEF OrderInv
<1> QED
  BY <1>1, ItemsHold, OrderStep, PTL DEF Spec

(* Coalescing never moves a press past a KEYUP, nor a MOUSEMOVE past a
   MOUSEBUTTONDOWN, whatever else is posted between them. *)
THEOREM OrderKept == Spec => []InputKeepsOrder
<1>1. ItemsInv /\ OrderInv => InputKeepsOrder
  <2> SUFFICES ASSUME ItemsInv, OrderInv PROVE InputKeepsOrder
    OBVIOUS
  <2>1. Len(event) \in Nat /\ Numbers = 1..Len(event)
    BY ListDomain DEF ItemsInv, ListsOK, IsList, Numbers
  <2>2. \A later \in Numbers : later \in 1..Len(event) + 1
    BY <2>1
  <2> QED BY <2>2 DEF InputKeepsOrder, OrderInv, PressStands, MoveStands
<1> QED
  BY <1>1, ItemsHold, OrderHolds, PTL

-----------------------------------------------------------------------------
(* NothingIsLost: areas and wakeups                                        *)

LEMMA PaintStep == ItemsInv /\ PaintIsCovered /\ [Next]_vars => PaintIsCovered'
<1> SUFFICES ASSUME ItemsInv, PaintIsCovered, [Next]_vars PROVE PaintIsCovered'
  OBVIOUS
<1>0. Len(event) \in Nat /\ Numbers = 1..Len(event)
  BY ListDomain DEF ItemsInv, ListsOK, IsList, Numbers
<1>1. ASSUME NEW e, IsEvent(e), PostCachedEvent(e) PROVE PaintIsCovered'
  <2>n. PICK n : n = NewItem
    OBVIOUS
  <2>c. PICK c : c = Coalesced(e, Superseded(e))
    OBVIOUS
  <2>0. /\ n \in Nat \ {0} /\ Numbers = 1..n - 1 /\ Numbers' = 1..n /\ Len(event') = n
        /\ \A k \in Numbers : posted'[k] = posted[k] /\ event'[k] = event[k]
        /\ posted'[n] = e /\ event'[n] = c
    BY <1>1, <2>n, <2>c, PostFacts
  <2>1. ASSUME NEW i \in Numbers', posted'[i].id = "PAINT"
        PROVE  \E j \in i..Len(event') : /\ Same(i, j, "PAINT")' /\ Stands(j)'
                                         /\ posted'[i].data.area \subseteq event'[j].data.area
    <3>1. CASE i = n
      <4>1. e.id = "PAINT" /\ Stands(n)'
        BY <1>1, <2>0, <2>1, <2>n, <3>1, StandsKept DEF Repeated
      <4>2. e.data.area \subseteq c.data.area
        BY <1>1, <2>c, <4>1, CoalescedFacts
      <4>3. n \in i..Len(event')
        BY <2>0, <3>1
      <4> QED BY <2>0, <3>1, <4>1, <4>2, <4>3 DEF Same
    <3>2. CASE i # n
      <4>0. i \in Numbers /\ posted[i].id = "PAINT" /\ posted'[i] = posted[i]
        BY <2>0, <2>1, <3>2
      <4>1. PICK j \in i..Len(event) : /\ Same(i, j, "PAINT") /\ Stands(j)
                                       /\ posted[i].data.area \subseteq event[j].data.area
        BY <4>0 DEF PaintIsCovered
      <4>2. j \in Numbers /\ j \in i..n /\ n \in i..n
        BY <1>0, <2>0, <4>0
      <4>3. CASE j \notin Superseded(e)
        BY <1>1, <2>0, <2>n, <4>0, <4>1, <4>2, <4>3, StandsKept DEF Same
      <4>4. CASE j \in Superseded(e)
        <5>1. event[j].id = e.id /\ event[j].frame = e.frame /\ EventOK(j)
          BY <1>1, <4>4, SupersededFacts DEF ItemsInv
        <5>2. e.id = "PAINT" /\ e.frame = posted[j].frame
          BY <4>1, <5>1 DEF Same, EventOK
        <5>3. event[j].data.area \subseteq c.data.area
          BY <1>1, <2>c, <4>4, <5>2, CoalescedFacts
        <5>4. Stands(n)'
          BY <1>1, <2>n, <5>2, StandsKept DEF Repeated
        <5> QED BY <2>0, <4>0, <4>1, <4>2, <5>2, <5>3, <5>4 DEF Same
      <4> QED BY <4>3, <4>4
    <3> QED BY <3>1, <3>2
  <2> QED BY <2>1 DEF PaintIsCovered
<1>2. ASSUME event' = event, posted' = posted, \A i \in Numbers : Stands(i)' <=> Stands(i)
      PROVE  PaintIsCovered'
  <2>1. \A i \in Numbers : \A j \in i..Len(event) : j \in Numbers
    BY <1>0
  <2> QED BY <1>2, <2>1 DEF PaintIsCovered, Same, Numbers
<1>3. ASSUME NEW S, NEW why, NEW ks, Leaving(S, why, ks) PROVE PaintIsCovered'
  BY <1>2, <1>3, RemoveFacts
<1>4. CASE UNCHANGED <<scenario, items>>
  BY <1>2, <1>4 DEF items, Stands
<1> QED
  BY <1>1, <1>3, <1>4, ItemSteps

LEMMA WakeupStep == ItemsInv /\ WakeupsAreNotLost /\ [Next]_vars => WakeupsAreNotLost'
<1> SUFFICES ASSUME ItemsInv, WakeupsAreNotLost, [Next]_vars PROVE WakeupsAreNotLost'
  OBVIOUS
<1>0. Len(event) \in Nat /\ Numbers = 1..Len(event)
  BY ListDomain DEF ItemsInv, ListsOK, IsList, Numbers
<1>1. ASSUME NEW e, IsEvent(e), PostCachedEvent(e) PROVE WakeupsAreNotLost'
  <2>n. PICK n : n = NewItem
    OBVIOUS
  <2>0. /\ n \in Nat \ {0} /\ Numbers = 1..n - 1 /\ Numbers' = 1..n
        /\ \A k \in Numbers : /\ posted'[k] = posted[k]
                              /\ fate'[k] = IF k \in Gone(e) /\ fate[k].how = "queued"
                                              THEN [how |-> "superseded", at |-> n] ELSE fate[k]
        /\ posted'[n] = e
    BY <1>1, <2>n, PostFacts
  <2>1. \A j \in Superseded(e) : event[j].id \notin {"CLOSE", "WAKEUP"} /\ e.id \notin {"CLOSE", "WAKEUP"}
    BY <1>1, SupersededFacts
  <2>2. ASSUME NEW i \in Numbers', posted'[i].id \in {"CLOSE", "WAKEUP"}, ~Stands(i)'
        PROVE  \E j \in 1..i - 1 : /\ Same(i, j, posted[i].id)' /\ Stands(j)'
                                   /\ fate'[j].how = "queued" \/ fate'[j].at >= i
    <3>1. CASE i = n
      <4>1. Repeated(e) /\ e.id \in {"CLOSE", "WAKEUP"}
        BY <1>1, <2>0, <2>2, <2>n, <3>1, StandsKept
      <4>2. PICK j : j \in Like(Waiting(QueueOf(e.id)), e)
        BY <4>1 DEF Repeated
      <4>3. j \in Waiting(QueueOf(e.id)) /\ j \notin removed /\ event[j].id = e.id /\ event[j].frame = e.frame
        BY <4>2 DEF Like
      <4>4. j \in Numbers /\ QueueOf(e.id) \in Queues
        BY <4>3 DEF ItemsInv, QueueOK, QueueOf, Queues
      <4>5. fate[j].how = "queued" /\ posted[j].id = e.id /\ posted[j].frame = e.frame
        BY <4>3, <4>4 DEF ItemsInv, FateOK, EventOK
      <4>6. j # n /\ j \in 1..i - 1
        BY <2>0, <3>1, <4>4
      <4>7. j \notin Gone(e)
        BY <2>1, <2>n, <4>1, <4>3, <4>6 DEF Gone
      <4>8. fate'[j] = fate[j]
        BY <2>0, <4>4, <4>7
      <4> QED BY <2>0, <3>1, <4>4, <4>5, <4>6, <4>8 DEF Same, Stands
    <3>2. CASE i # n
      <4>0. i \in Numbers /\ posted[i].id \in {"CLOSE", "WAKEUP"} /\ posted'[i] = posted[i]
        BY <2>0, <2>2, <3>2
      <4>1. \A j \in Numbers : posted[j].id = posted[i].id => j \notin Superseded(e)
        BY <2>1, <4>0 DEF ItemsInv, EventOK
      <4>2. ~Stands(i)
        BY <1>1, <2>2, <2>n, <4>0, <4>1, StandsKept
      <4>3. PICK j \in 1..i - 1 : /\ Same(i, j, posted[i].id) /\ Stands(j)
                                  /\ fate[j].how = "queued" \/ fate[j].at >= i
        BY <4>0, <4>2 DEF WakeupsAreNotLost
      <4>4. j \in Numbers
        BY <2>0, <4>0
      <4>5. Stands(j)'
        BY <1>1, <2>n, <4>1, <4>3, <4>4, StandsKept DEF Same
      <4>6. fate'[j] = fate[j]
        BY <2>0, <4>4, <4>5 DEF Stands
      <4> QED BY <2>0, <4>0, <4>3, <4>4, <4>5, <4>6 DEF Same
    <3> QED BY <3>1, <3>2
  <2> QED BY <2>2 DEF WakeupsAreNotLost
<1>2. ASSUME event' = event, posted' = posted,
             \A i \in Numbers : /\ Stands(i)' <=> Stands(i)
                                /\ fate'[i] = fate[i] \/ fate'[i].at = Len(event)
      PROVE  WakeupsAreNotLost'
  <2>1. \A i \in Numbers : i <= Len(event) /\ \A j \in 1..i - 1 : j \in Numbers
    BY <1>0
  <2>2. ASSUME NEW i \in Numbers, posted[i].id \in {"CLOSE", "WAKEUP"}, ~Stands(i)
        PROVE  \E j \in 1..i - 1 : /\ Same(i, j, posted[i].id)' /\ Stands(j)'
                                   /\ fate'[j].how = "queued" \/ fate'[j].at >= i
    <3>1. PICK j \in 1..i - 1 : /\ Same(i, j, posted[i].id) /\ Stands(j)
                                /\ fate[j].how = "queued" \/ fate[j].at >= i
      BY <2>2 DEF WakeupsAreNotLost
    <3>2. j \in Numbers /\ i <= Len(event) /\ i \in Int
      BY <1>0, <2>1
    <3>3. fate'[j].how = "queued" \/ fate'[j].at >= i
      BY <1>0, <1>2, <3>1, <3>2
    <3> QED BY <1>2, <3>1, <3>2, <3>3 DEF Same
  <2> QED BY <1>2, <2>2 DEF WakeupsAreNotLost, Numbers
<1>3. ASSUME NEW S, NEW why, NEW ks, Leaving(S, why, ks) PROVE WakeupsAreNotLost'
  <2>1. /\ event' = event /\ posted' = posted
        /\ \A i \in Numbers : /\ fate'[i] = IF i \in S /\ fate[i].how = "queued"
                                              THEN [how |-> why, at |-> Len(event)] ELSE fate[i]
                              /\ Stands(i)' <=> Stands(i)
    BY <1>3, RemoveFacts
  <2>2. \A i \in Numbers : fate'[i] = fate[i] \/ fate'[i].at = Len(event)
    BY <2>1
  <2> QED BY <1>2, <2>1, <2>2
<1>4. CASE UNCHANGED <<scenario, items>>
  BY <1>2, <1>4 DEF items, Stands
<1> QED
  BY <1>1, <1>3, <1>4, ItemSteps

-----------------------------------------------------------------------------
(* NothingIsLost: rotation                                                 *)

LEMMA RotationEmpty ==
    ASSUME NEW s, IsList(s), NEW S, \A i \in 1..Len(s) : i \notin S
    PROVE  RotationOf(S, s) = 0
<1> DEFINE f == [i \in DOMAIN s |-> IF i \in S THEN s[i].data.delta ELSE 0]
<1>1. DOMAIN s = 1..Len(s) /\ Len(s) \in Nat
  BY DEF IsList
<1>2. \A i \in 1..Len(s) : f[i] = 0
  BY <1>1
<1>3. RotationOf(S, s) = SumTo(f, Len(s))
  BY DEF RotationOf
<1> HIDE DEF f
<1>4. PICK n : n = Len(s)
  OBVIOUS
<1>5. n \in Nat /\ \A i \in 1..n : f[i] = 0
  BY <1>1, <1>2, <1>4
<1>7. SumTo(f, n) = 0
  BY <1>5, SumZero
<1> QED
  BY <1>3, <1>4, <1>7

(* One event more. *)
LEMMA RotationAppend ==
    ASSUME NEW s, IsList(s), NEW t, IsList(t), NEW n, n = Len(t), Len(s) = n - 1, NEW S, NEW T,
           \A i \in 1..n - 1 : /\ i \in S <=> i \in T
                               /\ i \in S => t[i].data.delta = s[i].data.delta
    PROVE  RotationOf(T, t) = RotationOf(S, s) + IF n \in T THEN t[n].data.delta ELSE 0
<1> DEFINE f == [i \in DOMAIN s |-> IF i \in S THEN s[i].data.delta ELSE 0]
           g == [i \in DOMAIN t |-> IF i \in T THEN t[i].data.delta ELSE 0]
<1>1. DOMAIN s = 1..n - 1 /\ DOMAIN t = 1..n /\ n \in Nat /\ n - 1 \in Nat
  BY DEF IsList
<1>2. n > 0 /\ n \in 1..n
  BY <1>1
<1>3. \A i \in 1..n - 1 : f[i] = g[i]
  <2> TAKE i \in 1..n - 1
  <2>1. i \in DOMAIN s /\ i \in DOMAIN t
    BY <1>1
  <2> QED BY <2>1
<1>4. g[n] = IF n \in T THEN t[n].data.delta ELSE 0
  BY <1>1, <1>2
<1>5. RotationOf(S, s) = SumTo(f, n - 1) /\ RotationOf(T, t) = SumTo(g, n)
  BY DEF RotationOf
<1> HIDE DEF f, g
<1>6. SumTo(f, n - 1) = SumTo(g, n - 1)
  BY <1>1, <1>3, SumSame
<1>7. SumTo(g, n) = SumTo(g, n - 1) + g[n]
  BY <1>1, <1>2, SumStep
<1> QED
  BY <1>4, <1>5, <1>6, <1>7

(* The events of two sets. *)
LEMMA RotationSplit ==
    ASSUME NEW s, IsList(s), NEW S, NEW A, NEW B,
           \A i \in 1..Len(s) : /\ i \in S <=> i \in A \/ i \in B
                                /\ ~(i \in A /\ i \in B)
                                /\ i \in S => s[i].data.delta \in Int
    PROVE  RotationOf(S, s) = RotationOf(A, s) + RotationOf(B, s)
<1> DEFINE h == [i \in DOMAIN s |-> IF i \in S THEN s[i].data.delta ELSE 0]
           f == [i \in DOMAIN s |-> IF i \in A THEN s[i].data.delta ELSE 0]
           g == [i \in DOMAIN s |-> IF i \in B THEN s[i].data.delta ELSE 0]
<1>1. DOMAIN s = 1..Len(s) /\ Len(s) \in Nat
  BY DEF IsList
<1>2. ASSUME NEW i \in 1..Len(s) PROVE f[i] \in Int /\ g[i] \in Int /\ h[i] = f[i] + g[i]
  <2>0. /\ h[i] = IF i \in S THEN s[i].data.delta ELSE 0
        /\ f[i] = IF i \in A THEN s[i].data.delta ELSE 0
        /\ g[i] = IF i \in B THEN s[i].data.delta ELSE 0
    BY <1>1
  <2> HIDE DEF h, f, g
  <2>1. CASE i \in A
    <3>1. f[i] = s[i].data.delta /\ g[i] = 0 /\ h[i] = s[i].data.delta /\ s[i].data.delta \in Int
      BY <2>0, <2>1
    <3> QED BY <3>1
  <2>2. CASE i \in B
    <3>1. g[i] = s[i].data.delta /\ f[i] = 0 /\ h[i] = s[i].data.delta /\ s[i].data.delta \in Int
      BY <2>0, <2>2
    <3> QED BY <3>1
  <2>3. CASE i \notin A /\ i \notin B
    <3>1. g[i] = 0 /\ f[i] = 0 /\ h[i] = 0
      BY <2>0, <2>3
    <3> QED BY <3>1
  <2> QED BY <2>1, <2>2, <2>3
<1>3. /\ RotationOf(S, s) = SumTo(h, Len(s)) /\ RotationOf(A, s) = SumTo(f, Len(s))
      /\ RotationOf(B, s) = SumTo(g, Len(s))
  BY DEF RotationOf
<1> HIDE DEF f, g, h
<1> QED
  BY <1>1, <1>2, <1>3, SumPlus

\* The wheel turned in the direction h of the frame f, at the time of item i.
Turned(i, f, h) == posted[i].id = "WHEELMOUSE" /\ posted[i].frame = f /\ posted[i].data.horz = h

(* The events that a new one takes the place of turned the wheel the same way,
   and add theirs to it. *)
LEMMA WheelFacts ==
    ASSUME ItemsInv, NEW e, IsEvent(e), NEW i \in Superseded(e), NEW f, NEW h
    PROVE  Turned(i, f, h) <=> e.id = "WHEELMOUSE" /\ e.frame = f /\ e.data.horz = h
<1>1. i \in Numbers /\ event[i].id = e.id /\ event[i].frame = e.frame
  BY SupersededFacts
<1>2. EventOK(i)
  BY <1>1 DEF ItemsInv
<1>3. e.id = "WHEELMOUSE" => event[i].data.horz = e.data.horz
  BY SupersededFacts
<1> QED
  BY <1>1, <1>2, <1>3 DEF EventOK, Turned

LEMMA DeltaInt == ItemsInv => \A i \in Numbers : posted[i].id = "WHEELMOUSE" =>
                                 event[i].data.delta \in Int /\ posted[i].data.delta \in Int
  BY DEF ItemsInv, EventOK, IsEvent

LEMMA WheelStep == ItemsInv /\ WheelInv /\ [Next]_vars => WheelInv'
<1> SUFFICES ASSUME ItemsInv, WheelInv, [Next]_vars PROVE WheelInv'
  OBVIOUS
<1>0. Len(event) \in Nat /\ Numbers = 1..Len(event)
  BY ListDomain DEF ItemsInv, ListsOK, IsList, Numbers
<1>1. ASSUME NEW e, IsEvent(e), PostCachedEvent(e) PROVE WheelInv'
  <2>n. PICK n : n = NewItem
    OBVIOUS
  <2>0. /\ n \in Nat \ {0} /\ Numbers = 1..n - 1 /\ Numbers' = 1..n
        /\ \A k \in Numbers : posted'[k] = posted[k] /\ event'[k] = event[k]
        /\ posted'[n] = e /\ removed' = Gone(e)
    BY <1>1, <2>n, PostFacts
  <2>1. Waiting("native")' \subseteq Waiting("native") \cup {n}
    BY <1>1, <2>n, PostQueue DEF Queues
  <2>2. ASSUME NEW z \in Numbers', posted'[z].id = "WHEELMOUSE", posted'[z].data.zoom, NEW i \in 1..z - 1,
               posted'[i].id = "WHEELMOUSE", posted'[i].frame = posted'[z].frame,
               posted'[i].data.horz = posted'[z].data.horz,
               i \in Waiting("native")', i \notin removed'
        PROVE  event'[i].data.page
    <3>0. i \in Numbers /\ i # n /\ i # 0
      BY <2>0
    <3>1. i \in Waiting("native") /\ i \notin removed /\ i \notin Superseded(e)
      BY <2>0, <2>1, <2>2, <3>0 DEF Gone
    <3>2. CASE z = n
      <4>1. /\ e.id = "WHEELMOUSE" /\ posted[i].id = "WHEELMOUSE" /\ posted[i].frame = e.frame
            /\ posted[i].data.horz = e.data.horz
        BY <2>0, <2>2, <3>0, <3>2
      <4>2. event[i].id = "WHEELMOUSE" /\ event[i].frame = e.frame /\ event[i].data.horz = e.data.horz
        BY <3>0, <4>1 DEF ItemsInv, EventOK
      <4>3. i \in Like(Waiting("native"), e) /\ QueueOf(e.id) = "native"
        BY <3>0, <3>1, <4>1, <4>2 DEF Like, QueueOf, NativeIDs
      <4>4. Superseded(e) = {j \in Like(Waiting("native"), e) : ~event[j].data.page /\ event[j].data.horz = e.data.horz}
        BY <4>1, <4>3 DEF Superseded
      <4>5. event[i].data.page
        BY <3>1, <4>2, <4>3, <4>4
      <4> QED BY <2>0, <3>0, <4>5
    <3>3. CASE z # n
      <4>1. z \in Numbers /\ posted'[z] = posted[z] /\ posted'[i] = posted[i] /\ event'[i] = event[i]
        BY <2>0, <3>0, <3>3
      <4> QED BY <2>2, <3>1, <4>1 DEF WheelInv
    <3> QED BY <3>2, <3>3
  <2> QED BY <2>2 DEF WheelInv
<1>2. ASSUME event' = event, posted' = posted, removed \subseteq removed',
             Waiting("native")' \subseteq Waiting("native")
      PROVE  WheelInv'
  BY <1>2 DEF WheelInv, Numbers
<1>3. ASSUME NEW S, NEW why, NEW ks, Leaving(S, why, ks) PROVE WheelInv'
  <2>0. queue' = [k \in Queues |-> IF k \in ks THEN Purged(queue[k], removed') ELSE queue[k]]
    BY <1>3 DEF Leaving, Remove
  <2>1. event' = event /\ posted' = posted /\ removed' = removed \cup S
    BY <1>3, RemoveFacts
  <2>2. Waiting("native")' \subseteq Waiting("native")
    <3>1. "native" \in Queues
      BY DEF Queues
    <3>2. queue'["native"] = Purged(queue["native"], removed') \/ queue'["native"] = queue["native"]
      BY <2>0, <3>1
    <3>3. Range(Purged(queue["native"], removed')) \subseteq Waiting("native")
      BY <3>1, PurgedOK
    <3> QED BY <3>2, <3>3 DEF Waiting
  <2> QED BY <1>2, <2>1, <2>2
<1>4. CASE UNCHANGED <<scenario, items>>
  BY <1>2, <1>4 DEF items, Waiting
<1> QED
  BY <1>1, <1>3, <1>4, ItemSteps

LEMMA RotationPost ==
    ASSUME ItemsInv, WheelInv, RotationIsConserved, NEW e, IsEvent(e), PostCachedEvent(e)
    PROVE  RotationIsConserved'
<1>n. PICK n : n = NewItem
  OBVIOUS
<1>c. PICK c : c = Coalesced(e, Superseded(e))
  OBVIOUS
<1>o. PICK old : old = Superseded(e)
  OBVIOUS
<1>0. /\ n \in Nat \ {0} /\ Numbers = 1..n - 1 /\ Numbers' = 1..n
      /\ Len(event') = n /\ Len(posted') = n /\ IsList(event') /\ IsList(posted')
      /\ \A k \in Numbers : posted'[k] = posted[k] /\ event'[k] = event[k]
      /\ posted'[n] = e /\ event'[n] = c
  BY <1>n, <1>c, PostFacts
<1>1. IsList(event) /\ IsList(posted) /\ Len(event) = n - 1 /\ Len(posted) = n - 1
  <2>1. Len(event) \in Nat /\ n = Len(event) + 1
    BY <1>n DEF ItemsInv, ListsOK, IsList, NewItem
  <2>2. Len(event) = n - 1
    BY <2>1
  <2> QED BY <2>2 DEF ItemsInv, ListsOK
<1>2. /\ \A i \in Numbers : Stands(i)' <=> Stands(i) /\ i \notin old
      /\ old \subseteq Numbers
      /\ e.id = "WHEELMOUSE" => Stands(n)'
  <2>1. /\ \A i \in Numbers : Stands(i) /\ i \notin old => Stands(i)'
        /\ \A i \in Numbers : ~Stands(i) => ~Stands(i)'
        /\ \A i \in old : ~Stands(i)'
        /\ Stands(n)' <=> ~Repeated(e)
    BY <1>n, <1>o, StandsKept
  <2>2. old \subseteq Numbers
    BY <1>o, SupersededFacts
  <2>3. e.id = "WHEELMOUSE" => ~Repeated(e)
    BY DEF Repeated
  <2> QED BY <2>1, <2>2, <2>3
<1>3. \A i \in old : Stands(i)
  BY <1>n, <1>o, StandsKept
<1>4. e.id = "WHEELMOUSE" =>
        /\ e.data.delta \in Int
        /\ c.data.delta = IF old = {} \/ e.data.zoom THEN e.data.delta
                          ELSE e.data.delta + RotationOf(old, event)
  BY <1>c, <1>o, CoalescedFacts DEF IsEvent
<1>5. ASSUME NEW z \in Numbers', NEW f, NEW h, Turned(z, f, h)',
             NEW W, W = WheelsFrom(z, f, h)',
             \A i \in W : posted'[i].data.zoom => i = z,
             posted'[z].data.zoom \/ WheelsFrom(1, f, h)' = W,
             NEW A, A = {i \in W : Stands(i)'}
      PROVE  RotationOf(W, posted') = RotationOf(A, event')
  <2>0. \A i : i \in W <=> i \in z..n /\ Turned(i, f, h)'
    BY <1>0, <1>5 DEF WheelsFrom, Turned
  <2>1. \A i \in Numbers : Turned(i, f, h)' <=> Turned(i, f, h)
    BY <1>0 DEF Turned
  <2>2. Turned(n, f, h)' <=> e.id = "WHEELMOUSE" /\ e.frame = f /\ e.data.horz = h
    BY <1>0 DEF Turned
  <2>3. \A i \in old : Turned(i, f, h) <=> e.id = "WHEELMOUSE" /\ e.frame = f /\ e.data.horz = h
    BY <1>o, WheelFacts
  <2>4. CASE z = n
    <3>1. n \in W /\ n \in A /\ e.id = "WHEELMOUSE"
      BY <1>0, <1>2, <1>5, <2>0, <2>2, <2>4
    <3>2. \A i \in 1..n - 1 : i \notin W /\ i \notin A
      BY <1>0, <1>5, <2>0, <2>4
    <3>3. old = {} \/ e.data.zoom
      <4> SUFFICES ASSUME NEW i \in old, ~e.data.zoom PROVE FALSE
        OBVIOUS
      <4>1. i \in 1..n - 1 /\ Turned(i, f, h)'
        BY <1>0, <1>2, <1>5, <2>1, <2>2, <2>3, <2>4
      <4>2. i \in 1..n
        BY <1>0, <4>1
      <4>3. i \in WheelsFrom(1, f, h)'
        BY <1>0, <4>1, <4>2 DEF WheelsFrom, Turned
      <4>4. i \in W
        BY <1>0, <1>5, <2>4, <4>3
      <4> QED BY <3>2, <4>1, <4>4
    <3>x. PICK none : none = {}
      OBVIOUS
    <3>4. RotationOf(none, posted) = 0 /\ RotationOf(none, event) = 0
      BY <1>1, <3>x, RotationEmpty
    <3>5. RotationOf(W, posted') = RotationOf(none, posted) + e.data.delta
      <4>1. \A i \in 1..n - 1 : /\ i \in none <=> i \in W
                                /\ i \in none => posted'[i].data.delta = posted[i].data.delta
        BY <3>2, <3>x
      <4>2. RotationOf(W, posted') = RotationOf(none, posted) + IF n \in W THEN posted'[n].data.delta ELSE 0
        BY <1>0, <1>1, <4>1, RotationAppend
      <4> QED BY <1>0, <3>1, <4>2
    <3>6. RotationOf(A, event') = RotationOf(none, event) + c.data.delta
      <4>1. \A i \in 1..n - 1 : /\ i \in none <=> i \in A
                                /\ i \in none => event'[i].data.delta = event[i].data.delta
        BY <3>2, <3>x
      <4>2. RotationOf(A, event') = RotationOf(none, event) + IF n \in A THEN event'[n].data.delta ELSE 0
        BY <1>0, <1>1, <4>1, RotationAppend
      <4> QED BY <1>0, <3>1, <4>2
    <3>7. c.data.delta = e.data.delta
      BY <1>4, <3>1, <3>3
    <3> QED BY <3>4, <3>5, <3>6, <3>7
  <2>5. CASE z # n
    <3>0. z \in Numbers /\ z \in 1..n - 1 /\ posted'[z] = posted[z] /\ Turned(z, f, h)
      BY <1>0, <1>5, <2>1, <2>5
    <3>u. PICK U : U = WheelsFrom(z, f, h)
      OBVIOUS
    <3>s. PICK S : S = {i \in U : Stands(i)}
      OBVIOUS
    <3>1. \A i : i \in U <=> i \in z..n - 1 /\ Turned(i, f, h)
      BY <1>1, <3>u DEF WheelsFrom, Turned
    <3>2. \A i \in 1..n - 1 : i \in U <=> i \in W
      BY <1>0, <2>0, <2>1, <3>0, <3>1
    <3>3. RotationOf(U, posted) = RotationOf(S, event)
      <4>1. \A i \in U : posted[i].data.zoom => i = z
        <5> TAKE i \in U
        <5>1. i \in 1..n - 1
          BY <3>0, <3>1
        <5> QED BY <1>0, <1>5, <3>2, <5>1
      <4>2. posted[z].data.zoom \/ WheelsFrom(1, f, h) = U
        <5> SUFFICES ASSUME ~posted[z].data.zoom PROVE WheelsFrom(1, f, h) = U
          OBVIOUS
        <5>1. WheelsFrom(1, f, h)' = W
          BY <1>5, <3>0
        <5>2. ASSUME NEW i PROVE i \in WheelsFrom(1, f, h) <=> i \in U
          <6>1. i \in WheelsFrom(1, f, h) <=> i \in 1..n - 1 /\ Turned(i, f, h)
            BY <1>1 DEF WheelsFrom, Turned
          <6>2. i \in WheelsFrom(1, f, h)' <=> i \in 1..n /\ Turned(i, f, h)'
            BY <1>0 DEF WheelsFrom, Turned
          <6>3. i \in 1..n - 1 => i \in 1..n /\ i \in Numbers
            BY <1>0
          <6>4. i \in U => i \in 1..n - 1 /\ Turned(i, f, h)
            BY <3>0, <3>1
          <6> QED BY <2>1, <3>2, <5>1, <6>1, <6>2, <6>3, <6>4
        <5> QED BY <5>2
      <4>3. posted[z].id = "WHEELMOUSE" /\ posted[z].frame = f /\ posted[z].data.horz = h
        BY <3>0 DEF Turned
      <4> QED BY <3>0, <3>u, <3>s, <4>1, <4>2, <4>3 DEF RotationIsConserved
    <3>4. RotationOf(W, posted') = RotationOf(U, posted) + IF n \in W THEN e.data.delta ELSE 0
      <4>1. \A i \in 1..n - 1 : /\ i \in U <=> i \in W
                                /\ i \in U => posted'[i].data.delta = posted[i].data.delta
        BY <1>0, <3>2
      <4> QED BY <1>0, <1>1, <4>1, RotationAppend
    <3>b. PICK B : B = U \cap old
      OBVIOUS
    <3>a. PICK K : K = S \ old
      OBVIOUS
    <3>5. RotationOf(A, event') = RotationOf(K, event) + IF n \in A THEN c.data.delta ELSE 0
      <4>1. \A i \in 1..n - 1 : /\ i \in K <=> i \in A
                                /\ i \in K => event'[i].data.delta = event[i].data.delta
        BY <1>0, <1>2, <1>5, <3>2, <3>a, <3>s
      <4> QED BY <1>0, <1>1, <4>1, RotationAppend
    <3>6. \A i \in 1..n - 1 : i \in S => event[i].data.delta \in Int
      BY <1>0, <3>1, <3>s, DeltaInt DEF Turned
    <3>7. RotationOf(S, event) = RotationOf(K, event) + RotationOf(B, event)
      <4>1. \A i \in 1..n - 1 : /\ i \in S <=> i \in K \/ i \in B
                                /\ ~(i \in K /\ i \in B)
        BY <1>3, <3>a, <3>b, <3>s
      <4> QED BY <1>1, <3>6, <4>1, RotationSplit
    <3>8. RotationOf(K, event) \in Int /\ RotationOf(B, event) \in Int
      <4>1. \A i \in 1..n - 1 : /\ i \in K => event[i].data.delta \in Int
                                /\ i \in B => event[i].data.delta \in Int
        BY <1>3, <3>6, <3>a, <3>b, <3>s
      <4> QED BY <1>1, <4>1, RotationInt
    <3>9. CASE n \notin W
      <4>1. \A i \in B : FALSE
        <5> SUFFICES ASSUME NEW i \in U, i \in old PROVE FALSE
          BY <3>b
        <5>1. Turned(n, f, h)'
          BY <2>2, <2>3, <3>1
        <5>2. n \in z..n
          BY <1>0, <3>0
        <5> QED BY <2>0, <3>9, <5>1, <5>2
      <4>2. RotationOf(B, event) = 0
        BY <1>1, <4>1, RotationEmpty
      <4>3. n \notin A
        BY <1>5, <3>9
      <4> HIDE DEF Turned
      <4>4. RotationOf(W, posted') = RotationOf(U, posted) + 0 /\ RotationOf(A, event') = RotationOf(K, event) + 0
        BY <3>4, <3>5, <3>9, <4>3
      <4> QED BY <3>3, <3>7, <3>8, <4>2, <4>4
    <3>10. CASE n \in W
      <4>1. e.id = "WHEELMOUSE" /\ e.frame = f /\ e.data.horz = h /\ n \in A
        BY <1>2, <1>5, <2>0, <2>2, <3>10
      <4>2. ~e.data.zoom
        BY <1>0, <1>5, <2>5, <3>10
      <4>3. old \subseteq U
        <5> SUFFICES ASSUME NEW i \in old PROVE i \in U
          OBVIOUS
        <5>1. Turned(i, f, h) /\ i \in Numbers /\ i \in 1..n - 1 /\ z \in 1..n - 1
          BY <1>0, <1>2, <2>3, <3>0, <4>1
        <5>2. i \in 1..z - 1 \/ i \in z..n - 1
          BY <5>1
        <5>3. i \notin 1..z - 1
          <6> SUFFICES ASSUME i \in 1..z - 1 PROVE FALSE
            OBVIOUS
          <6>1. CASE posted[z].data.zoom
            <7>1. /\ i \in Waiting(QueueOf(e.id)) /\ i \notin removed /\ ~event[i].data.page
              BY <1>o, <4>1, SupersededFacts
            <7>2. QueueOf(e.id) = "native"
              BY <4>1 DEF QueueOf, NativeIDs
            <7> QED BY <3>0, <5>1, <6>1, <7>1, <7>2 DEF WheelInv, Turned
          <6>2. CASE ~posted[z].data.zoom
            <7>1. WheelsFrom(1, f, h)' = W
              BY <1>5, <3>0, <6>2
            <7>2. i \in 1..n
              BY <1>0, <5>1
            <7>3. i \in WheelsFrom(1, f, h)'
              BY <1>0, <2>1, <5>1, <7>2 DEF WheelsFrom, Turned
            <7>4. i \in z..n
              BY <2>0, <7>1, <7>3
            <7> QED BY <5>1, <7>4
          <6> QED BY <6>1, <6>2
        <5> QED BY <3>1, <5>1, <5>2, <5>3
      <4>4. B = old
        BY <3>b, <4>3
      <4>5. old = {} => RotationOf(B, event) = 0
        BY <1>1, <4>4, RotationEmpty
      <4>6. c.data.delta = e.data.delta + RotationOf(B, event) /\ e.data.delta \in Int
        <5>1. e.data.delta \in Int
          BY <1>4, <4>1
        <5>2. CASE old = {}
          BY <1>4, <4>1, <4>5, <5>1, <5>2
        <5>3. CASE old # {}
          BY <1>4, <4>1, <4>2, <4>4, <5>1, <5>3
        <5> QED BY <5>1, <5>2, <5>3
      <4>7. /\ RotationOf(W, posted') = RotationOf(U, posted) + e.data.delta
            /\ RotationOf(A, event') = RotationOf(K, event) + c.data.delta
        BY <3>4, <3>5, <3>10, <4>1
      <4> QED BY <3>3, <3>7, <3>8, <4>6, <4>7
    <3> QED BY <3>9, <3>10
  <2> QED BY <2>4, <2>5
<1> QED
  BY <1>5 DEF RotationIsConserved, Turned

LEMMA RotationStep == ItemsInv /\ WheelInv /\ RotationIsConserved /\ [Next]_vars => RotationIsConserved'
<1> SUFFICES ASSUME ItemsInv, WheelInv, RotationIsConserved, [Next]_vars PROVE RotationIsConserved'
  OBVIOUS
<1>0. Len(event) \in Nat /\ Numbers = 1..Len(event)
  BY ListDomain DEF ItemsInv, ListsOK, IsList, Numbers
<1>1. ASSUME NEW e, IsEvent(e), PostCachedEvent(e) PROVE RotationIsConserved'
  BY <1>1, RotationPost
<1>2. ASSUME event' = event, posted' = posted, \A i \in Numbers : Stands(i)' <=> Stands(i)
      PROVE  RotationIsConserved'
  <2>1. ASSUME NEW z \in Numbers, NEW f, NEW h
        PROVE  /\ WheelsFrom(z, f, h)' = WheelsFrom(z, f, h) /\ WheelsFrom(1, f, h)' = WheelsFrom(1, f, h)
               /\ {i \in WheelsFrom(z, f, h) : Stands(i)}' = {i \in WheelsFrom(z, f, h) : Stands(i)}
    <3>1. WheelsFrom(z, f, h)' = WheelsFrom(z, f, h) /\ WheelsFrom(1, f, h)' = WheelsFrom(1, f, h)
      BY <1>2 DEF WheelsFrom
    <3>2. \A i \in WheelsFrom(z, f, h) : i \in Numbers
      BY <1>0 DEF WheelsFrom
    <3> QED BY <1>2, <3>1, <3>2
  <2> QED BY <1>2, <2>1 DEF RotationIsConserved, Numbers
<1>3. ASSUME NEW S, NEW why, NEW ks, Leaving(S, why, ks) PROVE RotationIsConserved'
  BY <1>2, <1>3, RemoveFacts
<1>4. CASE UNCHANGED <<scenario, items>>
  BY <1>2, <1>4 DEF items, Stands
<1> QED
  BY <1>1, <1>3, <1>4, ItemSteps

(* Coalescing loses no area to paint, no request to close a frame or to wake
   up, and no rotation, however many events are posted and of whatever size. *)
THEOREM NothingLost == Spec => []NothingIsLost
<1>1. Init => PaintIsCovered /\ WakeupsAreNotLost /\ RotationIsConserved /\ WheelInv
  <2> SUFFICES ASSUME Init PROVE PaintIsCovered /\ WakeupsAreNotLost /\ RotationIsConserved /\ WheelInv
    OBVIOUS
  <2>1. Numbers = {}
    <3>1. ItemsInv /\ event = <<>>
      BY InitItems DEF Init
    <3>2. Numbers = 1..Len(event) /\ Len(event) = 0
      BY <3>1, ListDomain, EmptySeq DEF ItemsInv, ListsOK, Numbers
    <3> QED BY <3>2
  <2> QED BY <2>1 DEF PaintIsCovered, WakeupsAreNotLost, RotationIsConserved, WheelInv
<1>2. PaintIsCovered /\ WakeupsAreNotLost /\ RotationIsConserved => NothingIsLost
  BY DEF NothingIsLost
<1> QED
  BY <1>1, <1>2, ItemsHold, PaintStep, WakeupStep, WheelStep, RotationStep, PTL DEF Spec

=============================================================================
