------------------------- MODULE AutoRecoveryProofs -------------------------
(***************************************************************************)
(* What holds of AutoRecovery for any finite set of documents, however     *)
(* often they are modified and whatever fails: the types, that backups are *)
(* never lost to older ones, that an emergency save leaves of every open   *)
(* document what the next start needs, and that a recovery opens no        *)
(* document with less than was there.                                      *)
(***************************************************************************)
EXTENDS AutoRecovery, SequenceTheorems, FiniteSetTheorems, TLAPS

-----------------------------------------------------------------------------
(* Invariants                                                              *)

Names == Temps \union {NoTemp}
Entry == [state : SUBSET Flags, used : BOOLEAN, old : Names, org : BOOLEAN, loaded : BOOLEAN]
Items == {i \in [present : BOOLEAN, state : SUBSET Flags, temp : Names, org : BOOLEAN] : i.present \/ i = NoItem}
Storing == phase \in {"original", "store", "remove"}
Reading == phase \in {"backup", "load"}
Written(d) == phase = "remove" /\ d = copy.doc
DoneWith(state) == state \intersect {"HANDLED", "DAMAGED"} # {}

(* The cache names each document once; the entry of another one is empty,  *)
(* and a document that is open and cached has an entry that knows it.      *)
Known(d) ==
    /\ d \notin Cached => entry[d] = NoEntry /\ (job # "down" => config[d] = NoItem)
    /\ d \in open \intersect Cached => entry[d].loaded
    /\ entry[d].loaded => entry[d].state \intersect {"DAMAGED", "TRY_LOAD_BACKUP", "TRY_LOAD_ORIGINAL"} = {}
CacheInv ==
    /\ m_lDocCache \in Seq(Docs) /\ dangerous \in Seq(Docs)
    /\ \A i, j \in 1..Len(m_lDocCache) : m_lDocCache[i] = m_lDocCache[j] => i = j
    /\ \A d \in Docs : Known(d)

(* The place in the cache and the copy of an entry belong to a pass, ...   *)
PlaceInv ==
    /\ job \in {"none", "saved", "down"} => at = 0 /\ phase = "visit" /\ dangerous = <<>>
    /\ job \notin {"none", "saved", "down"} => at >= 1
    /\ phase # "visit" => at <= Len(Order)
    /\ Storing => job \in {"pass", "emergency"} /\ copy.doc = Order[at]
    /\ phase = "original" => job = "pass"
    /\ ~Storing => copy = NoCopy
    /\ Reading => job = "recovery"
    /\ job = "recovery" => dangerous = <<>>
    /\ job = "pass" => suggested # "again"
    /\ job = "emergency" => suggested \in {"normal", "again"}
    /\ job = "down" => m_lDocCache = <<>> /\ open = {}

(* ... and what a document's entry says is what the copy was taken from.   *)
CopyInv ==
    /\ Storing =>
        /\ copy.doc \in open \intersect Cached
        /\ copy.info \in Entry /\ copy.info.loaded
        /\ copy.info.state \intersect {"DAMAGED", "TRY_LOAD_BACKUP", "TRY_LOAD_ORIGINAL"} = {}
        /\ copy.info.org = entry[copy.doc].org
        /\ copy.doc \in modified => "MODIFIED" \in copy.info.state
    /\ phase = "original" => copy.info.org
    /\ phase \in {"original", "store"} =>
        /\ copy.new \in Temps /\ copy.new # copy.info.old
        /\ copy.info.old = entry[copy.doc].old
    /\ phase = "remove" =>
        /\ copy.new = entry[copy.doc].old
        /\ copy.info.old # NoTemp => copy.info.old # copy.new
        /\ "HANDLED" \in copy.info.state
        /\ \/ copy.info.old = NoTemp /\ "INCOMPLETE" \in copy.info.state
           \/ /\ copy.doc \notin unsaved /\ copy.info.old # NoTemp
              /\ files[copy.doc][copy.info.old] = version[copy.doc]

(* A document that a recovery still has to open is not open.               *)
ReadInv ==
    /\ job = "recovery" => \A d \in Docs : entry[d].loaded => "HANDLED" \in entry[d].state
    /\ Reading => ~DoneWith(entry[Loading].state)
    /\ phase = "backup" => entry[Loading].old # NoTemp /\ "TRY_LOAD_BACKUP" \in entry[Loading].state
    /\ phase = "load" => /\ "TRY_LOAD_ORIGINAL" \in entry[Loading].state
                         /\ BackupWasTried(Loading) => "INCOMPLETE" \in entry[Loading].state
                         /\ ~BackupWasTried(Loading) => entry[Loading].old = NoTemp

(* A document has two files at most, the old and the new one, and what an  *)
(* emergency save found half done.                                         *)
FewFiles(d) ==
    \E x \in Names :
        /\ job \notin {"emergency", "saved"} => x = NoTemp
        /\ \A t \in Temps : files[d][t] # None =>
              t = entry[d].old \/ t = x \/ (Written(d) /\ t = copy.info.old)
FilesInv == job # "down" => \A d \in Docs : FewFiles(d)

(* The configuration names the same file as the entry, unless the document *)
(* was saved since.                                                        *)
SameItem(d) ==
    /\ \/ config[d].temp = entry[d].old
       \/ config[d].temp = NoTemp /\ (entry[d].old # NoTemp => files[d][entry[d].old] = None)
    /\ \/ config[d].org = entry[d].org
       \/ config[d].org /\ ~entry[d].org /\ Titled(d)
Named(d) ==
    d \in open \intersect Cached => IF Written(d) THEN config[d] = Item(copy.info) ELSE SameItem(d)
ConfigInv == \A d \in Docs : Named(d)

(* What the files have of a document with nothing unsaved is its contents. *)
Kept(d) ==
    IF entry[d].old # NoTemp /\ files[d][entry[d].old] # None
    THEN files[d][entry[d].old] = version[d]
    ELSE IF entry[d].org THEN original[d] = version[d] ELSE version[d] = 0
Excepted(d) ==
    \/ "INCOMPLETE" \in entry[d].state
    \/ entry[d].org # Titled(d)
    \/ job = "emergency" /\ d \in skipped
Safekept(d) ==
    /\ d \in open \intersect Cached /\ job # "saved" => d \in unsaved \/ Excepted(d) \/ Written(d) \/ Kept(d)
    /\ d \notin Cached => d \in unsaved \/ version[d] = Base(d)
    /\ d \notin open => version[d] = Base(d)
KeptInv == \A d \in Docs : Safekept(d)

(* An emergency save has seen all documents before the place it is at.     *)
Ahead(d) == \E j \in 1..Len(dangerous) : dangerous[j] = d /\ Len(m_lDocCache) + j >= at
Excused(d) ==
    "HANDLED" \in entry[d].state => d \in skipped \/ d \notin unsaved \/ "INCOMPLETE" \in entry[d].state
Seen(d) == d \notin unsaved \/ "HANDLED" \in entry[d].state \/ suggested = "again" \/ Ahead(d)
EmergencyInv ==
    /\ job \in {"emergency", "saved"} => open \subseteq Cached
    /\ job = "emergency" =>
        /\ \A d \in open : Excused(d)
        /\ \A i \in 1..Len(m_lDocCache) : i < at /\ m_lDocCache[i] \in open => Seen(m_lDocCache[i])

(* The contents that no save has seen are marked as modified everywhere.   *)
Marked(d) ==
    /\ d \in open /\ version[d] > Base(d) => d \in modified
    /\ d \in open \intersect Cached /\ d \in modified => "MODIFIED" \in entry[d].state
    /\ entry[d].old # NoTemp /\ files[d][entry[d].old] > Base(d) => "MODIFIED" \in entry[d].state
    /\ config[d].temp # NoTemp /\ files[d][config[d].temp] > Base(d) => "MODIFIED" \in config[d].state
ModifiedInv == \A d \in Docs : Marked(d)

(* What a recovery owes is there still, or the document is open with it.   *)
Latest(d) ==
    IF entry[d].old # NoTemp /\ files[d][entry[d].old] # None THEN files[d][entry[d].old]
    ELSE IF entry[d].org THEN original[d] ELSE None
Last(d) == IF entry[d].org THEN original[d] ELSE None
StillOwed(d) ==
    IF Reading /\ d = Loading THEN IF phase = "backup" THEN Latest(d) ELSE Last(d)
    ELSE IF DoneWith(entry[d].state) THEN None
    ELSE IF ~BackupWasTried(d) THEN Latest(d)
    ELSE IF OriginalWasTried(d) THEN None ELSE Last(d)
Owing(d) ==
    due[d] # None => d \in Cached /\ ((d \in open /\ version[d] >= due[d]) \/ StillOwed(d) = due[d])
Tried(d) == DoneWith(entry[d].state) \/ suggested = "again"
DueInv ==
    /\ job \notin {"down", "recovery"} => \A d \in Docs : due[d] = None
    /\ job = "down" => \A d \in Docs : due[d] = Owed(d)
    /\ job = "recovery" =>
        /\ \A d \in Docs : Owing(d)
        /\ \A i \in 1..Len(m_lDocCache) : i < at => Tried(m_lDocCache[i])

-----------------------------------------------------------------------------
(* Lists of documents                                                      *)

In(s) == {s[i] : i \in 1..Len(s)}
Distinct(s) == \A i, j \in 1..Len(s) : s[i] = s[j] => i = j

LEMMA InCache == Cached = In(m_lDocCache) /\ Cached' = In(m_lDocCache')
  BY DEF Cached, In

LEMMA NoList == <<>> \in Seq(Docs) /\ Len(<<>>) = 0 /\ Distinct(<<>>) /\ In(<<>>) = {}
<1>1. <<>> \in Seq(Docs) /\ Len(<<>>) = 0
  BY EmptySeq
<1> QED
  BY <1>1 DEF Distinct, In

LEMMA FunctionIsSeq ==
    ASSUME NEW n \in Nat, NEW s \in [1..n -> Docs]
    PROVE  s \in Seq(Docs) /\ Len(s) = n
<1>1. s \in Seq(Docs)
  BY SeqDef
<1>2. PICK l \in Nat : l = Len(s)
  BY <1>1, LenProperties
<1>3. 1..l = 1..n
  BY <1>1, <1>2, LenProperties
<1>4. (l \in 1..l \/ l = 0) /\ (n \in 1..n \/ n = 0)
  OBVIOUS
<1>5. l <= n /\ n <= l
  BY <1>3, <1>4
<1> QED
  BY <1>1, <1>2, <1>5

LEMMA DistinctLength ==
    ASSUME NEW s \in Seq(Docs), Distinct(s)
    PROVE  In(s) \subseteq Docs /\ Cardinality(In(s)) = Len(s)
<1>1. Len(s) \in Nat /\ s \in [1..Len(s) -> Docs]
  BY LenProperties
<1>2. s \in Bijection(1..Len(s), In(s))
  BY <1>1 DEF In, Distinct, Bijection, Injection, Surjection, IsInjective
<1>3. IsFiniteSet(1..Len(s)) /\ Cardinality(1..Len(s)) = Len(s)
  BY <1>1, FS_Interval
<1>4. Cardinality(In(s)) = Cardinality(1..Len(s))
  BY <1>2, <1>3, FS_Bijection DEF ExistsBijection
<1> QED
  BY <1>1, <1>3, <1>4 DEF In

LEMMA DistinctAppend ==
    ASSUME NEW s \in Seq(Docs), Distinct(s), NEW d \in Docs \ In(s)
    PROVE  /\ Append(s, d) \in Seq(Docs) /\ Distinct(Append(s, d))
           /\ In(Append(s, d)) = In(s) \union {d}
<1> DEFINE t == Append(s, d)
<1>1. /\ Len(s) \in Nat /\ t \in Seq(Docs) /\ Len(t) = Len(s) + 1
      /\ t[Len(s) + 1] = d /\ \A i \in 1..Len(s) : t[i] = s[i]
  BY AppendProperties, LenProperties
<1> HIDE DEF t
<1>2. \A i \in 1..Len(s) : s[i] \in In(s)
  BY DEF In
<1>3. \A i \in 1..Len(t) : i = Len(s) + 1 \/ i \in 1..Len(s)
  BY <1>1
<1>4. Distinct(t)
  BY <1>1, <1>2, <1>3 DEF Distinct
<1>5. In(t) = In(s) \union {d}
  <2>1. Len(s) + 1 \in 1..Len(t) /\ 1..Len(s) \subseteq 1..Len(t)
    BY <1>1
  <2> QED BY <1>1, <1>3, <2>1 DEF In
<1> QED
  BY <1>1, <1>4, <1>5 DEF t

LEMMA DistinctWithout ==
    ASSUME NEW s \in Seq(Docs), Distinct(s), NEW d \in In(s)
    PROVE  /\ Without(s, d) \in Seq(Docs) /\ Distinct(Without(s, d))
           /\ In(Without(s, d)) = In(s) \ {d}
<1> DEFINE place == CHOOSE i \in 1..Len(s) : s[i] = d
           t == Without(s, d)
           n == Len(s)
<1>1. n \in Nat /\ s \in [1..n -> Docs]
  BY LenProperties
<1>2. place \in 1..n /\ s[place] = d
  BY DEF In
<1>3. t = [i \in 1..n - 1 |-> IF i < place THEN s[i] ELSE s[i + 1]]
  BY DEF Without
<1> HIDE DEF place, t
<1>4. t \in [1..n - 1 -> Docs] /\ n - 1 \in Nat
  <2>1. \A i \in 1..n - 1 : i \in 1..n /\ i + 1 \in 1..n
    BY <1>1
  <2> QED BY <1>1, <1>2, <1>3, <2>1
<1>5. t \in Seq(Docs) /\ Len(t) = n - 1
  BY <1>4, FunctionIsSeq
<1>6. Distinct(t)
  <2> SUFFICES ASSUME NEW i \in 1..n - 1, NEW j \in 1..n - 1, t[i] = t[j] PROVE i = j
    BY <1>5 DEF Distinct
  <2>1. PICK a \in 1..n : a = IF i < place THEN i ELSE i + 1
    BY <1>1
  <2>2. PICK b \in 1..n : b = IF j < place THEN j ELSE j + 1
    BY <1>1
  <2>3. t[i] = s[a] /\ t[j] = s[b]
    BY <1>3, <2>1, <2>2
  <2>4. a = b
    BY <2>3 DEF Distinct
  <2> QED BY <1>2, <2>1, <2>2, <2>4
<1>7. In(t) \subseteq In(s) \ {d}
  <2> SUFFICES ASSUME NEW i \in 1..n - 1 PROVE t[i] \in In(s) /\ t[i] # d
    BY <1>5 DEF In
  <2>1. PICK a \in 1..n : a = IF i < place THEN i ELSE i + 1
    BY <1>1
  <2>2. t[i] = s[a] /\ a # place
    BY <1>2, <1>3, <2>1
  <2> QED BY <1>2, <2>2 DEF In, Distinct
<1>8. In(s) \ {d} \subseteq In(t)
  <2> SUFFICES ASSUME NEW a \in 1..n, s[a] # d PROVE s[a] \in In(t)
    BY DEF In
  <2>1. a # place
    BY <1>2
  <2>2. PICK i \in 1..n - 1 : a = IF i < place THEN i ELSE i + 1
    <3>1. CASE a < place
      BY <1>1, <1>2, <3>1
    <3>2. CASE a > place
      <4>1. a - 1 \in 1..n - 1 /\ ~(a - 1 < place) /\ a = a - 1 + 1
        BY <1>1, <1>2, <3>2
      <4> QED BY <4>1
    <3> QED BY <1>2, <2>1, <3>1, <3>2
  <2>3. t[i] = s[a]
    BY <1>3, <2>2
  <2> QED BY <1>5, <2>3 DEF In
<1> QED
  BY <1>5, <1>6, <1>7, <1>8 DEF t

(* Any order of a set of documents. *)
LEMMA Listed ==
    ASSUME NEW D, D \subseteq Docs, NEW s \in [1..Cardinality(D) -> D],
           {s[i] : i \in 1..Cardinality(D)} = D
    PROVE  s \in Seq(Docs) /\ Distinct(s) /\ In(s) = D
<1>1. IsFiniteSet(D) /\ Cardinality(D) \in Nat
  BY DocAssumption, FS_Subset, FS_CardinalityType
<1>2. s \in Seq(Docs) /\ Len(s) = Cardinality(D)
  <2>1. s \in [1..Cardinality(D) -> Docs]
    OBVIOUS
  <2> QED BY <1>1, <2>1, FunctionIsSeq
<1>3. IsFiniteSet(1..Cardinality(D)) /\ Cardinality(1..Cardinality(D)) = Cardinality(D)
  BY <1>1, FS_Interval
<1>4. s \in Surjection(1..Cardinality(D), D)
  BY DEF Surjection
<1>5. s \in Injection(1..Cardinality(D), D)
  BY <1>3, <1>4, FS_SurjSameCardinalityImpliesInj
<1> QED
  BY <1>2, <1>5 DEF In, Distinct, Injection, IsInjective

LEMMA DistinctConcat ==
    ASSUME NEW s \in Seq(Docs), Distinct(s), NEW t \in Seq(Docs), Distinct(t), In(s) \intersect In(t) = {}
    PROVE  s \o t \in Seq(Docs) /\ Distinct(s \o t) /\ In(s \o t) = In(s) \union In(t)
<1> DEFINE u == s \o t
           n == Len(s)
           m == Len(t)
<1>1. /\ n \in Nat /\ m \in Nat /\ u \in Seq(Docs) /\ Len(u) = n + m
      /\ \A i \in 1..n + m : u[i] = IF i <= n THEN s[i] ELSE t[i - n]
  BY ConcatProperties, LenProperties
<1> HIDE DEF u, n, m
<1>2. \A i \in 1..n : i \in 1..n + m /\ u[i] = s[i] /\ s[i] \in In(s)
  BY <1>1 DEF In, n
<1>3. \A i \in 1..m : n + i \in 1..n + m /\ u[n + i] = t[i] /\ t[i] \in In(t)
  <2> TAKE i \in 1..m
  <2>1. n + i \in 1..n + m /\ ~(n + i <= n) /\ n + i - n = i
    BY <1>1
  <2> QED BY <1>1, <2>1 DEF In, m
<1>4. \A i \in 1..n + m : i \in 1..n \/ \E j \in 1..m : i = n + j
  <2> TAKE i \in 1..n + m
  <2>1. i > n => i - n \in 1..m /\ i = n + (i - n)
    BY <1>1
  <2> QED BY <1>1, <2>1
<1>5. Distinct(u)
  <2> SUFFICES ASSUME NEW i \in 1..n + m, NEW j \in 1..n + m, u[i] = u[j] PROVE i = j
    BY <1>1 DEF Distinct
  <2>1. CASE i \in 1..n /\ j \in 1..n
    BY <1>2, <2>1 DEF Distinct, n
  <2>2. CASE i \in 1..n /\ j \notin 1..n
    BY <1>2, <1>3, <1>4, <2>2
  <2>3. CASE i \notin 1..n /\ j \in 1..n
    BY <1>2, <1>3, <1>4, <2>3
  <2>4. CASE i \notin 1..n /\ j \notin 1..n
    <3>1. PICK a \in 1..m, b \in 1..m : i = n + a /\ j = n + b
      BY <1>4, <2>4
    <3>2. t[a] = t[b]
      BY <1>3, <3>1
    <3> QED BY <3>1, <3>2 DEF Distinct, m
  <2> QED BY <2>1, <2>2, <2>3, <2>4
<1>6. In(u) = In(s) \union In(t)
  <2>1. In(u) \subseteq In(s) \union In(t)
    <3> SUFFICES ASSUME NEW i \in 1..n + m PROVE u[i] \in In(s) \/ u[i] \in In(t)
      BY <1>1 DEF In
    <3> QED BY <1>2, <1>3, <1>4
  <2>2. In(s) \subseteq In(u)
    BY <1>1, <1>2 DEF In, n
  <2>3. In(t) \subseteq In(u)
    <3> SUFFICES ASSUME NEW j \in 1..m PROVE t[j] \in In(u)
      BY DEF In, m
    <3> QED BY <1>1, <1>3 DEF In
  <2> QED BY <2>1, <2>2, <2>3
<1> QED
  BY <1>1, <1>5, <1>6 DEF u

(* The documents of a pass. *)
LEMMA OrderFacts ==
    ASSUME NEW s \in Seq(Docs), NEW t \in Seq(Docs)
    PROVE  /\ Len(s) \in Nat /\ Len(t) \in Nat /\ Len(s \o t) = Len(s) + Len(t)
           /\ \A i \in 1..Len(s) + Len(t) :
                 /\ (s \o t)[i] \in Docs
                 /\ i <= Len(s) => (s \o t)[i] = s[i] /\ (s \o t)[i] \in In(s)
                 /\ i > Len(s) => i - Len(s) \in 1..Len(t) /\ (s \o t)[i] = t[i - Len(s)]
<1> DEFINE u == s \o t
<1>1. /\ Len(s) \in Nat /\ Len(t) \in Nat /\ u \in Seq(Docs) /\ Len(u) = Len(s) + Len(t)
      /\ \A i \in 1..Len(s) + Len(t) : u[i] = IF i <= Len(s) THEN s[i] ELSE t[i - Len(s)]
  BY ConcatProperties, LenProperties
<1>2. \A i \in 1..Len(u) : u[i] \in Docs
  BY <1>1, ElementOfSeq
<1> HIDE DEF u
<1>3. ASSUME NEW i \in 1..Len(s) + Len(t)
      PROVE  /\ u[i] \in Docs
             /\ i <= Len(s) => u[i] = s[i] /\ u[i] \in In(s)
             /\ i > Len(s) => i - Len(s) \in 1..Len(t) /\ u[i] = t[i - Len(s)]
  <2>1. i <= Len(s) => i \in 1..Len(s)
    BY <1>1
  <2>2. i > Len(s) => i - Len(s) \in 1..Len(t) /\ ~(i <= Len(s))
    BY <1>1
  <2> QED BY <1>1, <1>2, <2>1, <2>2 DEF In
<1> QED
  BY <1>1, <1>3 DEF u

-----------------------------------------------------------------------------
(* Types, part by part                                                     *)

DocTypes ==
    /\ open \subseteq Docs /\ modified \subseteq open /\ unsaved \subseteq open /\ saving \subseteq open
    /\ version \in [Docs -> 0..MaxVersion] /\ original \in [Docs -> Versions]
EntryTypes == entry \in [Docs -> Entry]
TimerTypes ==
    /\ enabled \in BOOLEAN /\ timer \in {"on", "off", "lost"}
    /\ m_eTimerType \in {"dont", "normal", "idle", "allowed"}
PassTypes ==
    /\ job \in {"none", "pass", "emergency", "recovery", "saved", "down"}
    /\ at \in 0..Len(Order) + 1
    /\ phase \in {"visit", "original", "store", "remove", "backup", "load"}
    /\ suggested \in {"dont", "normal", "idle", "allowed", "again"}
    /\ copy.doc \in Docs \union {NoDoc} /\ copy.new \in Names
DiskTypes == config \in [Docs -> Items] /\ files \in [Docs -> [Temps -> Versions]]
DutyTypes ==
    /\ due \in [Docs -> Versions] /\ skipped \subseteq Docs
    /\ scenario \in Scenarios /\ failures \in 0..scenario.maxFailures /\ crashes \in 0..scenario.maxCrashes
Shown == \A d \in Cached : entry[d].loaded /\ d \in open => config[d].present

Types == DocTypes /\ EntryTypes /\ TimerTypes /\ PassTypes /\ DiskTypes /\ DutyTypes
Inv == /\ CacheInv /\ PlaceInv /\ CopyInv /\ ReadInv /\ FilesInv /\ ConfigInv /\ KeptInv
       /\ EmergencyInv /\ ModifiedInv /\ DueInv

LEMMA TypesSuffice ==
    ASSUME Types, CacheInv, Shown
    PROVE  TypeOK
<1>1. Cached \subseteq Docs /\ Cardinality(Cached) = Len(m_lDocCache)
  BY InCache, DistinctLength DEF CacheInv, Distinct
<1> QED
  BY <1>1 DEF Types, DocTypes, EntryTypes, TimerTypes, PassTypes, DiskTypes, DutyTypes, Shown, TypeOK,
     Entry, Items, Names

-----------------------------------------------------------------------------
(* What the actions do to entries, items and files                         *)

\* The entry e has these parts.
Parts(e, state, used, old, org, loaded) ==
    e \in Entry /\ e.state = state /\ e.used = used /\ e.old = old /\ e.org = org /\ e.loaded = loaded

LEMMA EntryParts == \A e \in Entry : Parts(e, e.state, e.used, e.old, e.org, e.loaded)
  BY DEF Parts

LEMMA Restated ==
    ASSUME NEW e \in Entry, NEW S \in SUBSET Flags
    PROVE  Parts([e EXCEPT !.state = S], S, e.used, e.old, e.org, e.loaded)
  BY DEF Parts, Entry

LEMMA Reused ==
    ASSUME NEW e \in Entry, NEW b \in BOOLEAN
    PROVE  Parts([e EXCEPT !.used = b], e.state, b, e.old, e.org, e.loaded)
  BY DEF Parts, Entry

LEMMA NoEntryParts == Parts(NoEntry, {}, FALSE, NoTemp, FALSE, FALSE) /\ NoItem \in Items
  BY DEF NoEntry, NoItem, Parts, Entry, Items, Names

LEMMA NewEntryParts ==
    ASSUME NEW d
    PROVE  Parts(NewEntry(d), IF d \in modified THEN {"MODIFIED"} ELSE {}, FALSE, NoTemp, Titled(d), TRUE)
  BY DEF NewEntry, NoEntry, Titled, Parts, Entry, Names, Flags

LEMMA ItemParts ==
    ASSUME NEW e \in Entry
    PROVE  /\ Item(e) \in Items /\ Item(e).present /\ Item(e).state = e.state
           /\ Item(e).temp = e.old /\ Item(e).org = e.org
  BY DEF Item, Items, Entry

\* Nothing changes of the other documents' entries, items and files.
Only(d) == \A c \in Docs \ {d} : entry'[c] = entry[c] /\ config'[c] = config[c] /\ files'[c] = files[c]

LEMMA EntrySet ==
    ASSUME EntryTypes, NEW d \in Docs, NEW e \in Entry, entry' = [entry EXCEPT ![d] = e]
    PROVE  EntryTypes' /\ entry'[d] = e /\ \A c \in Docs \ {d} : entry'[c] = entry[c]
  BY DEF EntryTypes

LEMMA ItemSet ==
    ASSUME DiskTypes, NEW d \in Docs, NEW i \in Items, config' = [config EXCEPT ![d] = i]
    PROVE  config' \in [Docs -> Items] /\ config'[d] = i /\ \A c \in Docs \ {d} : config'[c] = config[c]
  BY DEF DiskTypes

LEMMA FileRemoved ==
    ASSUME DiskTypes, NEW d \in Docs, NEW t \in Names
    PROVE  /\ Removed(files, d, t) \in [Docs -> [Temps -> Versions]]
           /\ \A c \in Docs \ {d} : Removed(files, d, t)[c] = files[c]
           /\ \A s \in Temps : Removed(files, d, t)[d][s] = IF s = t THEN None ELSE files[d][s]
<1>1. None \in Versions
  BY BoundAssumption DEF None, Versions
<1>2. CASE t = NoTemp
  BY <1>2, TempAssumption DEF Removed, DiskTypes
<1>3. CASE t # NoTemp
  <2>1. t \in Temps
    BY <1>3 DEF Names
  <2>2. Removed(files, d, t) = [files EXCEPT ![d] = [files[d] EXCEPT ![t] = None]]
    BY <1>3 DEF Removed
  <2>3. [files[d] EXCEPT ![t] = None] \in [Temps -> Versions]
    BY <1>1, <2>1 DEF DiskTypes
  <2> QED BY <2>1, <2>2, <2>3 DEF DiskTypes
<1> QED
  BY <1>2, <1>3

LEMMA FileWritten ==
    ASSUME DiskTypes, NEW d \in Docs, NEW t \in Temps, NEW v \in Versions,
           files' = [files EXCEPT ![d][t] = v]
    PROVE  /\ files' \in [Docs -> [Temps -> Versions]] /\ \A c \in Docs \ {d} : files'[c] = files[c]
           /\ \A s \in Temps : files'[d][s] = IF s = t THEN v ELSE files[d][s]
  BY DEF DiskTypes

LEMMA OpenEffect ==
    ASSUME EntryTypes, DiskTypes, CacheInv, NEW d \in Docs, Open(d)
    PROVE  /\ EntryTypes' /\ DiskTypes' /\ Only(d) /\ files' = files
           /\ Locked => UNCHANGED <<m_lDocCache, entry, config>>
           /\ ~Locked => /\ entry'[d] = NewEntry(d) /\ config'[d] = Item(NewEntry(d))
                         /\ m_lDocCache' = Append(m_lDocCache, d) /\ Cached' = Cached \union {d}
<1>1. CASE Locked
  BY <1>1 DEF Open, Only, EntryTypes, DiskTypes
<1>2. CASE ~Locked
  <2>1. /\ m_lDocCache' = Append(m_lDocCache, d) /\ files' = files /\ d \notin Cached
        /\ entry' = [entry EXCEPT ![d] = NewEntry(d)] /\ config' = [config EXCEPT ![d] = Item(NewEntry(d))]
    BY <1>2 DEF Open, Flush
  <2>2. NewEntry(d) \in Entry /\ Item(NewEntry(d)) \in Items
    BY NewEntryParts, ItemParts DEF Parts
  <2>3. EntryTypes' /\ entry'[d] = NewEntry(d) /\ \A c \in Docs \ {d} : entry'[c] = entry[c]
    BY <2>1, <2>2, EntrySet
  <2>4. /\ config' \in [Docs -> Items] /\ config'[d] = Item(NewEntry(d))
        /\ \A c \in Docs \ {d} : config'[c] = config[c]
    BY <2>1, <2>2, ItemSet
  <2>5. Cached' = Cached \union {d}
    BY <2>1, InCache, DistinctAppend DEF CacheInv, Distinct
  <2> QED BY <1>2, <2>1, <2>3, <2>4, <2>5 DEF Only, DiskTypes
<1> QED
  BY <1>1, <1>2

(* Marking a document as modified or not. *)
LEMMA MarkEffect ==
    ASSUME EntryTypes, NEW d \in Docs, NEW is \in BOOLEAN
    PROVE  LET e == WithModified(entry, d, is)
               mark == IF is THEN entry[d].state \union {"MODIFIED"} ELSE entry[d].state \ {"MODIFIED"}
           IN  /\ e \in [Docs -> Entry] /\ \A c \in Docs \ {d} : e[c] = entry[c]
               /\ Parts(e[d], IF d \in Cached /\ Listening THEN mark ELSE entry[d].state, entry[d].used,
                        entry[d].old, entry[d].org, entry[d].loaded)
<1> DEFINE e == WithModified(entry, d, is)
           S == IF is THEN entry[d].state \union {"MODIFIED"} ELSE entry[d].state \ {"MODIFIED"}
<1>1. entry[d] \in Entry /\ entry[d].state \in SUBSET Flags
  BY DEF EntryTypes, Entry
<1>2. S \in SUBSET Flags
  BY <1>1 DEF Flags
<1>3. CASE d \in Cached /\ Listening
  <2>1. e = [entry EXCEPT ![d] = [entry[d] EXCEPT !.state = S]]
    BY <1>3 DEF WithModified
  <2>2. Parts([entry[d] EXCEPT !.state = S], S, entry[d].used, entry[d].old, entry[d].org, entry[d].loaded)
    BY <1>1, <1>2, Restated
  <2> QED BY <1>3, <2>1, <2>2 DEF EntryTypes, Parts
<1>4. CASE ~(d \in Cached /\ Listening)
  <2>1. e = entry
    BY <1>4 DEF WithModified
  <2> HIDE DEF S, e
  <2>2. Parts(entry[d], entry[d].state, entry[d].used, entry[d].old, entry[d].org, entry[d].loaded)
    BY <1>1, EntryParts
  <2> QED BY <1>4, <2>1, <2>2 DEF EntryTypes, e
<1> QED
  BY <1>3, <1>4

LEMMA SavedEffect ==
    ASSUME EntryTypes, DiskTypes, NEW d \in Cached, d \in Docs, Listening, MarkAsSaved(d),
           entry' = [WithModified(entry, d, FALSE) EXCEPT ![d].used = FALSE]
    PROVE  /\ EntryTypes' /\ DiskTypes' /\ Only(d)
           /\ Parts(entry'[d], entry[d].state \ {"MODIFIED"}, FALSE, entry[d].old, entry[d].org, entry[d].loaded)
           /\ config'[d].present /\ config'[d].state = {} /\ config'[d].temp = NoTemp /\ config'[d].org
           /\ \A s \in Temps : files'[d][s] = IF s = entry[d].old THEN None ELSE files[d][s]
<1> DEFINE e == WithModified(entry, d, FALSE)
<1>1. /\ e \in [Docs -> Entry] /\ \A c \in Docs \ {d} : e[c] = entry[c]
      /\ Parts(e[d], entry[d].state \ {"MODIFIED"}, entry[d].used, entry[d].old, entry[d].org, entry[d].loaded)
  BY MarkEffect
<1> HIDE DEF e
<1>2. entry' = [e EXCEPT ![d] = [e[d] EXCEPT !.used = FALSE]]
  BY DEF e
<1>3. Parts([e[d] EXCEPT !.used = FALSE], e[d].state, FALSE, e[d].old, e[d].org, e[d].loaded)
  BY <1>1, Reused DEF Parts
<1>4. /\ entry' \in [Docs -> Entry] /\ entry'[d] = [e[d] EXCEPT !.used = FALSE]
      /\ \A c \in Docs \ {d} : entry'[c] = entry[c]
  BY <1>1, <1>2, <1>3 DEF Parts
<1>5. Parts(entry'[d], entry[d].state \ {"MODIFIED"}, FALSE, entry[d].old, entry[d].org, entry[d].loaded)
  BY <1>1, <1>3, <1>4 DEF Parts
<1> DEFINE g == SavedEntry(d)
<1>6. entry[d] \in Entry /\ entry[d].old \in Names
  BY DEF EntryTypes, Entry
<1>7. g \in Entry /\ g.state = {} /\ g.old = NoTemp /\ g.org
  BY <1>6 DEF SavedEntry, Entry, Names
<1>8. config' = [config EXCEPT ![d] = Item(g)]
  BY DEF MarkAsSaved, Flush
<1> HIDE DEF g
<1>9. /\ config' \in [Docs -> Items] /\ \A c \in Docs \ {d} : config'[c] = config[c]
      /\ config'[d].present /\ config'[d].state = {} /\ config'[d].temp = NoTemp /\ config'[d].org
  BY <1>7, <1>8, ItemParts, ItemSet
<1> DEFINE r == Removed(files, d, entry[d].old)
<1>10. /\ r \in [Docs -> [Temps -> Versions]] /\ \A c \in Docs \ {d} : r[c] = files[c]
       /\ \A s \in Temps : r[d][s] = IF s = entry[d].old THEN None ELSE files[d][s]
  BY <1>6, FileRemoved
<1>11. files' = [files EXCEPT ![d] = r[d]]
  BY DEF MarkAsSaved
<1> HIDE DEF r
<1>12. /\ files' \in [Docs -> [Temps -> Versions]] /\ files'[d] = r[d]
       /\ \A c \in Docs \ {d} : files'[c] = files[c]
  BY <1>10, <1>11 DEF DiskTypes
<1>13. \A s \in Temps : files'[d][s] = IF s = entry[d].old THEN None ELSE files[d][s]
  BY <1>10, <1>12
<1>14. EntryTypes' /\ DiskTypes'
  BY <1>4, <1>9, <1>12 DEF EntryTypes, DiskTypes
<1>15. Only(d)
  BY <1>4, <1>9, <1>12 DEF Only
<1> QED
  BY <1>5, <1>9, <1>13, <1>14, <1>15

LEMMA DroppedEffect ==
    ASSUME EntryTypes, DiskTypes, CacheInv, NEW d \in Cached, d \in Docs,
           m_lDocCache' = Without(m_lDocCache, d), entry' = [entry EXCEPT ![d] = NoEntry],
           files' = Removed(files, d, entry[d].old), FlushRemove(d)
    PROVE  /\ EntryTypes' /\ DiskTypes' /\ Only(d) /\ Cached' = Cached \ {d}
           /\ m_lDocCache' \in Seq(Docs) /\ Distinct(m_lDocCache')
           /\ entry'[d] = NoEntry /\ config'[d] = NoItem
           /\ \A s \in Temps : files'[d][s] = IF s = entry[d].old THEN None ELSE files[d][s]
<1>1. NoEntry \in Entry /\ NoItem \in Items
  BY NoEntryParts DEF Parts
<1>2. EntryTypes' /\ entry'[d] = NoEntry /\ \A c \in Docs \ {d} : entry'[c] = entry[c]
  BY <1>1, EntrySet
<1>3. config' \in [Docs -> Items] /\ config'[d] = NoItem /\ \A c \in Docs \ {d} : config'[c] = config[c]
  BY <1>1, ItemSet DEF FlushRemove
<1>4. entry[d].old \in Names
  BY DEF EntryTypes, Entry
<1>5. /\ files' \in [Docs -> [Temps -> Versions]] /\ \A c \in Docs \ {d} : files'[c] = files[c]
      /\ \A s \in Temps : files'[d][s] = IF s = entry[d].old THEN None ELSE files[d][s]
  BY <1>4, FileRemoved
<1>6. m_lDocCache \in Seq(Docs) /\ Distinct(m_lDocCache) /\ d \in In(m_lDocCache)
  BY InCache DEF CacheInv, Distinct
<1>7. m_lDocCache' \in Seq(Docs) /\ Distinct(m_lDocCache') /\ Cached' = Cached \ {d}
  BY <1>6, InCache, DistinctWithout
<1> QED
  BY <1>2, <1>3, <1>5, <1>7 DEF Only, DiskTypes

LEMMA ResetEffect ==
    ASSUME EntryTypes, DiskTypes, ResetHandleStates, UNCHANGED files
    PROVE  /\ EntryTypes' /\ DiskTypes'
           /\ \A c \in Docs :
                 /\ Parts(entry'[c], IF c \in Cached THEN entry[c].state \ {"HANDLED", "POSTPONED"} ELSE entry[c].state,
                          entry[c].used, entry[c].old, entry[c].org, entry[c].loaded)
                 /\ config'[c] = IF c \in Cached THEN Item(entry'[c]) ELSE config[c]
<1>1. ASSUME NEW c \in Docs
      PROVE  Parts(ResetEntries[c], IF c \in Cached THEN entry[c].state \ {"HANDLED", "POSTPONED"} ELSE entry[c].state,
                   entry[c].used, entry[c].old, entry[c].org, entry[c].loaded)
  <2> DEFINE S == entry[c].state \ {"HANDLED", "POSTPONED"}
  <2>1. entry[c] \in Entry /\ S \in SUBSET Flags
    BY DEF EntryTypes, Entry
  <2>2. ResetEntries[c] = IF c \in Cached THEN [entry[c] EXCEPT !.state = S] ELSE entry[c]
    BY DEF ResetEntries
  <2> HIDE DEF S
  <2>3. Parts([entry[c] EXCEPT !.state = S], S, entry[c].used, entry[c].old, entry[c].org, entry[c].loaded)
    BY <2>1, Restated
  <2>4. Parts(entry[c], entry[c].state, entry[c].used, entry[c].old, entry[c].org, entry[c].loaded)
    BY <2>1, EntryParts
  <2> QED BY <2>2, <2>3, <2>4 DEF S
<1>2. entry' = ResetEntries /\ ResetEntries = [c \in Docs |-> ResetEntries[c]]
  BY DEF ResetHandleStates, ResetEntries
<1>3. EntryTypes'
  BY <1>1, <1>2 DEF EntryTypes, Parts
<1>4. config' = [c \in Docs |-> IF c \in Cached THEN Item(entry'[c]) ELSE config[c]]
  BY <1>2 DEF ResetHandleStates
<1>5. DiskTypes'
  <2>1. \A c \in Docs : Item(entry'[c]) \in Items
    BY <1>1, <1>2, ItemParts DEF Parts
  <2> QED BY <1>4, <2>1 DEF DiskTypes
<1> QED
  BY <1>1, <1>2, <1>3, <1>4, <1>5

LEMMA DownEffect ==
    ASSUME DocTypes, GoesDown
    PROVE  /\ EntryTypes' /\ open' = {} /\ modified' = {} /\ unsaved' = {} /\ saving' = {} /\ original' = original
           /\ version' = [d \in Docs |-> IF d \in open THEN Base(d) ELSE version[d]]
           /\ \A d \in Docs : entry'[d] = NoEntry
           /\ m_lDocCache' = <<>> /\ Cached' = {} /\ enabled' = enabled /\ timer' = "off" /\ m_eTimerType' = "dont"
           /\ job' = "down" /\ at' = 0 /\ phase' = "visit" /\ copy' = NoCopy /\ suggested' = "normal" /\ dangerous' = <<>>
<1>1. Cached' = {}
  <2>1. m_lDocCache' = <<>> /\ Len(<<>>) = 0
    BY DEF GoesDown
  <2> QED BY <2>1, InCache DEF In
<1>2. EntryTypes' /\ \A d \in Docs : entry'[d] = NoEntry
  BY NoEntryParts DEF GoesDown, EntryTypes, Parts
<1>3. open' = {} /\ modified' = {} /\ unsaved' = {} /\ saving' = {}
  BY DEF GoesDown, Closed, DocTypes
<1> QED
  BY <1>1, <1>2, <1>3 DEF GoesDown, Closed, EndPass

LEMMA EmergencyEffect ==
    ASSUME DocTypes, EntryTypes, DiskTypes, CacheInv, EmergencySave
    PROVE  /\ EntryTypes' /\ DiskTypes' /\ files' = files
           /\ m_lDocCache' \in Seq(Docs) /\ Distinct(m_lDocCache')
           /\ Cached' = Cached \union open
           /\ \A d \in Docs :
                 /\ entry'[d] = IF d \in Unknown THEN NewEntry(d) ELSE entry[d]
                 /\ config'[d] = IF d \in Cached \union Unknown THEN Item(entry'[d]) ELSE config[d]
<1>1. Unknown \subseteq Docs /\ Unknown \intersect Cached = {} /\ Cached \union Unknown = Cached \union open
  BY DEF Unknown, DocTypes
<1>2. PICK seq \in [1..Cardinality(Unknown) -> Unknown] :
         {seq[i] : i \in 1..Cardinality(Unknown)} = Unknown /\ m_lDocCache' = m_lDocCache \o seq
  BY DEF EmergencySave
<1>3. seq \in Seq(Docs) /\ Distinct(seq) /\ In(seq) = Unknown
  BY <1>1, <1>2, Listed
<1>4. m_lDocCache \in Seq(Docs) /\ Distinct(m_lDocCache) /\ In(m_lDocCache) = Cached
  BY InCache DEF CacheInv, Distinct
<1>5. m_lDocCache' \in Seq(Docs) /\ Distinct(m_lDocCache') /\ Cached' = Cached \union open
  BY <1>1, <1>2, <1>3, <1>4, InCache, DistinctConcat
<1>6. entry' = [d \in Docs |-> Registered(d)]
      /\ \A d \in Docs : Registered(d) = IF d \in Unknown THEN NewEntry(d) ELSE entry[d]
  BY DEF EmergencySave, Registered
<1>7. EntryTypes'
  <2>1. \A d \in Docs : Registered(d) \in Entry
    <3>1. \A d \in Docs : NewEntry(d) \in Entry /\ entry[d] \in Entry
      BY NewEntryParts DEF EntryTypes, Parts
    <3> QED BY <1>6, <3>1
  <2> QED BY <1>6, <2>1 DEF EntryTypes
<1>8. /\ config' = [d \in Docs |-> IF d \in Cached \union Unknown THEN Item(entry'[d]) ELSE config[d]]
      /\ files' = files
  BY <1>6 DEF EmergencySave, Persisted
<1>9. DiskTypes'
  <2>1. \A d \in Docs : Item(entry'[d]) \in Items
    BY <1>7, ItemParts DEF EntryTypes
  <2> QED BY <1>8, <2>1 DEF DiskTypes
<1> QED
  BY <1>5, <1>6, <1>7, <1>8, <1>9

(* One that is given up has written down some of the entries.              *)
LEMMA BreaksEffect ==
    ASSUME DocTypes, EntryTypes, DiskTypes, EmergencyBreaks
    PROVE  /\ GoesDown /\ UNCHANGED files /\ DiskTypes'
           /\ \A d \in Docs : \/ config'[d] = config[d]
                              \/ \E e \in {entry[d], NewEntry(d)} : e \in Entry /\ config'[d] = Item(e)
<1>1. PICK n \in 1..Len(m_lDocCache) : config' = Persisted({m_lDocCache[i] : i \in 1..n - 1})
  BY DEF EmergencyBreaks
<1>2. \A d \in Docs : Registered(d) \in {entry[d], NewEntry(d)} /\ Registered(d) \in Entry
  BY NewEntryParts DEF Registered, EntryTypes, Parts
<1>3. \A d \in Docs : config'[d] = config[d] \/ config'[d] = Item(Registered(d))
  BY <1>1 DEF Persisted
<1>4. \A d \in Docs : Item(Registered(d)) \in Items
  BY <1>2, ItemParts
<1>5. UNCHANGED files /\ GoesDown
  BY DEF EmergencyBreaks
<1>6. DiskTypes'
  <2>1. config' \in [Docs -> Items]
    BY <1>1, <1>4 DEF Persisted, DiskTypes
  <2> QED BY <1>5, <2>1 DEF DiskTypes
<1> QED
  BY <1>2, <1>3, <1>5, <1>6

LEMMA RestartEffect ==
    ASSUME DocTypes, DiskTypes, Restart
    PROVE  /\ EntryTypes' /\ DiskTypes' /\ config' = config
           /\ m_lDocCache' \in Seq(Docs) /\ Distinct(m_lDocCache') /\ Cached' = {d \in Docs : config[d].present}
           /\ \A d \in Docs :
                 /\ config[d].present => Parts(entry'[d], config[d].state, FALSE, config[d].temp, config[d].org, FALSE)
                 /\ ~config[d].present => entry'[d] = NoEntry
                 /\ \A t \in Temps : files'[d][t] = IF t = config[d].temp THEN files[d][t] ELSE None
<1> DEFINE items == {d \in Docs : config[d].present}
           Read(d) == [NoEntry EXCEPT !.state = config[d].state, !.old = config[d].temp, !.org = config[d].org]
<1>1. PICK seq \in [1..Cardinality(items) -> items] :
         {seq[i] : i \in 1..Cardinality(items)} = items /\ m_lDocCache' = seq
  BY DEF Restart
<1>2. m_lDocCache' \in Seq(Docs) /\ Distinct(m_lDocCache') /\ Cached' = items
  <2> HIDE DEF items
  <2>1. items \subseteq Docs
    BY DEF items
  <2> QED BY <1>1, <2>1, Listed, InCache
<1>3. entry' = [d \in Docs |-> IF d \in items THEN Read(d) ELSE NoEntry]
  BY DEF Restart
<1>4. ASSUME NEW d \in Docs
      PROVE  Parts(Read(d), config[d].state, FALSE, config[d].temp, config[d].org, FALSE)
  <2>1. config[d] \in Items
    BY DEF DiskTypes
  <2> QED BY <2>1 DEF NoEntry, Parts, Items, Entry, Names
<1>5. EntryTypes'
  BY <1>3, <1>4, NoEntryParts DEF EntryTypes, Parts
<1>6. /\ config' = config
      /\ files' = [d \in Docs |-> [t \in Temps |-> IF t = config[d].temp THEN files[d][t] ELSE None]]
  BY DEF Restart
<1>7. DiskTypes'
  <2>1. None \in Versions
    BY BoundAssumption DEF None, Versions
  <2> QED BY <1>6, <2>1 DEF DiskTypes
<1> QED
  BY <1>2, <1>3, <1>4, <1>5, <1>6, <1>7

-----------------------------------------------------------------------------
(* Where a pass is                                                         *)

LEMMA OrderIs ==
    ASSUME CacheInv
    PROVE  /\ Len(m_lDocCache) \in Nat /\ Len(dangerous) \in Nat
           /\ Len(Order) = Len(m_lDocCache) + Len(dangerous)
           /\ \A i \in 1..Len(Order) :
                 /\ Order[i] \in Docs
                 /\ i <= Len(m_lDocCache) => i \in 1..Len(m_lDocCache) /\ Order[i] = m_lDocCache[i] /\ Order[i] \in Cached
                 /\ i > Len(m_lDocCache) => /\ i - Len(m_lDocCache) \in 1..Len(dangerous)
                                            /\ Order[i] = dangerous[i - Len(m_lDocCache)]
<1>1. m_lDocCache \in Seq(Docs) /\ dangerous \in Seq(Docs)
  BY DEF CacheInv
<1> QED
  BY <1>1, OrderFacts, InCache DEF Order

LEMMA VisitIs ==
    ASSUME CacheInv, NEW jobs, NEW d, Visits(jobs, d)
    PROVE  /\ job \in jobs /\ phase = "visit" /\ d \in Docs /\ d = Order[at]
           /\ at \in 1..Len(Order) /\ at + 1 \in 0..Len(Order) + 1
           /\ at <= Len(m_lDocCache) => at \in 1..Len(m_lDocCache) /\ d = m_lDocCache[at] /\ d \in Cached
           /\ at > Len(m_lDocCache) => at - Len(m_lDocCache) \in 1..Len(dangerous) /\ d = dangerous[at - Len(m_lDocCache)]
<1>1. at \in 1..Len(Order) /\ d = Order[at] /\ Len(Order) \in Nat
  BY OrderIs DEF Visits
<1> QED
  BY <1>1, OrderIs DEF Visits

LEMMA ReadingIs ==
    ASSUME CacheInv, PassTypes, PlaceInv, Reading
    PROVE  /\ job = "recovery" /\ Loading \in Docs /\ Loading \in Cached /\ Loading = m_lDocCache[at]
           /\ at \in 1..Len(m_lDocCache) /\ Len(m_lDocCache) \in Nat /\ Len(Order) = Len(m_lDocCache)
           /\ at + 1 \in 0..Len(Order) + 1
<1>1. job = "recovery" /\ dangerous = <<>> /\ Len(<<>>) = 0 /\ at >= 1 /\ at <= Len(Order) /\ at \in Int
  BY DEF PlaceInv, PassTypes, Reading
<1>2. Len(m_lDocCache) \in Nat /\ Len(Order) = Len(m_lDocCache)
  BY <1>1, OrderIs
<1>3. at \in 1..Len(Order) /\ at <= Len(m_lDocCache)
  BY <1>1, <1>2
<1> QED
  BY <1>1, <1>2, <1>3, OrderIs DEF Loading

LEMMA RecoveryIs ==
    ASSUME CacheInv, PlaceInv, NEW d, Visits({"recovery"}, d)
    PROVE  /\ job = "recovery" /\ phase = "visit" /\ d \in Docs /\ d \in Cached /\ d = m_lDocCache[at]
           /\ at \in 1..Len(m_lDocCache) /\ Len(m_lDocCache) \in Nat /\ Len(Order) = Len(m_lDocCache)
<1>1. job = "recovery" /\ phase = "visit" /\ at \in 1..Len(Order) /\ d = Order[at]
  BY DEF Visits
<1>2. dangerous = <<>> /\ Len(<<>>) = 0
  BY <1>1, NoList DEF PlaceInv
<1>3. Len(m_lDocCache) \in Nat /\ Len(Order) = Len(m_lDocCache)
  BY <1>2, OrderIs
<1>4. at <= Len(m_lDocCache)
  BY <1>1, <1>3
<1> QED
  BY <1>1, <1>3, <1>4, OrderIs

LEMMA StoringIs ==
    ASSUME CacheInv, PassTypes, PlaceInv, CopyInv, Storing
    PROVE  /\ copy.doc \in Docs /\ copy.doc \in open /\ copy.doc \in Cached /\ copy.doc = Order[at]
           /\ at \in 1..Len(Order) /\ at + 1 \in 0..Len(Order) + 1 /\ Len(Order) \in Nat
<1>1. at >= 1 /\ at <= Len(Order) /\ at \in Int /\ copy.doc = Order[at]
  BY DEF PlaceInv, PassTypes, Storing
<1>2. Len(Order) \in Nat
  BY OrderIs
<1>3. at \in 1..Len(Order)
  BY <1>1, <1>2
<1> QED
  BY <1>1, <1>2, <1>3, OrderIs DEF CopyInv

(* An entry that knows its document is one of the cache. *)
LEMMA LoadedCached ==
    ASSUME CacheInv, NEW d \in Docs, entry[d].loaded
    PROVE  d \in Cached
  BY DEF CacheInv, Known, NoEntry

-----------------------------------------------------------------------------
(* What the steps of a pass do to entries, items and files                 *)

LEMMA StateSet ==
    ASSUME EntryTypes, NEW d \in Docs, NEW S \in SUBSET Flags, entry' = [entry EXCEPT ![d].state = S]
    PROVE  /\ EntryTypes' /\ \A c \in Docs \ {d} : entry'[c] = entry[c]
           /\ Parts(entry'[d], S, entry[d].used, entry[d].old, entry[d].org, entry[d].loaded)
<1>1. entry[d] \in Entry
  BY DEF EntryTypes
<1>2. Parts([entry[d] EXCEPT !.state = S], S, entry[d].used, entry[d].old, entry[d].org, entry[d].loaded)
  BY <1>1, Restated
<1>3. entry' = [entry EXCEPT ![d] = [entry[d] EXCEPT !.state = S]]
  OBVIOUS
<1> QED
  BY <1>2, <1>3, EntrySet DEF Parts

LEMMA UsedEffect ==
    ASSUME EntryTypes, NEW d \in Docs, NEW b \in BOOLEAN,
           entry' = IF d \in Cached THEN [entry EXCEPT ![d].used = b] ELSE entry
    PROVE  /\ EntryTypes' /\ \A c \in Docs \ {d} : entry'[c] = entry[c]
           /\ Parts(entry'[d], entry[d].state, IF d \in Cached THEN b ELSE entry[d].used,
                    entry[d].old, entry[d].org, entry[d].loaded)
<1>1. entry[d] \in Entry
  BY DEF EntryTypes
<1>2. CASE d \in Cached
  <2>1. Parts([entry[d] EXCEPT !.used = b], entry[d].state, b, entry[d].old, entry[d].org, entry[d].loaded)
    BY <1>1, Reused
  <2>2. entry' = [entry EXCEPT ![d] = [entry[d] EXCEPT !.used = b]]
    BY <1>2
  <2> QED BY <1>2, <2>1, <2>2, EntrySet DEF Parts
<1>3. CASE d \notin Cached
  BY <1>1, <1>3, EntryParts DEF EntryTypes
<1> QED
  BY <1>2, <1>3

LEMMA SkipEntryEffect ==
    ASSUME EntryTypes, NEW d \in Docs, SkipEntry(d)
    PROVE  /\ EntryTypes' /\ \A c \in Docs \ {d} : entry'[c] = entry[c]
           /\ Parts(entry'[d], entry'[d].state, entry[d].used, entry[d].old, entry[d].org, entry[d].loaded)
           /\ DoneWith(entry'[d].state)
           /\ \/ entry'[d] = entry[d] /\ DoneWith(entry[d].state)
              \/ /\ entry'[d].state = entry[d].state \union {"DAMAGED"} /\ ~DoneWith(entry[d].state)
                 /\ BackupWasTried(d) /\ OriginalWasTried(d)
<1>1. entry[d] \in Entry /\ entry[d].state \in SUBSET Flags
  BY DEF EntryTypes, Entry
<1>2. CASE entry' = entry /\ entry[d].state \intersect {"HANDLED", "DAMAGED"} # {}
  <2>1. Parts(entry[d], entry[d].state, entry[d].used, entry[d].old, entry[d].org, entry[d].loaded)
    BY <1>1, EntryParts
  <2> QED BY <1>2, <2>1 DEF DoneWith, EntryTypes
<1> DEFINE S == entry[d].state \union {"DAMAGED"}
<1>3. CASE /\ entry[d].state \intersect {"HANDLED", "DAMAGED"} = {} /\ BackupWasTried(d) /\ OriginalWasTried(d)
           /\ entry' = [entry EXCEPT ![d].state = S]
  <2>1. S \in SUBSET Flags /\ S \intersect {"HANDLED", "DAMAGED"} # {}
    BY <1>1 DEF Flags
  <2> HIDE DEF S
  <2>2. /\ EntryTypes' /\ \A c \in Docs \ {d} : entry'[c] = entry[c]
        /\ Parts(entry'[d], S, entry[d].used, entry[d].old, entry[d].org, entry[d].loaded)
    BY <1>3, <2>1, StateSet
  <2> QED BY <1>3, <2>1, <2>2 DEF Parts, DoneWith, S
<1> QED
  BY <1>2, <1>3 DEF SkipEntry

LEMMA BeginLoadEffect ==
    ASSUME EntryTypes, DiskTypes, NEW d \in Docs, BeginLoad(d)
    PROVE  /\ EntryTypes' /\ DiskTypes' /\ Only(d) /\ files' = files
           /\ Parts(entry'[d], entry'[d].state, entry[d].used, entry[d].old, entry[d].org, entry[d].loaded)
           /\ ~DoneWith(entry[d].state) /\ ~DoneWith(entry'[d].state)
           /\ entry'[d].state \subseteq entry[d].state \union {"INCOMPLETE", "TRY_LOAD_BACKUP", "TRY_LOAD_ORIGINAL"}
           /\ entry[d].state \subseteq entry'[d].state
           /\ ~(BackupWasTried(d) /\ OriginalWasTried(d))
           /\ config'[d] = Item(entry'[d])
           /\ \/ /\ phase' = "backup" /\ entry[d].old # NoTemp /\ "TRY_LOAD_BACKUP" \in entry'[d].state
                 /\ ~BackupWasTried(d)
              \/ /\ phase' = "load" /\ "TRY_LOAD_ORIGINAL" \in entry'[d].state
                 /\ IF BackupWasTried(d) THEN "INCOMPLETE" \in entry'[d].state
                    ELSE /\ entry[d].old = NoTemp
                         /\ entry'[d].state \intersect {"TRY_LOAD_BACKUP", "INCOMPLETE"} = {}
<1> DEFINE fromBackup == ~BackupWasTried(d) /\ entry[d].old # NoTemp
           S == entry[d].state \union (IF BackupWasTried(d) THEN {"INCOMPLETE"} ELSE {})
                   \union {IF fromBackup THEN "TRY_LOAD_BACKUP" ELSE "TRY_LOAD_ORIGINAL"}
           info == [entry[d] EXCEPT !.state = S]
<1>1. entry[d] \in Entry /\ S \in SUBSET Flags
  BY DEF EntryTypes, Entry, Flags
<1>2. entry' = [entry EXCEPT ![d] = info] /\ config' = [config EXCEPT ![d] = Item(info)] /\ files' = files
  BY DEF BeginLoad, Flush
<1>3. Parts(info, S, entry[d].used, entry[d].old, entry[d].org, entry[d].loaded)
  <2> HIDE DEF S
  <2> QED BY <1>1, Restated
<1>4. phase' = IF fromBackup THEN "backup" ELSE "load"
  BY DEF BeginLoad
<1>5. ~DoneWith(entry[d].state) /\ ~(BackupWasTried(d) /\ OriginalWasTried(d))
  BY DEF BeginLoad, DoneWith
<1>6. /\ ~DoneWith(S) /\ entry[d].state \subseteq S
      /\ S \subseteq entry[d].state \union {"INCOMPLETE", "TRY_LOAD_BACKUP", "TRY_LOAD_ORIGINAL"}
  BY <1>5 DEF DoneWith
<1>7. /\ fromBackup => "TRY_LOAD_BACKUP" \in S
      /\ ~fromBackup => "TRY_LOAD_ORIGINAL" \in S
      /\ BackupWasTried(d) => "INCOMPLETE" \in S
      /\ ~BackupWasTried(d) /\ ~fromBackup => S \intersect {"TRY_LOAD_BACKUP", "INCOMPLETE"} = {}
  BY DEF BackupWasTried
<1> HIDE DEF S, info
<1>8. EntryTypes' /\ entry'[d] = info /\ \A c \in Docs \ {d} : entry'[c] = entry[c]
  BY <1>2, <1>3, EntrySet DEF Parts
<1>9. /\ config' \in [Docs -> Items] /\ config'[d] = Item(info)
      /\ \A c \in Docs \ {d} : config'[c] = config[c]
  BY <1>2, <1>3, ItemParts, ItemSet DEF Parts
<1>10. DiskTypes' /\ Only(d)
  BY <1>2, <1>8, <1>9 DEF DiskTypes, Only
<1>11. entry'[d].state = S
  BY <1>3, <1>8 DEF Parts
<1> QED
  BY <1>2, <1>3, <1>4, <1>5, <1>6, <1>7, <1>8, <1>9, <1>10, <1>11

LEMMA SkipEffect ==
    ASSUME EntryTypes, NEW d \in Docs, NEW isActive, Passes(d, isActive)
    PROVE  /\ EntryTypes' /\ \A c \in Docs \ {d} : entry'[c] = entry[c]
           /\ Parts(entry'[d], entry'[d].state, entry[d].used, entry[d].old, entry[d].org, entry[d].loaded)
           /\ entry'[d].state = entry[d].state \/ entry'[d].state = entry[d].state \union {"POSTPONED"}
<1>1. entry[d] \in Entry /\ entry[d].state \in SUBSET Flags
  BY DEF EntryTypes, Entry
<1>2. CASE entry' = entry
  <2>1. Parts(entry[d], entry[d].state, entry[d].used, entry[d].old, entry[d].org, entry[d].loaded)
    BY <1>1, EntryParts
  <2> QED BY <1>2, <2>1 DEF EntryTypes
<1> DEFINE S == entry[d].state \union {"POSTPONED"}
<1>3. CASE entry' = [entry EXCEPT ![d].state = S]
  <2>1. S \in SUBSET Flags
    BY <1>1 DEF Flags
  <2> HIDE DEF S
  <2>2. /\ EntryTypes' /\ \A c \in Docs \ {d} : entry'[c] = entry[c]
        /\ Parts(entry'[d], S, entry[d].used, entry[d].old, entry[d].org, entry[d].loaded)
    BY <1>3, <2>1, StateSet
  <2> QED BY <2>2 DEF Parts, S
<1> QED
  BY <1>2, <1>3 DEF Passes

LEMMA RefusesEffect ==
    ASSUME EntryTypes, NEW d \in Docs, RefusesToSave(d)
    PROVE  /\ EntryTypes' /\ \A c \in Docs \ {d} : entry'[c] = entry[c]
           /\ Parts(entry'[d], entry[d].state \union {"HANDLED"}, entry[d].used, entry[d].old, entry[d].org, entry[d].loaded)
<1> DEFINE S == entry[d].state \union {"HANDLED"}
<1>1. S \in SUBSET Flags
  BY DEF EntryTypes, Entry, Flags
<1>2. entry' = [entry EXCEPT ![d].state = S]
  BY DEF RefusesToSave
<1> HIDE DEF S
<1>3. /\ EntryTypes' /\ \A c \in Docs \ {d} : entry'[c] = entry[c]
      /\ Parts(entry'[d], S, entry[d].used, entry[d].old, entry[d].org, entry[d].loaded)
  BY <1>1, <1>2, StateSet
<1> QED
  BY <1>3 DEF S

LEMMA BeginSaveEffect ==
    ASSUME EntryTypes, DiskTypes, NEW d \in Docs, NEW isActive, NEW userAutoSave, BeginSave(d, isActive, userAutoSave)
    PROVE  /\ EntryTypes' /\ DiskTypes' /\ Only(d) /\ entry' = entry /\ files' = files
           /\ config'[d] = Item(entry[d])
<1>1. entry[d] \in Entry /\ entry' = entry /\ files' = files /\ config' = [config EXCEPT ![d] = Item(entry[d])]
  BY DEF EntryTypes, BeginSave, Flush
<1>2. /\ config' \in [Docs -> Items] /\ config'[d] = Item(entry[d])
      /\ \A c \in Docs \ {d} : config'[c] = config[c]
  BY <1>1, ItemParts, ItemSet
<1> QED
  BY <1>1, <1>2 DEF Only, DiskTypes, EntryTypes

LEMMA StoredInfoParts ==
    ASSUME copy.info \in Entry, NEW t \in Names
    PROVE  Parts(StoredInfo(t),
                 copy.info.state \union {"HANDLED"} \union (IF t = NoTemp THEN {"INCOMPLETE"} ELSE {}),
                 copy.info.used, t, copy.info.org, copy.info.loaded)
<1> DEFINE S == copy.info.state \union {"HANDLED"} \union (IF t = NoTemp THEN {"INCOMPLETE"} ELSE {})
<1>1. S \in SUBSET Flags
  BY DEF Entry, Flags
<1>2. StoredInfo(t) = [copy.info EXCEPT !.old = t, !.state = S]
  BY DEF StoredInfo
<1> HIDE DEF S
<1>3. Parts(StoredInfo(t), S, copy.info.used, t, copy.info.org, copy.info.loaded)
  BY <1>1, <1>2 DEF Parts, Entry
<1> QED
  BY <1>3 DEF S

LEMMA StoreRecoveryEffect ==
    ASSUME DocTypes, EntryTypes, DiskTypes, PassTypes, PlaceInv, CacheInv, CopyInv, StoreRecovery
    PROVE  /\ EntryTypes' /\ DiskTypes' /\ Only(copy.doc) /\ entry' = entry
           /\ phase = "store" /\ phase' = "remove"
           /\ copy'.doc = copy.doc /\ copy'.new = copy.info.old
           /\ config'[copy.doc] = Item(copy'.info)
           /\ \E t \in Names :
                 /\ Parts(copy'.info,
                          copy.info.state \union {"HANDLED"} \union (IF t = NoTemp THEN {"INCOMPLETE"} ELSE {}),
                          copy.info.used, t, copy.info.org, copy.info.loaded)
                 /\ \/ /\ t = copy.new /\ t \in Temps /\ unsaved' = unsaved \ {copy.doc} /\ UNCHANGED failures
                       /\ \A s \in Temps : files'[copy.doc][s] = IF s = t THEN version[copy.doc] ELSE files[copy.doc][s]
                    \/ /\ t = NoTemp /\ UNCHANGED <<files, unsaved>>
                       /\ failures < scenario.maxFailures /\ failures' = failures + 1
<1> DEFINE d == copy.doc
<1>1. d \in Docs /\ copy.info \in Entry /\ copy.new \in Temps
  BY StoringIs DEF StoreRecovery, Storing, CopyInv
<1>2. entry' = entry /\ phase = "store" /\ phase' = "remove"
  BY DEF StoreRecovery
<1>3. CASE /\ files' = [files EXCEPT ![d][copy.new] = version[d]] /\ unsaved' = unsaved \ {d}
           /\ copy' = [copy EXCEPT !.info = StoredInfo(copy.new), !.new = copy.info.old]
           /\ Flush(d, StoredInfo(copy.new)) /\ UNCHANGED failures
  <2> DEFINE i == StoredInfo(copy.new)
  <2>1. Parts(i, copy.info.state \union {"HANDLED"} \union (IF copy.new = NoTemp THEN {"INCOMPLETE"} ELSE {}),
              copy.info.used, copy.new, copy.info.org, copy.info.loaded)
    BY <1>1, StoredInfoParts DEF Names
  <2> HIDE DEF i
  <2>2. copy'.doc = d /\ copy'.new = copy.info.old /\ copy'.info = i
    BY <1>3 DEF PassTypes, StoreRecovery, PlaceInv, CopyInv, Storing, i
  <2>3. config' \in [Docs -> Items] /\ config'[d] = Item(i) /\ \A c \in Docs \ {d} : config'[c] = config[c]
    BY <1>1, <1>3, <2>1, ItemParts, ItemSet DEF Flush, Parts, i
  <2>4. version[d] \in Versions
    BY <1>1, BoundAssumption DEF DocTypes, Versions, None
  <2>5. /\ files' \in [Docs -> [Temps -> Versions]] /\ \A c \in Docs \ {d} : files'[c] = files[c]
        /\ \A s \in Temps : files'[d][s] = IF s = copy.new THEN version[d] ELSE files[d][s]
    BY <1>1, <1>3, <2>4, FileWritten
  <2> QED BY <1>1, <1>2, <1>3, <2>1, <2>2, <2>3, <2>5 DEF EntryTypes, DiskTypes, Only, Names
<1>4. CASE /\ failures < scenario.maxFailures /\ failures' = failures + 1
           /\ copy' = [copy EXCEPT !.info = StoredInfo(NoTemp), !.new = copy.info.old]
           /\ Flush(d, StoredInfo(NoTemp)) /\ UNCHANGED <<files, unsaved>>
  <2> DEFINE i == StoredInfo(NoTemp)
  <2>1. Parts(i, copy.info.state \union {"HANDLED"} \union (IF NoTemp = NoTemp THEN {"INCOMPLETE"} ELSE {}),
              copy.info.used, NoTemp, copy.info.org, copy.info.loaded)
    BY <1>1, StoredInfoParts DEF Names
  <2> HIDE DEF i
  <2>2. copy'.doc = d /\ copy'.new = copy.info.old /\ copy'.info = i
    BY <1>4 DEF PassTypes, StoreRecovery, PlaceInv, CopyInv, Storing, i
  <2>3. config' \in [Docs -> Items] /\ config'[d] = Item(i) /\ \A c \in Docs \ {d} : config'[c] = config[c]
    BY <1>1, <1>4, <2>1, ItemParts, ItemSet DEF Flush, Parts, i
  <2> QED BY <1>1, <1>2, <1>4, <2>1, <2>2, <2>3 DEF EntryTypes, DiskTypes, Only, Names
<1> QED
  BY <1>3, <1>4 DEF StoreRecovery

LEMMA RemoveOldEffect ==
    ASSUME EntryTypes, DiskTypes, PassTypes, PlaceInv, CacheInv, CopyInv, RemoveOld
    PROVE  /\ EntryTypes' /\ DiskTypes' /\ Only(copy.doc) /\ config' = config
           /\ phase = "remove" /\ phase' = "visit" /\ at' = at + 1 /\ copy' = NoCopy
           /\ entry'[copy.doc] = copy.info
           /\ \A s \in Temps : files'[copy.doc][s] = IF s = copy.new THEN None ELSE files[copy.doc][s]
<1>1. copy.doc \in Docs /\ copy.info \in Entry /\ copy.new \in Names
  BY StoringIs DEF RemoveOld, Storing, CopyInv, PassTypes
<1>2. /\ phase = "remove" /\ phase' = "visit" /\ at' = at + 1 /\ copy' = NoCopy /\ config' = config
      /\ entry' = [entry EXCEPT ![copy.doc] = copy.info] /\ files' = Removed(files, copy.doc, copy.new)
  BY DEF RemoveOld
<1>3. EntryTypes' /\ entry'[copy.doc] = copy.info /\ \A c \in Docs \ {copy.doc} : entry'[c] = entry[c]
  BY <1>1, <1>2, EntrySet
<1>4. /\ files' \in [Docs -> [Temps -> Versions]] /\ \A c \in Docs \ {copy.doc} : files'[c] = files[c]
      /\ \A s \in Temps : files'[copy.doc][s] = IF s = copy.new THEN None ELSE files[copy.doc][s]
  BY <1>1, <1>2, FileRemoved
<1> QED
  BY <1>2, <1>3, <1>4 DEF Only, DiskTypes

LEMMA LoadsEffect ==
    ASSUME EntryTypes, DiskTypes, NEW d \in Docs, d = Loading, Loads
    PROVE  /\ EntryTypes' /\ DiskTypes' /\ Only(d) /\ files' = files
           /\ Parts(entry'[d], (entry[d].state \ {"TRY_LOAD_BACKUP", "TRY_LOAD_ORIGINAL"}) \union {"HANDLED"},
                    entry[d].used, entry[d].old, entry[d].org, TRUE)
           /\ config'[d] = Item(entry'[d])
<1> DEFINE S == (entry[d].state \ {"TRY_LOAD_BACKUP", "TRY_LOAD_ORIGINAL"}) \union {"HANDLED"}
           info == [entry[d] EXCEPT !.loaded = TRUE, !.state = S]
<1>1. entry[d] \in Entry /\ S \in SUBSET Flags
  BY DEF EntryTypes, Entry, Flags
<1>2. entry' = [entry EXCEPT ![d] = info] /\ config' = [config EXCEPT ![d] = Item(info)] /\ files' = files
  BY DEF Loads, Flush
<1>3. Parts(info, S, entry[d].used, entry[d].old, entry[d].org, TRUE)
  <2> HIDE DEF S
  <2> QED BY <1>1 DEF Parts, Entry
<1> HIDE DEF S, info
<1>4. EntryTypes' /\ entry'[d] = info /\ \A c \in Docs \ {d} : entry'[c] = entry[c]
  BY <1>2, <1>3, EntrySet DEF Parts
<1>5. config' \in [Docs -> Items] /\ config'[d] = Item(info) /\ \A c \in Docs \ {d} : config'[c] = config[c]
  BY <1>2, <1>3, ItemParts, ItemSet DEF Parts
<1>6. DiskTypes' /\ Only(d)
  BY <1>2, <1>4, <1>5 DEF DiskTypes, Only
<1> QED
  BY <1>2, <1>3, <1>4, <1>5, <1>6 DEF S

LEMMA FailsEffect ==
    ASSUME EntryTypes, DiskTypes, NEW d \in Docs, d = Loading, FailsToLoad
    PROVE  /\ EntryTypes' /\ DiskTypes' /\ Only(d) /\ files' = files
           /\ Parts(entry'[d], (entry[d].state \ {"TRY_LOAD_BACKUP", "TRY_LOAD_ORIGINAL"})
                                  \union IF phase = "backup" THEN {"INCOMPLETE"} ELSE {"HANDLED", "DAMAGED"},
                    entry[d].used, entry[d].old, entry[d].org, entry[d].loaded)
           /\ config'[d] = NoItem
<1> DEFINE S == (entry[d].state \ {"TRY_LOAD_BACKUP", "TRY_LOAD_ORIGINAL"})
                   \union IF phase = "backup" THEN {"INCOMPLETE"} ELSE {"HANDLED", "DAMAGED"}
<1>1. S \in SUBSET Flags
  BY DEF EntryTypes, Entry, Flags
<1>2. entry' = [entry EXCEPT ![d].state = S] /\ config' = [config EXCEPT ![d] = NoItem] /\ files' = files
  BY DEF FailsToLoad, FlushRemove
<1> HIDE DEF S
<1>3. /\ EntryTypes' /\ \A c \in Docs \ {d} : entry'[c] = entry[c]
      /\ Parts(entry'[d], S, entry[d].used, entry[d].old, entry[d].org, entry[d].loaded)
  BY <1>1, <1>2, StateSet
<1>4. config' \in [Docs -> Items] /\ config'[d] = NoItem /\ \A c \in Docs \ {d} : config'[c] = config[c]
  BY <1>2, NoEntryParts, ItemSet
<1> QED
  BY <1>2, <1>3, <1>4 DEF DiskTypes, Only, S

-----------------------------------------------------------------------------
(* The types are kept                                                      *)

LEMMA Contents ==
    ASSUME DocTypes
    PROVE  /\ 0 \in 0..MaxVersion /\ 0..MaxVersion \subseteq Versions /\ None \in Versions /\ None < 0
           /\ Versions \ {None} = 0..MaxVersion
           /\ \A d \in Docs : version[d] \in 0..MaxVersion /\ original[d] \in Versions /\ Base(d) \in 0..MaxVersion
<1>1. /\ MaxVersion \in Nat /\ 0 \in 0..MaxVersion /\ 0..MaxVersion \subseteq Versions /\ None \in Versions
      /\ None < 0 /\ Versions \ {None} = 0..MaxVersion
  BY BoundAssumption DEF None, Versions
<1> QED
  BY <1>1 DEF DocTypes, Base

LEMMA ContentType ==
    ASSUME DocTypes, EntryTypes, DiskTypes, CacheInv, PassTypes, PlaceInv, ReadInv, Reading, Content(Loading) # None
    PROVE  Content(Loading) \in 0..MaxVersion
<1>1. Loading \in Docs /\ entry[Loading].old \in Names
  BY ReadingIs DEF EntryTypes, Entry
<1>2. CASE phase = "backup" /\ entry[Loading].old \in Temps
  BY <1>1, <1>2, Contents DEF Content, DiskTypes
<1>3. CASE phase # "backup"
  BY <1>1, <1>3, Contents DEF Content
<1>4. phase = "backup" => entry[Loading].old # NoTemp
  BY DEF ReadInv
<1> QED
  BY <1>1, <1>2, <1>3, <1>4 DEF Names

(* Closing documents. *)
LEMMA ClosedTypes ==
    ASSUME DocTypes, NEW ds \in SUBSET Docs, Closed(ds)
    PROVE  DocTypes'
<1>1. /\ open' = open \ ds /\ modified' = modified \ ds /\ unsaved' = unsaved \ ds /\ saving' = saving \ ds
      /\ original' = original /\ version' = [d \in Docs |-> IF d \in ds THEN Base(d) ELSE version[d]]
  BY DEF Closed
<1>2. version' \in [Docs -> 0..MaxVersion]
  BY <1>1, Contents
<1> QED
  BY <1>1, <1>2 DEF DocTypes

LEMMA StoredTypes ==
    ASSUME DocTypes, NEW d \in open, Stored(d), unsaved' = unsaved \ {d}, saving' \subseteq saving, UNCHANGED <<open, version>>
    PROVE  DocTypes'
<1>1. d \in Docs /\ version[d] \in Versions
  BY Contents DEF DocTypes
<1>2. original' = [original EXCEPT ![d] = version[d]] /\ modified' = modified \ {d}
  BY DEF Stored
<1> QED
  BY <1>1, <1>2 DEF DocTypes

IInv == Types /\ Shown /\ Inv

(* The steps that leave the documents alone. *)
LEMMA DocsUntouched ==
    ASSUME \/ \E d \in Docs : CleanUpEntry(d) \/ SkipEntry(d) \/ BeginLoad(d) \/ RefusesToSave(d)
           \/ \E d \in Docs, isActive \in BOOLEAN :
                 Skip(d, isActive) \/ \E userAutoSave \in BOOLEAN : BeginSave(d, isActive, userAutoSave)
           \/ \E on \in BOOLEAN : ChangeAutoSave(on)
           \/ \E captured, idle \in BOOLEAN : TimerExpires(captured, idle)
           \/ RemoveOld \/ PassEnds \/ EmergencyTurns \/ EmergencyEnds \/ FailsToLoad
           \/ RecoveryTurns \/ RecoveryEnds \/ EmergencySave \/ Restart \/ UNCHANGED vars
    PROVE  UNCHANGED docVars
<1>1. ASSUME NEW d \in Docs, CleanUpEntry(d) \/ SkipEntry(d) \/ BeginLoad(d) \/ RefusesToSave(d)
      PROVE  UNCHANGED docVars
  BY <1>1 DEF CleanUpEntry, SkipEntry, BeginLoad, RefusesToSave
<1>2. ASSUME NEW d \in Docs, NEW isActive \in BOOLEAN,
             Skip(d, isActive) \/ \E userAutoSave \in BOOLEAN : BeginSave(d, isActive, userAutoSave)
      PROVE  UNCHANGED docVars
  BY <1>2 DEF Skip, BeginSave
<1>3. ASSUME NEW on \in BOOLEAN, ChangeAutoSave(on)
      PROVE  UNCHANGED docVars
  BY <1>3 DEF ChangeAutoSave
<1>4. ASSUME NEW captured \in BOOLEAN, NEW idle \in BOOLEAN, TimerExpires(captured, idle)
      PROVE  UNCHANGED docVars
  BY <1>4 DEF TimerExpires
<1>5. CASE RemoveOld \/ PassEnds \/ EmergencyTurns \/ EmergencyEnds \/ FailsToLoad \/ RecoveryTurns \/ RecoveryEnds
  BY <1>5 DEF RemoveOld, PassEnds, EmergencyTurns, EmergencyEnds, FailsToLoad, RecoveryTurns, RecoveryEnds
<1>6. CASE EmergencySave \/ Restart \/ UNCHANGED vars
  BY <1>6, Zenon DEF EmergencySave, Restart, vars
<1> QED
  BY <1>1, <1>2, <1>3, <1>4, <1>5, <1>6

LEMMA DocTypesKept ==
    ASSUME IInv, [Next]_vars
    PROVE  DocTypes'
<1> USE DEF IInv, Types, Inv
<1>1. CASE UNCHANGED docVars
  BY <1>1 DEF docVars, DocTypes
<1>2. ASSUME NEW d \in Docs, Open(d) \/ SaveBegins(d) \/ SaveFails(d)
      PROVE  DocTypes'
  BY <1>2 DEF Open, SaveBegins, SaveFails, DocTypes
<1>3. ASSUME NEW d \in Docs, Modify(d)
      PROVE  DocTypes'
  <2>1. version[d] + 1 \in 0..MaxVersion
    <3>1. version[d] \in 0..MaxVersion /\ version[d] < MaxVersion /\ MaxVersion \in Nat
      BY <1>3, BoundAssumption DEF Modify, DocTypes
    <3> QED BY <3>1
  <2> QED BY <1>3, <2>1 DEF Modify, DocTypes
<1>4. ASSUME NEW d \in Docs, SaveEnds(d)
      PROVE  DocTypes'
  <2>1. d \in open /\ Stored(d) /\ unsaved' = unsaved \ {d} /\ saving' = saving \ {d} /\ UNCHANGED <<open, version>>
    BY <1>4 DEF SaveEnds, DocTypes
  <2> QED BY <2>1, StoredTypes
<1>5. ASSUME NEW d \in Docs, Close(d)
      PROVE  DocTypes'
  <2>1. Closed({d}) /\ {d} \in SUBSET Docs
    BY <1>5 DEF Close
  <2> QED BY <2>1, ClosedTypes
<1>6. CASE StoreOriginal
  <2>1. CASE UNCHANGED <<original, modified, unsaved>>
    BY <1>6, <2>1 DEF StoreOriginal, DocTypes
  <2>2. CASE Stored(copy.doc) /\ unsaved' = unsaved \ {copy.doc}
    <3>1. copy.doc \in open /\ saving' = saving /\ UNCHANGED <<open, version>>
      BY <1>6, StoringIs DEF StoreOriginal, Storing
    <3> QED BY <2>2, <3>1, StoredTypes
  <2> QED BY <1>6, <2>1, <2>2 DEF StoreOriginal
<1>7. CASE StoreRecovery
  BY <1>7 DEF StoreRecovery, DocTypes
<1>8. CASE Loads
  <2>1. Loading \in Docs /\ Content(Loading) \in 0..MaxVersion
    BY <1>8, ReadingIs, ContentType DEF Loads, Reading
  <2> DEFINE mark == IF "MODIFIED" \in entry[Loading].state THEN {Loading} ELSE {}
  <2>2. /\ open' = open \union {Loading} /\ version' = [version EXCEPT ![Loading] = Content(Loading)]
        /\ modified' = modified \union mark /\ unsaved' = unsaved \union mark /\ UNCHANGED <<saving, original>>
    BY <1>8 DEF Loads
  <2> QED BY <2>1, <2>2 DEF DocTypes
<1>9. CASE GoesDown
  <2>1. Closed(open) /\ open \in SUBSET Docs
    BY <1>9 DEF GoesDown, DocTypes
  <2> QED BY <2>1, ClosedTypes
<1>10. CASE Breaks \/ EmergencyBreaks \/ Crash
  <2>1. GoesDown \/ UNCHANGED docVars
    BY <1>10 DEF Breaks, EmergencyBreaks, Crash
  <2> QED BY <2>1, <1>1, <1>9
<1> QED
  BY <1>1, <1>2, <1>3, <1>4, <1>5, <1>6, <1>7, <1>8, <1>10, DocsUntouched DEF Next, User, Steps, Faults, Done

LEMMA EntryTypesKept ==
    ASSUME IInv, [Next]_vars
    PROVE  EntryTypes' /\ DiskTypes'
<1> USE DEF IInv, Types, Inv
<1>1. CASE UNCHANGED <<entry, config, files>>
  BY <1>1 DEF EntryTypes, DiskTypes
<1>2. ASSUME NEW d \in Docs, Open(d)
      PROVE  EntryTypes' /\ DiskTypes'
  BY <1>2, OpenEffect
<1>3. ASSUME NEW d \in Docs, Modify(d)
      PROVE  EntryTypes' /\ DiskTypes'
  BY <1>3, MarkEffect DEF Modify, EntryTypes, DiskTypes
<1>4. ASSUME NEW d \in Docs, SaveBegins(d) \/ SaveFails(d)
      PROVE  EntryTypes' /\ DiskTypes'
  <2>1. UNCHANGED <<config, files>> /\ \E b \in BOOLEAN : entry' = IF d \in Cached THEN [entry EXCEPT ![d].used = b] ELSE entry
    BY <1>4 DEF SaveBegins, SaveFails
  <2> QED BY <2>1, UsedEffect DEF DiskTypes
<1>5. ASSUME NEW d \in Docs, SaveEnds(d)
      PROVE  EntryTypes' /\ DiskTypes'
  <2>1. Listening
    BY <1>5 DEF SaveEnds, UserTurn, Listening
  <2> QED BY <1>1, <1>5, <2>1, SavedEffect DEF SaveEnds
<1>6. ASSUME NEW d \in Docs, Close(d) \/ CleanUpEntry(d)
      PROVE  EntryTypes' /\ DiskTypes'
  BY <1>1, <1>6, DroppedEffect DEF Close, CleanUpEntry
<1>7. ASSUME NEW d \in Docs, SkipEntry(d)
      PROVE  EntryTypes' /\ DiskTypes'
  BY <1>7, SkipEntryEffect DEF SkipEntry, DiskTypes
<1>8. ASSUME NEW d \in Docs, BeginLoad(d)
      PROVE  EntryTypes' /\ DiskTypes'
  BY <1>8, BeginLoadEffect
<1>9. ASSUME NEW d \in Docs, NEW isActive \in BOOLEAN, Skip(d, isActive)
      PROVE  EntryTypes' /\ DiskTypes'
  BY <1>9, SkipEffect DEF Skip, DiskTypes
<1>10. ASSUME NEW d \in Docs, NEW isActive \in BOOLEAN, NEW userAutoSave \in BOOLEAN, BeginSave(d, isActive, userAutoSave)
       PROVE  EntryTypes' /\ DiskTypes'
  BY <1>10, BeginSaveEffect
<1>11. ASSUME NEW d \in Docs, RefusesToSave(d)
       PROVE  EntryTypes' /\ DiskTypes'
  BY <1>11, RefusesEffect DEF RefusesToSave, DiskTypes
<1>12. CASE StoreOriginal
  <2>1. CASE UNCHANGED <<entry, config, files>>
    BY <1>1, <2>1
  <2>2. CASE entry' = [WithModified(entry, copy.doc, FALSE) EXCEPT ![copy.doc].used = FALSE] /\ MarkAsSaved(copy.doc)
    <3>1. copy.doc \in Cached /\ copy.doc \in Docs /\ Listening
      BY <1>12, StoringIs DEF StoreOriginal, Storing, Listening, PlaceInv
    <3> QED BY <2>2, <3>1, SavedEffect
  <2> QED BY <1>12, <2>1, <2>2 DEF StoreOriginal
<1>13. CASE StoreRecovery
  BY <1>13, StoreRecoveryEffect
<1>14. CASE RemoveOld
  BY <1>14, RemoveOldEffect
<1>15. CASE ResetHandleStates /\ UNCHANGED files
  BY <1>15, ResetEffect
<1>16. CASE PassEnds \/ EmergencyEnds \/ RecoveryEnds
  <2>1. (ResetHandleStates \/ UNCHANGED <<entry, config>>) /\ UNCHANGED files
    BY <1>16 DEF PassEnds, EmergencyEnds, RecoveryEnds
  <2> QED BY <1>1, <1>15, <2>1
<1>17. CASE Loads
  BY <1>17, ReadingIs, LoadsEffect DEF Loads, Reading
<1>18. CASE FailsToLoad
  BY <1>18, ReadingIs, FailsEffect DEF FailsToLoad, Reading
<1>19. CASE Breaks \/ Crash
  <2>1. (GoesDown \/ UNCHANGED entry) /\ UNCHANGED <<config, files>>
    BY <1>19 DEF Breaks, Crash
  <2> QED BY <2>1, DownEffect DEF EntryTypes, DiskTypes
<1>20. CASE EmergencySave \/ EmergencyBreaks
  <2>1. EmergencyBreaks => EntryTypes' /\ DiskTypes'
    BY BreaksEffect, DownEffect
  <2> QED BY <1>20, <2>1, EmergencyEffect
<1>21. CASE Restart
  BY <1>21, RestartEffect
<1>22. CASE UNCHANGED <<entry, config, files>> \/ UNCHANGED vars \/ EmergencyTurns \/ RecoveryTurns
  BY <1>1, <1>22 DEF vars, EmergencyTurns, RecoveryTurns
<1>23. ASSUME NEW on \in BOOLEAN, ChangeAutoSave(on)
       PROVE  EntryTypes' /\ DiskTypes'
  BY <1>1, <1>23 DEF ChangeAutoSave
<1>24. ASSUME NEW captured \in BOOLEAN, NEW idle \in BOOLEAN, TimerExpires(captured, idle)
       PROVE  EntryTypes' /\ DiskTypes'
  BY <1>1, <1>24 DEF TimerExpires
<1> QED
  BY <1>2, <1>3, <1>4, <1>5, <1>6, <1>7, <1>8, <1>9, <1>10, <1>11, <1>12, <1>13, <1>14, <1>16, <1>17, <1>18,
     <1>19, <1>20, <1>21, <1>22, <1>23, <1>24 DEF Next, User, Steps, Faults, Done

LEMMA TimerTypesKept ==
    ASSUME IInv, [Next]_vars
    PROVE  TimerTypes'
<1> USE DEF IInv, Types, Inv
<1>1. CASE UNCHANGED timerVars
  BY <1>1 DEF timerVars, TimerTypes
<1>2. ASSUME NEW on \in BOOLEAN, ChangeAutoSave(on)
      PROVE  TimerTypes'
  BY <1>2 DEF ChangeAutoSave, TimerTypes
<1>3. ASSUME NEW captured \in BOOLEAN, NEW idle \in BOOLEAN, TimerExpires(captured, idle)
      PROVE  TimerTypes'
  BY <1>3 DEF TimerExpires, StartTimer, TimerTypes
<1>4. CASE PassEnds
  BY <1>4 DEF PassEnds, AtEnd, StartTimer, TimerTypes, PassTypes, PlaceInv
<1>5. CASE RecoveryEnds
  BY <1>5 DEF RecoveryEnds, StartTimer, TimerTypes
<1>6. CASE Breaks \/ EmergencyBreaks \/ Crash
  <2>1. (GoesDown \/ UNCHANGED <<enabled, m_eTimerType>>) /\ (timer' = "lost" \/ GoesDown)
    BY <1>6 DEF Breaks, EmergencyBreaks, Crash
  <2> QED BY <2>1 DEF GoesDown, TimerTypes
<1>7. CASE EmergencySave
  <2>1. timer' = "off" /\ m_eTimerType' = "dont" /\ UNCHANGED enabled
    BY <1>7 DEF EmergencySave
  <2> QED BY <2>1 DEF TimerTypes
<1>8. CASE Restart
  <2>1. m_eTimerType' = (IF enabled THEN "normal" ELSE "dont") /\ UNCHANGED <<enabled, timer>>
    BY <1>8, Zenon DEF Restart
  <2> QED BY <2>1 DEF TimerTypes
<1>9. ASSUME NEW d \in Docs, Open(d) \/ Modify(d) \/ SaveBegins(d) \/ SaveEnds(d) \/ SaveFails(d) \/ Close(d) \/ CleanUpEntry(d)
      PROVE  UNCHANGED timerVars
  BY <1>9 DEF Open, Modify, SaveBegins, SaveEnds, SaveFails, Close, CleanUpEntry
<1>10. ASSUME NEW d \in Docs, SkipEntry(d) \/ BeginLoad(d) \/ RefusesToSave(d)
       PROVE  UNCHANGED timerVars
  BY <1>10 DEF SkipEntry, BeginLoad, RefusesToSave
<1>11. ASSUME NEW d \in Docs, NEW isActive \in BOOLEAN,
              Skip(d, isActive) \/ \E userAutoSave \in BOOLEAN : BeginSave(d, isActive, userAutoSave)
       PROVE  UNCHANGED timerVars
  BY <1>11 DEF Skip, BeginSave
<1>12. CASE \/ StoreOriginal \/ StoreRecovery \/ RemoveOld \/ EmergencyTurns \/ EmergencyEnds
            \/ Loads \/ FailsToLoad \/ RecoveryTurns \/ UNCHANGED vars
  <2>1. UNCHANGED timerVars
    BY <1>12 DEF StoreOriginal, StoreRecovery, RemoveOld, EmergencyTurns, EmergencyEnds, Loads, FailsToLoad,
       RecoveryTurns, vars
  <2> QED BY <1>1, <2>1
<1> QED
  BY <1>1, <1>2, <1>3, <1>4, <1>5, <1>6, <1>7, <1>8, <1>9, <1>10, <1>11, <1>12 DEF Next, User, Steps, Faults, Done

-----------------------------------------------------------------------------
(* The lists are kept                                                      *)

LEMMA ListsKept ==
    ASSUME IInv, [Next]_vars
    PROVE  m_lDocCache' \in Seq(Docs) /\ dangerous' \in Seq(Docs) /\ Distinct(m_lDocCache')
<1> DEFINE Goal == m_lDocCache' \in Seq(Docs) /\ dangerous' \in Seq(Docs) /\ Distinct(m_lDocCache')
<1> USE DEF IInv, Types, Inv
<1>1. m_lDocCache \in Seq(Docs) /\ dangerous \in Seq(Docs) /\ Distinct(m_lDocCache)
  BY DEF CacheInv, Distinct
<1>2. CASE UNCHANGED <<m_lDocCache, dangerous>>
  BY <1>1, <1>2 DEF Distinct
<1>3. CASE m_lDocCache' = m_lDocCache /\ dangerous' = <<>>
  BY <1>1, <1>3, NoList DEF Distinct
<1>4. ASSUME NEW d \in Docs, Open(d)
      PROVE  Goal
  <2>1. CASE Locked
    BY <1>2, <1>4, <2>1 DEF Open, passVars
  <2>2. CASE ~Locked
    <3>1. m_lDocCache' = Append(m_lDocCache, d) /\ dangerous' = dangerous /\ d \in Docs \ In(m_lDocCache)
      BY <1>4, <2>2, InCache DEF Open, passVars
    <3> QED BY <1>1, <3>1, DistinctAppend DEF Distinct
  <2> QED BY <2>1, <2>2
<1>5. ASSUME NEW d \in Docs, Close(d) \/ CleanUpEntry(d)
      PROVE  Goal
  <2>1. CASE m_lDocCache' = Without(m_lDocCache, d) /\ d \in Cached /\ dangerous' = dangerous
    BY <1>1, <2>1, InCache, DistinctWithout
  <2> QED BY <1>2, <1>5, <2>1 DEF Close, CleanUpEntry, passVars
<1>6. ASSUME NEW d \in Docs, Modify(d) \/ SaveBegins(d) \/ SaveEnds(d) \/ SaveFails(d)
      PROVE  Goal
  BY <1>2, <1>6 DEF Modify, SaveBegins, SaveEnds, SaveFails, passVars
<1>7. ASSUME NEW on \in BOOLEAN, ChangeAutoSave(on)
      PROVE  Goal
  BY <1>2, <1>7 DEF ChangeAutoSave, passVars
<1>8. ASSUME NEW captured \in BOOLEAN, NEW idle \in BOOLEAN, TimerExpires(captured, idle)
      PROVE  Goal
  BY <1>2, <1>3, <1>8 DEF TimerExpires, StartPass, passVars
<1>9. ASSUME NEW d \in Docs, SkipEntry(d) \/ BeginLoad(d) \/ RefusesToSave(d)
      PROVE  Goal
  BY <1>2, <1>9 DEF SkipEntry, BeginLoad, RefusesToSave
<1>10. ASSUME NEW d \in Docs, NEW isActive \in BOOLEAN, Skip(d, isActive)
       PROVE  Goal
  <2>1. m_lDocCache' = m_lDocCache /\ (dangerous' = dangerous \/ dangerous' = Append(dangerous, d))
    BY <1>10 DEF Skip, Passes
  <2>2. Append(dangerous, d) \in Seq(Docs)
    BY <1>1, AppendProperties
  <2> QED BY <1>1, <2>1, <2>2 DEF Distinct
<1>11. ASSUME NEW d \in Docs, NEW isActive \in BOOLEAN, NEW userAutoSave \in BOOLEAN, BeginSave(d, isActive, userAutoSave)
       PROVE  Goal
  BY <1>2, <1>11 DEF BeginSave
<1>12. CASE \/ StoreOriginal \/ StoreRecovery \/ RemoveOld \/ Loads \/ FailsToLoad \/ UNCHANGED vars
  BY <1>2, <1>12 DEF StoreOriginal, StoreRecovery, RemoveOld, Loads, FailsToLoad, vars, passVars
<1>13. CASE PassEnds \/ EmergencyTurns \/ EmergencyEnds \/ RecoveryTurns \/ RecoveryEnds
  BY <1>3, <1>13 DEF PassEnds, EmergencyTurns, EmergencyEnds, RecoveryTurns, RecoveryEnds, StartPass, EndPass
<1>14. CASE Breaks \/ EmergencyBreaks \/ Crash
  <2>1. (m_lDocCache' = m_lDocCache \/ m_lDocCache' = <<>>) /\ dangerous' = <<>>
    BY <1>14 DEF Breaks, EmergencyBreaks, Crash, GoesDown, EndPass
  <2> QED BY <1>1, <2>1, NoList
<1>15. CASE EmergencySave
  <2>1. dangerous' = <<>>
    BY <1>15 DEF EmergencySave, StartPass
  <2> QED BY <1>15, <2>1, NoList, EmergencyEffect
<1>16. CASE Restart
  <2>1. dangerous' = <<>>
    BY <1>16 DEF Restart, StartPass
  <2> QED BY <1>16, <2>1, NoList, RestartEffect
<1> QED
  BY <1>4, <1>5, <1>6, <1>7, <1>8, <1>9, <1>10, <1>11, <1>12, <1>13, <1>14, <1>15, <1>16
     DEF Next, User, Steps, Faults, Done

(* Where a document is stored anew there is a name for the file. *)
LEMMA NewTempExists ==
    ASSUME IInv, NEW d \in Docs, NEW isActive, NEW userAutoSave, BeginSave(d, isActive, userAutoSave)
    PROVE  /\ NewTemp(d) \in Temps /\ files[d][NewTemp(d)] = None
           /\ NewTemp(d) # entry[d].old /\ NewTemp(d) # config[d].temp
           /\ d \in open /\ d \in Cached /\ entry[d].loaded
<1> USE DEF IInv, Types, Inv
<1>1. Visits({"pass", "emergency"}, d) /\ d \in open /\ entry[d].loaded
  BY DEF BeginSave, Saves, Going
<1>2. phase = "visit" /\ job \in {"pass", "emergency"} /\ d \in Cached
  BY <1>1, LoadedCached DEF Visits
<1>3. SameItem(d)
  BY <1>1, <1>2 DEF ConfigInv, Named, Written
<1>4. PICK x \in Names : \A t \in Temps : files[d][t] # None => t = entry[d].old \/ t = x
  BY <1>2 DEF FilesInv, FewFiles, Written
<1>5. entry[d].old \in Names /\ (config[d].temp = entry[d].old \/ config[d].temp = NoTemp)
  BY <1>3 DEF EntryTypes, Entry, SameItem
<1>6. PICK t \in Temps : t # entry[d].old /\ t # x
  BY <1>4, <1>5, TempAssumption DEF Names
<1>7. files[d][t] = None /\ t # config[d].temp
  BY <1>4, <1>5, <1>6, TempAssumption
<1> QED
  BY <1>1, <1>2, <1>6, <1>7 DEF NewTemp

-----------------------------------------------------------------------------
(* The place of a pass is kept                                             *)

LEMMA PlaceKept ==
    ASSUME IInv, [Next]_vars
    PROVE  PassTypes' /\ PlaceInv'
<1> DEFINE Goal == PassTypes' /\ PlaceInv'
           Pass == {"pass", "emergency", "recovery"}
           Rest == {"none", "saved", "down"}
<1> USE DEF IInv, Types, Inv
<1>1. /\ Len(m_lDocCache') \in Nat /\ Len(dangerous') \in Nat
      /\ Order' = m_lDocCache' \o dangerous' /\ Len(Order') = Len(m_lDocCache') + Len(dangerous')
  BY ListsKept, OrderFacts DEF Order
<1>2. Len(Order') \in Nat /\ 0 \in 0..Len(Order') + 1 /\ 1 \in 0..Len(Order') + 1
  BY <1>1
<1>3. NoCopy.doc = NoDoc /\ NoCopy.new = NoTemp /\ NoTemp \in Names
  BY DEF NoCopy, Names
<1>4. CASE /\ UNCHANGED passVars /\ (UNCHANGED m_lDocCache \/ job = "none")
           /\ job = "down" => UNCHANGED <<m_lDocCache, open>>
  <2>1. UNCHANGED <<job, at, phase, copy, suggested, dangerous>>
    BY <1>4 DEF passVars
  <2>2. CASE UNCHANGED m_lDocCache
    <3>1. Order' = Order
      BY <2>1, <2>2 DEF Order
    <3> QED BY <1>4, <2>1, <2>2, <3>1 DEF PassTypes, PlaceInv, Storing, Reading
  <2>3. CASE job = "none"
    BY <1>2, <2>1, <2>3 DEF PassTypes, PlaceInv, Storing, Reading
  <2> QED BY <1>4, <2>2, <2>3
<1>5. ASSUME NEW j \in Pass, StartPass(j)
      PROVE  Goal
  <2>1. /\ job' = j /\ at' = 1 /\ phase' = "visit" /\ copy' = NoCopy /\ dangerous' = <<>>
        /\ suggested' = IF j = "recovery" THEN "dont" ELSE "normal"
    BY <1>5 DEF StartPass
  <2> QED BY <1>2, <1>3, <2>1 DEF PassTypes, PlaceInv, Storing, Reading
<1>6. ASSUME NEW j \in Rest, EndPass(j), j = "down" => m_lDocCache' = <<>> /\ open' = {}
      PROVE  Goal
  <2>1. /\ job' = j /\ at' = 0 /\ phase' = "visit" /\ copy' = NoCopy /\ dangerous' = <<>> /\ suggested' = "normal"
    BY <1>6 DEF EndPass
  <2> QED BY <1>2, <1>3, <1>6, <2>1 DEF PassTypes, PlaceInv, Storing, Reading
<1>7. CASE /\ at \in 1..Len(Order) /\ at' = at + 1 /\ UNCHANGED <<job, m_lDocCache>> /\ job \in Pass
           /\ phase' = "visit" /\ copy' = NoCopy
           /\ dangerous' = dangerous \/ (job # "recovery" /\ \E d \in Docs : dangerous' = Append(dangerous, d))
           /\ \/ suggested' = suggested
              \/ job = "pass" /\ suggested' \in {"dont", "normal", "idle", "allowed"}
              \/ job = "emergency" /\ suggested' \in {"normal", "again"}
              \/ job = "recovery" /\ suggested' = "again"
  <2>1. Len(m_lDocCache) \in Nat /\ Len(dangerous) \in Nat /\ Len(Order) = Len(m_lDocCache) + Len(dangerous)
    BY OrderIs
  <2>2. dangerous' = dangerous \/ Len(dangerous') = Len(dangerous) + 1
    BY <1>7, AppendProperties DEF CacheInv
  <2>3. PICK l \in Nat, k \in Nat, l1 \in Nat, n \in Nat :
          l = Len(m_lDocCache) /\ k = Len(dangerous) /\ l1 = Len(dangerous') /\ n = Len(Order') /\ n = l + l1
    BY <1>1, <1>2, <1>7, <2>1
  <2>4. at \in 1..l + k /\ at' = at + 1 /\ (l1 = k \/ l1 = k + 1)
    BY <1>7, <2>1, <2>2, <2>3
  <2>5. at + 1 \in 0..n + 1 /\ at + 1 >= 1
    BY <2>3, <2>4
  <2>6. at' \in 0..Len(Order') + 1 /\ at' >= 1
    BY <2>3, <2>4, <2>5
  <2>7. PassTypes'
    BY <1>3, <1>7, <2>6 DEF PassTypes
  <2> QED BY <1>7, <2>6, <2>7 DEF PlaceInv, PassTypes, Storing, Reading
<1>8. CASE /\ at \in 1..Len(Order) /\ UNCHANGED <<job, at, suggested, m_lDocCache, dangerous>> /\ job \in Pass
           /\ \/ /\ phase' \in {"original", "store", "remove"} /\ job # "recovery"
                 /\ copy'.doc = Order[at] /\ copy'.doc \in Docs /\ copy'.new \in Names
                 /\ phase' = "original" => job = "pass"
              \/ phase' \in {"backup", "load"} /\ job = "recovery" /\ copy' = NoCopy
  <2>1. Order' = Order
    BY <1>8 DEF Order
  <2>2. at >= 1 /\ at <= Len(Order)
    BY <1>8
  <2>3. PassTypes'
    BY <1>3, <1>8, <2>1 DEF PassTypes
  <2> QED BY <1>8, <2>1, <2>2, <2>3 DEF PassTypes, PlaceInv, Storing, Reading
<1>9. ASSUME NEW d \in Docs, Open(d) \/ Modify(d) \/ SaveBegins(d) \/ SaveEnds(d) \/ SaveFails(d) \/ Close(d) \/ CleanUpEntry(d)
      PROVE  Goal
  <2>1. SaveFails(d) => job = "none"
    BY DEF SaveFails
  <2>2. /\ UNCHANGED passVars /\ (UNCHANGED m_lDocCache \/ job = "none")
        /\ job # "down"
    BY <1>9, <2>1 DEF Open, Modify, SaveBegins, SaveEnds, Close, CleanUpEntry, UserTurn, Locked, SaveFails
  <2> QED BY <1>4, <2>2
<1>10. ASSUME NEW on \in BOOLEAN, ChangeAutoSave(on)
       PROVE  Goal
  BY <1>4, <1>10 DEF ChangeAutoSave
<1>11. ASSUME NEW captured \in BOOLEAN, NEW idle \in BOOLEAN, TimerExpires(captured, idle)
       PROVE  Goal
  BY <1>4, <1>5, <1>11 DEF TimerExpires
<1>12. ASSUME NEW d \in Docs, SkipEntry(d) \/ RefusesToSave(d)
       PROVE  Goal
  <2>1. at \in 1..Len(Order) /\ job \in Pass /\ phase = "visit"
    BY <1>12, VisitIs DEF SkipEntry, RefusesToSave
  <2> QED BY <1>7, <1>12, <2>1 DEF SkipEntry, RefusesToSave, PlaceInv, Storing
<1>13. ASSUME NEW d \in Docs, BeginLoad(d)
       PROVE  Goal
  <2>1. at \in 1..Len(Order) /\ job = "recovery" /\ phase = "visit"
    BY <1>13, VisitIs DEF BeginLoad
  <2> QED BY <1>8, <1>13, <2>1 DEF BeginLoad, PlaceInv, Storing
<1>14. ASSUME NEW d \in Docs, NEW isActive \in BOOLEAN, Skip(d, isActive)
       PROVE  Goal
  <2>1. at \in 1..Len(Order) /\ job \in {"pass", "emergency"} /\ phase = "visit"
    BY <1>14, VisitIs DEF Skip
  <2>2. /\ dangerous' = dangerous \/ dangerous' = Append(dangerous, d)
        /\ \/ suggested' = suggested
           \/ job = "pass" /\ suggested' \in {"allowed", "idle"}
           \/ job = "emergency" /\ suggested' = "again"
    BY <1>14, <2>1 DEF Skip, Passes
  <2>3. /\ at' = at + 1 /\ UNCHANGED <<job, m_lDocCache, phase, copy>>
    BY <1>14 DEF Skip
  <2> QED BY <1>7, <2>1, <2>2, <2>3 DEF PlaceInv, Storing
<1>15. ASSUME NEW d \in Docs, NEW isActive \in BOOLEAN, NEW userAutoSave \in BOOLEAN, BeginSave(d, isActive, userAutoSave)
       PROVE  Goal
  <2>1. at \in 1..Len(Order) /\ job \in {"pass", "emergency"} /\ d = Order[at]
    BY <1>15, VisitIs DEF BeginSave
  <2>2. copy' = [doc |-> d, info |-> entry[d], new |-> NewTemp(d)] /\ NewTemp(d) \in Temps
    BY <1>15, NewTempExists DEF BeginSave
  <2>3. /\ UNCHANGED <<job, at, suggested, m_lDocCache, dangerous>> /\ (userAutoSave => job = "pass")
        /\ phase' = IF userAutoSave THEN "original" ELSE "store"
    BY <1>15 DEF BeginSave
  <2>4. copy'.doc = Order[at] /\ copy'.doc \in Docs /\ copy'.new \in Names
    BY <2>1, <2>2 DEF Names
  <2>5. phase' \in {"original", "store", "remove"} /\ (phase' = "original" => job = "pass")
    BY <2>3
  <2>6. job \in Pass /\ job # "recovery"
    BY <2>1
  <2> QED BY <1>8, <2>1, <2>3, <2>4, <2>5, <2>6
<1>16. CASE StoreOriginal \/ StoreRecovery
  <2>1. /\ at \in 1..Len(Order) /\ job \in {"pass", "emergency"} /\ copy.doc = Order[at] /\ copy.doc \in Docs
        /\ phase \in {"original", "store"} /\ copy.new \in Names /\ copy.info.old \in Names
    BY <1>16, StoringIs DEF StoreOriginal, StoreRecovery, Storing, PlaceInv, PassTypes, CopyInv, Entry
  <2>2. UNCHANGED <<job, at, suggested, m_lDocCache, dangerous>> /\ phase' \in {"store", "remove"}
    BY <1>16 DEF StoreOriginal, StoreRecovery
  <2>3. copy'.doc = copy.doc /\ copy'.new \in Names
    <3>1. StoreOriginal => copy' = copy
      BY DEF StoreOriginal
    <3> QED BY <1>16, <2>1, <3>1, StoreRecoveryEffect
  <2> QED BY <1>8, <2>1, <2>2, <2>3
<1>17. CASE RemoveOld
  <2>1. at \in 1..Len(Order) /\ job \in {"pass", "emergency"}
    BY <1>17, StoringIs DEF RemoveOld, Storing, PlaceInv
  <2> QED BY <1>7, <1>17, <2>1 DEF RemoveOld
<1>18. CASE Loads \/ FailsToLoad
  <2>1. at \in 1..Len(Order) /\ job = "recovery" /\ copy = NoCopy
    BY <1>18, ReadingIs DEF Loads, FailsToLoad, Reading, Storing, PlaceInv
  <2>2. /\ at' = at + 1 /\ UNCHANGED <<job, m_lDocCache, copy, dangerous>> /\ phase' = "visit"
        /\ suggested' = suggested \/ suggested' = "again"
    BY <1>18 DEF Loads, FailsToLoad
  <2> QED BY <1>7, <2>1, <2>2
<1>19. CASE EmergencyTurns \/ RecoveryTurns \/ EmergencySave \/ Restart
  <2>1. \E j \in Pass : StartPass(j)
    BY <1>19 DEF EmergencyTurns, RecoveryTurns, EmergencySave, Restart
  <2> QED BY <1>5, <2>1
<1>20. CASE PassEnds \/ EmergencyEnds \/ RecoveryEnds
  <2>1. EndPass("none") \/ EndPass("saved")
    BY <1>20 DEF PassEnds, EmergencyEnds, RecoveryEnds
  <2> QED BY <1>6, <2>1
<1>21. CASE Breaks \/ EmergencyBreaks \/ Crash
  <2>1. GoesDown \/ EndPass("none")
    BY <1>21 DEF Breaks, EmergencyBreaks, Crash
  <2>2. GoesDown => EndPass("down") /\ m_lDocCache' = <<>> /\ open' = {}
    BY DownEffect DEF GoesDown
  <2> QED BY <1>6, <2>1, <2>2
<1>22. CASE UNCHANGED vars
  BY <1>4, <1>22 DEF vars, docVars
<1> QED
  BY <1>9, <1>10, <1>11, <1>12, <1>13, <1>14, <1>15, <1>16, <1>17, <1>18, <1>19, <1>20, <1>21, <1>22
     DEF Next, User, Steps, Faults, Done

-----------------------------------------------------------------------------
(* What a step leaves alone                                                *)

Unmoved(c) ==
    /\ c \in Cached' <=> c \in Cached
    /\ c \in open' <=> c \in open
    /\ c \in modified' <=> c \in modified
    /\ c \in unsaved' <=> c \in unsaved
    /\ entry'[c] = entry[c] /\ config'[c] = config[c] /\ files'[c] = files[c]
    /\ version'[c] = version[c] /\ original'[c] = original[c]

(* A step of the user or of a pass concerns one document. *)
UserStep(d) ==
    Open(d) \/ Modify(d) \/ SaveBegins(d) \/ SaveEnds(d) \/ SaveFails(d) \/ Close(d) \/ CleanUpEntry(d)
PassStep(d) ==
    \/ SkipEntry(d) \/ BeginLoad(d) \/ RefusesToSave(d)
    \/ \E isActive \in BOOLEAN :
          Skip(d, isActive) \/ \E userAutoSave \in BOOLEAN : BeginSave(d, isActive, userAutoSave)
StoreStep(d) == d = copy.doc /\ (StoreOriginal \/ StoreRecovery \/ RemoveOld)
LoadStep(d) == d = Loading /\ (Loads \/ FailsToLoad)

LEMMA UserStepLeaves ==
    ASSUME IInv, NEW d \in Docs, UserStep(d), NEW c \in Docs \ {d}
    PROVE  Unmoved(c)
<1> USE DEF IInv, Types, Inv
<1>1. CASE Open(d)
  <2>1. Only(d) /\ (Cached' = Cached \/ Cached' = Cached \union {d})
    BY <1>1, OpenEffect DEF Cached
  <2> QED BY <1>1, <2>1 DEF Open, Only, Unmoved, DocTypes
<1>2. CASE Modify(d)
  <2>1. entry'[c] = entry[c]
    BY <1>2, MarkEffect DEF Modify
  <2> QED BY <1>2, <2>1 DEF Modify, Unmoved, DocTypes, Cached
<1>3. CASE SaveBegins(d) \/ SaveFails(d)
  <2>1. \E b \in BOOLEAN : entry' = IF d \in Cached THEN [entry EXCEPT ![d].used = b] ELSE entry
    BY <1>3 DEF SaveBegins, SaveFails
  <2>2. entry'[c] = entry[c]
    BY <2>1, UsedEffect
  <2> QED BY <1>3, <2>2 DEF SaveBegins, SaveFails, Unmoved, Cached
<1>4. CASE SaveEnds(d)
  <2>1. CASE d \in Cached
    <3>1. Listening
      BY <1>4 DEF SaveEnds, UserTurn, Listening
    <3>2. Only(d)
      BY <1>4, <2>1, <3>1, SavedEffect DEF SaveEnds
    <3> QED BY <1>4, <3>2 DEF SaveEnds, Stored, Unmoved, Only, Cached, DocTypes
  <2>2. CASE d \notin Cached
    BY <1>4, <2>2 DEF SaveEnds, Stored, Unmoved, Cached, DocTypes
  <2> QED BY <2>1, <2>2
<1>5. CASE Close(d)
  <2>1. CASE d \in Cached /\ ~Locked
    <3>1. Only(d) /\ Cached' = Cached \ {d}
      BY <1>5, <2>1, DroppedEffect DEF Close
    <3> QED BY <1>5, <3>1 DEF Close, Closed, Unmoved, Only
  <2>2. CASE ~(d \in Cached /\ ~Locked)
    BY <1>5, <2>2 DEF Close, Closed, Unmoved, Cached
  <2> QED BY <2>1, <2>2
<1>6. CASE CleanUpEntry(d)
  <2>1. Only(d) /\ Cached' = Cached \ {d}
    BY <1>6, DroppedEffect DEF CleanUpEntry
  <2> QED BY <1>6, <2>1 DEF CleanUpEntry, docVars, Unmoved, Only
<1> QED
  BY <1>1, <1>2, <1>3, <1>4, <1>5, <1>6 DEF UserStep

LEMMA PassStepLeaves ==
    ASSUME IInv, NEW d \in Docs, PassStep(d), NEW c \in Docs \ {d}
    PROVE  Unmoved(c)
<1> USE DEF IInv, Types, Inv
<1>1. CASE SkipEntry(d)
  <2>1. entry'[c] = entry[c]
    BY <1>1, SkipEntryEffect
  <2> QED BY <1>1, <2>1 DEF SkipEntry, docVars, Unmoved, Cached
<1>2. CASE BeginLoad(d)
  <2>1. Only(d)
    BY <1>2, BeginLoadEffect
  <2> QED BY <1>2, <2>1 DEF BeginLoad, docVars, Unmoved, Cached, Only
<1>3. CASE RefusesToSave(d)
  <2>1. entry'[c] = entry[c]
    BY <1>3, RefusesEffect
  <2> QED BY <1>3, <2>1 DEF RefusesToSave, docVars, Unmoved, Cached
<1>4. ASSUME NEW isActive \in BOOLEAN, Skip(d, isActive)
      PROVE  Unmoved(c)
  <2>1. entry'[c] = entry[c]
    BY <1>4, SkipEffect DEF Skip
  <2> QED BY <1>4, <2>1 DEF Skip, docVars, Unmoved, Cached
<1>5. ASSUME NEW isActive \in BOOLEAN, NEW userAutoSave \in BOOLEAN, BeginSave(d, isActive, userAutoSave)
      PROVE  Unmoved(c)
  <2>1. Only(d)
    BY <1>5, BeginSaveEffect
  <2> QED BY <1>5, <2>1 DEF BeginSave, docVars, Unmoved, Cached, Only
<1> QED
  BY <1>1, <1>2, <1>3, <1>4, <1>5 DEF PassStep

LEMMA StoreStepLeaves ==
    ASSUME IInv, NEW d, StoreStep(d), NEW c \in Docs \ {d}
    PROVE  Unmoved(c)
<1> USE DEF IInv, Types, Inv
<1>1. CASE StoreOriginal
  <2>1. CASE UNCHANGED <<original, modified, unsaved, entry, config, files>>
    BY <1>1, <2>1 DEF StoreOriginal, Unmoved, Cached
  <2>2. CASE /\ Stored(d) /\ unsaved' = unsaved \ {d} /\ MarkAsSaved(d)
             /\ entry' = [WithModified(entry, d, FALSE) EXCEPT ![d].used = FALSE]
    <3>1. d \in Docs /\ d \in Cached /\ Listening
      BY <1>1, StoringIs DEF StoreOriginal, StoreStep, Storing, PlaceInv, Listening
    <3>2. Only(d)
      BY <2>2, <3>1, SavedEffect
    <3> QED BY <1>1, <2>2, <3>1, <3>2 DEF StoreOriginal, Stored, Unmoved, Only, Cached, DocTypes
  <2> QED BY <1>1, <2>1, <2>2 DEF StoreOriginal, StoreStep
<1>2. CASE StoreRecovery
  <2>1. Only(d)
    BY <1>2, StoreRecoveryEffect DEF StoreStep
  <2>2. c \in unsaved' <=> c \in unsaved
    BY <1>2 DEF StoreRecovery, StoreStep
  <2> QED BY <1>2, <2>1, <2>2 DEF StoreRecovery, Unmoved, Only, Cached
<1>3. CASE RemoveOld
  <2>1. Only(d)
    BY <1>3, RemoveOldEffect DEF StoreStep
  <2> QED BY <1>3, <2>1 DEF RemoveOld, docVars, Unmoved, Only, Cached
<1> QED
  BY <1>1, <1>2, <1>3 DEF StoreStep

LEMMA LoadStepLeaves ==
    ASSUME IInv, NEW d, LoadStep(d), NEW c \in Docs \ {d}
    PROVE  Unmoved(c)
<1> USE DEF IInv, Types, Inv
<1>1. d \in Docs /\ d = Loading /\ Only(d)
  BY ReadingIs, LoadsEffect, FailsEffect DEF LoadStep, Loads, FailsToLoad, Reading
<1>2. CASE Loads
  <2> DEFINE mark == IF "MODIFIED" \in entry[d].state THEN {d} ELSE {}
  <2>1. /\ open' = open \union {d} /\ version' = [version EXCEPT ![d] = Content(d)] /\ original' = original
        /\ modified' = modified \union mark /\ unsaved' = unsaved \union mark /\ m_lDocCache' = m_lDocCache
    BY <1>1, <1>2 DEF Loads
  <2> QED BY <1>1, <2>1 DEF Unmoved, Only, Cached
<1>3. CASE FailsToLoad
  BY <1>1, <1>3 DEF FailsToLoad, docVars, Unmoved, Only, Cached
<1> QED
  BY <1>2, <1>3 DEF LoadStep

(* The steps that concern no document. *)
TurnStep ==
    \/ \E on \in BOOLEAN : ChangeAutoSave(on)
    \/ \E captured, idle \in BOOLEAN : TimerExpires(captured, idle)
    \/ EmergencyTurns \/ RecoveryTurns \/ UNCHANGED vars

LEMMA TurnLeaves ==
    ASSUME TurnStep
    PROVE  UNCHANGED <<docVars, m_lDocCache, entry, config, files>> /\ \A c \in Docs : Unmoved(c)
<1>1. UNCHANGED <<docVars, m_lDocCache, entry, config, files>>
  <2>1. ASSUME NEW on \in BOOLEAN, ChangeAutoSave(on)
        PROVE  UNCHANGED <<docVars, m_lDocCache, entry, config, files>>
    BY <2>1 DEF ChangeAutoSave
  <2>2. ASSUME NEW captured \in BOOLEAN, NEW idle \in BOOLEAN, TimerExpires(captured, idle)
        PROVE  UNCHANGED <<docVars, m_lDocCache, entry, config, files>>
    BY <2>2 DEF TimerExpires
  <2> QED BY <2>1, <2>2 DEF TurnStep, EmergencyTurns, RecoveryTurns, vars
<1> QED
  BY <1>1 DEF docVars, Unmoved, Cached

EndStep == PassEnds \/ EmergencyEnds \/ RecoveryEnds
DownStep == Breaks \/ EmergencyBreaks \/ Crash

LEMMA Kinds ==
    ASSUME [Next]_vars
    PROVE  \/ \E d \in Docs : UserStep(d) \/ PassStep(d)
           \/ StoreStep(copy.doc) \/ LoadStep(Loading) \/ TurnStep \/ EndStep
           \/ DownStep \/ EmergencySave \/ Restart
<1>1. ASSUME User
      PROVE  TurnStep \/ \E d \in Docs : UserStep(d)
  BY <1>1 DEF User, UserStep, TurnStep
<1>2. ASSUME Steps
      PROVE  \/ \E d \in Docs : PassStep(d)
             \/ StoreStep(copy.doc) \/ LoadStep(Loading) \/ TurnStep \/ EndStep
  BY <1>2 DEF Steps, PassStep, StoreStep, LoadStep, TurnStep, EndStep
<1>3. ASSUME Faults
      PROVE  \/ \E d \in Docs : PassStep(d)
             \/ DownStep \/ EmergencySave \/ Restart
  BY <1>3 DEF Faults, PassStep, DownStep
<1>4. ASSUME \/ \E captured, idle \in BOOLEAN : TimerExpires(captured, idle)
             \/ Done \/ UNCHANGED vars
      PROVE  TurnStep
  BY <1>4 DEF Done, TurnStep
<1> QED
  BY <1>1, <1>2, <1>3, <1>4 DEF Next

-----------------------------------------------------------------------------
(* The cache is kept                                                       *)

LEMMA JobStays ==
    ASSUME NEW d, UserStep(d) \/ PassStep(d) \/ StoreStep(d) \/ LoadStep(d)
    PROVE  job' = job
<1>1. CASE UserStep(d)
  BY <1>1 DEF UserStep, Open, Modify, SaveBegins, SaveEnds, SaveFails, Close, CleanUpEntry, passVars
<1>2. CASE PassStep(d)
  BY <1>2 DEF PassStep, SkipEntry, BeginLoad, RefusesToSave, Skip, BeginSave
<1>3. CASE StoreStep(d) \/ LoadStep(d)
  BY <1>3 DEF StoreStep, LoadStep, StoreOriginal, StoreRecovery, RemoveOld, Loads, FailsToLoad
<1> QED
  BY <1>1, <1>2, <1>3

LEMMA StaysUp ==
    ASSUME IInv, NEW c \in Docs, Unmoved(c), job' = job \/ TurnStep
    PROVE  Known(c)'
<1>1. job' # "down" => job # "down"
  BY DEF TurnStep, ChangeAutoSave, TimerExpires, StartPass, passVars, EmergencyTurns, RecoveryTurns, AtEnd, vars
<1> QED
  BY <1>1 DEF IInv, Inv, CacheInv, Known, Unmoved

(* What may be done to a document's entry and leaves it known. *)
LEMMA KnownAfter ==
    ASSUME IInv, NEW d \in Docs, job' = job, Cached' = Cached, d \in open' \intersect Cached' => d \in open,
           d \notin Cached => entry'[d] = entry[d] /\ config'[d] = config[d],
           entry'[d].loaded = entry[d].loaded,
           entry[d].loaded => entry'[d].state \subseteq entry[d].state \union {"HANDLED", "POSTPONED", "MODIFIED", "INCOMPLETE"}
    PROVE  Known(d)'
  BY DEF IInv, Inv, CacheInv, Known

LEMMA KnownUser ==
    ASSUME IInv, NEW d \in Docs, UserStep(d)
    PROVE  Known(d)'
<1> USE DEF IInv, Types, Inv
<1>1. job' = job
  BY JobStays
<1>2. CASE Open(d)
  <2>1. CASE Locked
    <3>1. UNCHANGED <<m_lDocCache, entry, config>> /\ d \notin Cached
      BY <1>2, <2>1 DEF Open
    <3>2. Cached' = Cached
      BY <3>1 DEF Cached
    <3> QED BY <1>1, <3>1, <3>2, KnownAfter
  <2>2. CASE ~Locked
    <3>1. d \in Cached' /\ entry'[d] = NewEntry(d)
      BY <1>2, <2>2, OpenEffect
    <3>2. entry'[d].loaded /\ entry'[d].state \subseteq {"MODIFIED"}
      BY <3>1, NewEntryParts DEF Parts
    <3> QED BY <3>1, <3>2 DEF Known
  <2> QED BY <2>1, <2>2
<1>3. CASE Modify(d)
  <2>1. Cached' = Cached /\ open' = open /\ config' = config /\ entry' = WithModified(entry, d, TRUE)
    BY <1>3 DEF Modify, Cached
  <2>2. /\ entry'[d].loaded = entry[d].loaded /\ entry'[d].state \subseteq entry[d].state \union {"MODIFIED"}
    BY <2>1, MarkEffect DEF Parts
  <2>3. d \notin Cached => entry' = entry
    BY <2>1 DEF WithModified
  <2> QED BY <1>1, <2>1, <2>2, <2>3, KnownAfter
<1>4. CASE SaveBegins(d) \/ SaveFails(d)
  <2>1. \E b \in BOOLEAN : entry' = IF d \in Cached THEN [entry EXCEPT ![d].used = b] ELSE entry
    BY <1>4 DEF SaveBegins, SaveFails
  <2>2. entry'[d].loaded = entry[d].loaded /\ entry'[d].state = entry[d].state
    BY <2>1, UsedEffect DEF Parts
  <2>3. Cached' = Cached /\ open' = open /\ config' = config
    BY <1>4 DEF SaveBegins, SaveFails, Cached
  <2> QED BY <1>1, <2>1, <2>2, <2>3, KnownAfter
<1>5. CASE SaveEnds(d)
  <2>1. Cached' = Cached /\ open' = open
    BY <1>5 DEF SaveEnds, Cached
  <2>2. CASE d \in Cached
    <3>1. Listening
      BY <1>5 DEF SaveEnds, UserTurn, Listening
    <3>2. entry'[d].loaded = entry[d].loaded /\ entry'[d].state \subseteq entry[d].state
      BY <1>5, <2>2, <3>1, SavedEffect DEF SaveEnds, Parts
    <3> QED BY <1>1, <2>1, <2>2, <3>2, KnownAfter
  <2>3. CASE d \notin Cached
    <3>1. UNCHANGED <<entry, config>>
      BY <1>5, <2>3 DEF SaveEnds
    <3> QED BY <1>1, <2>1, <3>1, KnownAfter
  <2> QED BY <2>2, <2>3
<1>6. CASE Close(d)
  <2>1. CASE d \in Cached /\ ~Locked
    <3>1. entry'[d] = NoEntry /\ config'[d] = NoItem /\ d \notin Cached'
      BY <1>6, <2>1, DroppedEffect DEF Close
    <3> QED BY <3>1 DEF Known, NoEntry
  <2>2. CASE ~(d \in Cached /\ ~Locked)
    <3>1. UNCHANGED <<m_lDocCache, entry, config>> /\ d \notin open'
      BY <1>6, <2>2 DEF Close, Closed
    <3>2. Cached' = Cached
      BY <3>1 DEF Cached
    <3> QED BY <1>1, <3>1, <3>2, KnownAfter
  <2> QED BY <2>1, <2>2
<1>7. CASE CleanUpEntry(d)
  <2>1. entry'[d] = NoEntry /\ config'[d] = NoItem /\ d \notin Cached'
    BY <1>7, DroppedEffect DEF CleanUpEntry
  <2> QED BY <2>1 DEF Known, NoEntry
<1> QED
  BY <1>2, <1>3, <1>4, <1>5, <1>6, <1>7 DEF UserStep

LEMMA KnownPass ==
    ASSUME IInv, NEW d \in Docs, PassStep(d)
    PROVE  Known(d)'
<1> USE DEF IInv, Types, Inv
<1>1. job' = job
  BY JobStays
<1>2. CASE SkipEntry(d)
  <2>1. /\ entry'[d].loaded = entry[d].loaded /\ (d \notin Cached => entry'[d] = entry[d])
        /\ entry'[d] # entry[d] => OriginalWasTried(d) /\ entry'[d].loaded = entry[d].loaded
    <3>1. d \in Cached
      BY <1>2, RecoveryIs DEF SkipEntry
    <3> QED BY <1>2, <3>1, SkipEntryEffect DEF Parts
  <2>2. entry'[d] # entry[d] => ~entry[d].loaded
    BY <2>1 DEF CacheInv, Known, OriginalWasTried
  <2>3. Cached' = Cached /\ open' = open /\ config' = config
    BY <1>2 DEF SkipEntry, Cached, docVars
  <2> QED BY <1>1, <2>1, <2>2, <2>3, KnownAfter
<1>3. CASE BeginLoad(d)
  <2>1. job = "recovery" /\ d \in Cached /\ ~DoneWith(entry[d].state)
    BY <1>3, RecoveryIs, BeginLoadEffect DEF BeginLoad
  <2>2. ~entry[d].loaded
    BY <2>1 DEF ReadInv, DoneWith
  <2>3. entry'[d].loaded = entry[d].loaded
    BY <1>3, BeginLoadEffect DEF Parts
  <2>4. Cached' = Cached /\ open' = open
    BY <1>3 DEF BeginLoad, Cached, docVars
  <2> QED BY <1>1, <2>1, <2>2, <2>3, <2>4, KnownAfter
<1>4. CASE RefusesToSave(d)
  <2>1. entry'[d].loaded = entry[d].loaded /\ entry'[d].state \subseteq entry[d].state \union {"HANDLED"} /\ entry[d].loaded
    BY <1>4, RefusesEffect DEF Parts, RefusesToSave, Saves, Going
  <2>2. Cached' = Cached /\ open' = open /\ config' = config /\ d \in Cached
    BY <1>4, <2>1, LoadedCached DEF RefusesToSave, Cached, docVars
  <2> QED BY <1>1, <2>1, <2>2, KnownAfter
<1>5. ASSUME NEW isActive \in BOOLEAN, Skip(d, isActive)
      PROVE  Known(d)'
  <2>1. entry'[d].loaded = entry[d].loaded /\ entry'[d].state \subseteq entry[d].state \union {"POSTPONED"}
    BY <1>5, SkipEffect DEF Skip, Parts
  <2>2. Cached' = Cached /\ open' = open /\ config' = config /\ d \in Cached
    <3>1. d \in Cached
      BY <1>5, VisitIs DEF Skip, Passes
    <3> QED BY <1>5, <3>1 DEF Skip, Cached, docVars
  <2> QED BY <1>1, <2>1, <2>2, KnownAfter
<1>6. ASSUME NEW isActive \in BOOLEAN, NEW userAutoSave \in BOOLEAN, BeginSave(d, isActive, userAutoSave)
      PROVE  Known(d)'
  <2>1. entry' = entry /\ Cached' = Cached /\ open' = open
    BY <1>6 DEF BeginSave, Cached, docVars
  <2>2. d \in Cached
    BY <1>6, NewTempExists
  <2> QED BY <1>1, <2>1, <2>2, KnownAfter
<1> QED
  BY <1>2, <1>3, <1>4, <1>5, <1>6 DEF PassStep

LEMMA KnownStoring ==
    ASSUME IInv, NEW d, StoreStep(d) \/ LoadStep(d)
    PROVE  d \in Docs /\ Known(d)'
<1> USE DEF IInv, Types, Inv
<1>1. job' = job
  BY JobStays
<1>2. CASE StoreStep(d)
  <2>1. d = copy.doc /\ d \in Docs /\ d \in Cached /\ Storing
    BY <1>2, StoringIs DEF StoreStep, StoreOriginal, StoreRecovery, RemoveOld, Storing
  <2>2. CASE StoreOriginal
    <3>1. Cached' = Cached /\ open' = open
      BY <2>2 DEF StoreOriginal, Cached
    <3>2. CASE entry' = entry
      BY <1>1, <2>1, <3>1, <3>2, KnownAfter
    <3>3. CASE MarkAsSaved(d) /\ entry' = [WithModified(entry, d, FALSE) EXCEPT ![d].used = FALSE]
      <4>1. Listening
        BY <2>2 DEF StoreOriginal, PlaceInv, Listening
      <4>2. Parts(entry'[d], entry[d].state \ {"MODIFIED"}, FALSE, entry[d].old, entry[d].org, entry[d].loaded)
        BY <2>1, <3>3, <4>1, SavedEffect
      <4>3. entry'[d].loaded = entry[d].loaded /\ entry'[d].state \subseteq entry[d].state
        BY <4>2 DEF Parts
      <4> QED BY <1>1, <2>1, <3>1, <4>3, KnownAfter
    <3> QED BY <2>1, <2>2, <3>2, <3>3 DEF StoreOriginal
  <2>3. CASE StoreRecovery
    <3>1. entry' = entry /\ Cached' = Cached /\ open' = open
      BY <2>3 DEF StoreRecovery, Cached
    <3> QED BY <1>1, <2>1, <3>1, KnownAfter
  <2>4. CASE RemoveOld
    <3>1. entry'[d] = copy.info /\ Cached' = Cached
      BY <2>1, <2>4, RemoveOldEffect DEF RemoveOld, Cached
    <3> QED BY <2>1, <3>1 DEF Known, CopyInv
  <2> QED BY <1>2, <2>1, <2>2, <2>3, <2>4 DEF StoreStep
<1>3. CASE LoadStep(d)
  <2>1. d = Loading /\ d \in Docs /\ d \in Cached /\ job = "recovery" /\ ~DoneWith(entry[d].state) /\ Cached' = Cached
    BY <1>3, ReadingIs DEF LoadStep, Loads, FailsToLoad, Reading, ReadInv, Cached
  <2>2. CASE Loads
    <3>1. entry'[d].loaded /\ entry'[d].state = (entry[d].state \ {"TRY_LOAD_BACKUP", "TRY_LOAD_ORIGINAL"}) \union {"HANDLED"}
      BY <2>1, <2>2, LoadsEffect DEF Parts
    <3>2. entry'[d].state \intersect {"DAMAGED", "TRY_LOAD_BACKUP", "TRY_LOAD_ORIGINAL"} = {}
      BY <2>1, <3>1 DEF DoneWith
    <3> QED BY <2>1, <3>1, <3>2 DEF Known
  <2>3. CASE FailsToLoad
    <3>1. ~entry[d].loaded
      BY <2>1 DEF ReadInv, DoneWith
    <3>2. entry'[d].loaded = entry[d].loaded /\ open' = open
      BY <2>1, <2>3, FailsEffect DEF Parts, FailsToLoad, docVars
    <3> QED BY <1>1, <2>1, <3>1, <3>2, KnownAfter
  <2> QED BY <1>3, <2>1, <2>2, <2>3 DEF LoadStep
<1> QED
  BY <1>2, <1>3

LEMMA CacheKept ==
    ASSUME IInv, [Next]_vars
    PROVE  CacheInv'
<1> USE DEF IInv, Types, Inv
<1>1. ASSUME NEW c \in Docs
      PROVE  Known(c)'
  <2>1. ASSUME NEW d \in Docs, UserStep(d)
        PROVE  Known(c)'
    BY <2>1, JobStays, UserStepLeaves, StaysUp, KnownUser
  <2>2. ASSUME NEW d \in Docs, PassStep(d)
        PROVE  Known(c)'
    BY <2>2, JobStays, PassStepLeaves, StaysUp, KnownPass
  <2>3. CASE StoreStep(copy.doc)
    BY <2>3, JobStays, StoreStepLeaves, StaysUp, KnownStoring
  <2>4. CASE LoadStep(Loading)
    BY <2>4, JobStays, LoadStepLeaves, StaysUp, KnownStoring
  <2>5. CASE TurnStep
    BY <2>5, TurnLeaves, StaysUp
  <2>6. CASE EndStep
    <3>1. /\ UNCHANGED <<entry, config>> \/ (ResetHandleStates /\ UNCHANGED files)
          /\ Cached' = Cached /\ open' = open /\ job # "down"
      BY <2>6 DEF EndStep, PassEnds, EmergencyEnds, RecoveryEnds, AtEnd, Cached, docVars
    <3>2. CASE UNCHANGED <<entry, config>>
      BY <3>1, <3>2 DEF CacheInv, Known
    <3>3. CASE ResetHandleStates /\ UNCHANGED files
      <4>1. /\ c \notin Cached => entry'[c].state = entry[c].state /\ entry'[c].used = entry[c].used
                    /\ entry'[c].old = entry[c].old /\ entry'[c].org = entry[c].org /\ config'[c] = config[c]
            /\ entry'[c].loaded = entry[c].loaded /\ entry'[c].state \subseteq entry[c].state
            /\ entry'[c] \in Entry /\ entry[c] \in Entry
        BY <3>3, ResetEffect DEF Parts, EntryTypes
      <4>2. c \notin Cached => entry'[c] = entry[c]
        BY <4>1 DEF Entry
      <4> QED BY <3>1, <4>1, <4>2 DEF CacheInv, Known
    <3> QED BY <3>1, <3>2, <3>3
  <2>7. CASE DownStep
    <3>1. CASE GoesDown
      <4>1. entry'[c] = NoEntry /\ open' = {} /\ job' = "down"
        BY <3>1, DownEffect
      <4> QED BY <4>1 DEF Known, NoEntry
    <3>2. CASE ~GoesDown
      <4>1. UNCHANGED <<open, m_lDocCache, entry, config>> /\ job # "down"
        BY <2>7, <3>2 DEF DownStep, Breaks, EmergencyBreaks, Crash, docVars, PlaceInv, Visits
      <4> QED BY <4>1 DEF CacheInv, Known, Cached
    <3> QED BY <3>1, <3>2
  <2>8. CASE EmergencySave
    <3>1. /\ Cached' = Cached \union open /\ entry'[c] = IF c \in Unknown THEN NewEntry(c) ELSE entry[c]
          /\ config'[c] = IF c \in Cached \union Unknown THEN Item(entry'[c]) ELSE config[c]
      BY <2>8, EmergencyEffect
    <3>2. open' = open /\ job # "down"
      BY <2>8 DEF EmergencySave, CrashIsCaught, docVars
    <3>3. CASE c \in Unknown
      <4>1. entry'[c].loaded /\ entry'[c].state \subseteq {"MODIFIED"} /\ c \in Cached'
        BY <3>1, <3>3, NewEntryParts DEF Parts, Unknown
      <4> QED BY <4>1 DEF Known
    <3>4. CASE c \notin Unknown
      BY <3>1, <3>2, <3>4 DEF CacheInv, Known, Unknown
    <3> QED BY <3>3, <3>4
  <2>9. CASE Restart
    <3>1. /\ Cached' = {d \in Docs : config[d].present} /\ config' = config /\ config[c] \in Items
          /\ config[c].present => entry'[c].loaded = FALSE
          /\ ~config[c].present => entry'[c] = NoEntry
      BY <2>9, RestartEffect DEF Parts, DiskTypes
    <3>2. open = {} /\ open' = open
      BY <2>9 DEF Restart, docVars, PlaceInv
    <3> QED BY <3>1, <3>2 DEF Known, Items, NoEntry
  <2> QED BY <2>1, <2>2, <2>3, <2>4, <2>5, <2>6, <2>7, <2>8, <2>9, Kinds
<1> QED
  BY <1>1, ListsKept DEF CacheInv, Distinct

LEMMA OwedType ==
    ASSUME DocTypes, DiskTypes
    PROVE  \A d \in Docs : Owed(d) \in Versions /\ Recoverable(d) \in Versions /\ Backup(d) \in Versions
<1>1. ASSUME NEW d \in Docs
      PROVE  Owed(d) \in Versions /\ Recoverable(d) \in Versions /\ Backup(d) \in Versions
  <2>1. config[d].temp \in Names /\ original[d] \in Versions /\ None \in Versions
    BY Contents DEF DiskTypes, Items
  <2>2. Backup(d) \in Versions
    BY <2>1 DEF Backup, Names, DiskTypes
  <2>3. Recoverable(d) \in Versions
    BY <2>1, <2>2 DEF Recoverable
  <2> QED BY <2>1, <2>2, <2>3 DEF Owed
<1> QED
  BY <1>1

LEMMA OwedTypeNext ==
    ASSUME DocTypes, DocTypes', DiskTypes'
    PROVE  \A d \in Docs : Owed(d)' \in Versions
<1>1. ASSUME NEW d \in Docs
      PROVE  Owed(d)' \in Versions
  <2>1. config'[d].temp \in Names /\ original'[d] \in Versions /\ None \in Versions
    <3>1. config'[d] \in Items /\ original'[d] \in Versions
      BY DEF DiskTypes, DocTypes
    <3> QED BY <3>1, Contents DEF Items
  <2>2. Backup(d)' \in Versions
    BY <2>1 DEF Backup, Names, DiskTypes
  <2>3. Recoverable(d)' \in Versions
    BY <2>1, <2>2 DEF Recoverable
  <2> QED BY <2>1, <2>2, <2>3 DEF Owed
<1> QED
  BY <1>1

LEMMA DutyTypesKept ==
    ASSUME IInv, [Next]_vars
    PROVE  DutyTypes'
<1> USE DEF IInv, Types, Inv
<1>1. CASE UNCHANGED duty /\ UNCHANGED limits
  BY <1>1 DEF duty, limits, DutyTypes
<1>2. failures < scenario.maxFailures /\ failures' = failures + 1 /\ scenario' = scenario
        => failures' \in 0..scenario'.maxFailures /\ scenario' \in Scenarios
  <2>1. scenario \in Scenarios /\ scenario.maxFailures \in Nat /\ failures \in 0..scenario.maxFailures
    BY ScenarioAssumption DEF DutyTypes
  <2> QED BY <2>1
<1>3. crashes < scenario.maxCrashes /\ crashes' = crashes + 1 /\ scenario' = scenario
        => crashes' \in 0..scenario'.maxCrashes
  <2>1. scenario.maxCrashes \in Nat /\ crashes \in 0..scenario.maxCrashes
    BY ScenarioAssumption DEF DutyTypes
  <2> QED BY <2>1
<1>4. ASSUME NEW d \in Docs, UserStep(d)
      PROVE  DutyTypes'
  BY <1>1, <1>4 DEF UserStep, Open, Modify, SaveBegins, SaveEnds, SaveFails, Close, CleanUpEntry
<1>5. ASSUME NEW d \in Docs, PassStep(d)
      PROVE  DutyTypes'
  <2>1. CASE RefusesToSave(d)
    <3>1. /\ failures < scenario.maxFailures /\ failures' = failures + 1 /\ UNCHANGED <<due, scenario, crashes>>
          /\ skipped' = skipped \/ skipped' = skipped \union {d}
      BY <2>1 DEF RefusesToSave
    <3> QED BY <1>2, <1>5, <3>1 DEF DutyTypes
  <2>2. CASE ~RefusesToSave(d)
    BY <1>1, <1>5, <2>2 DEF PassStep, SkipEntry, BeginLoad, Skip, BeginSave
  <2> QED BY <2>1, <2>2
<1>6. CASE StoreStep(copy.doc)
  <2>1. CASE StoreRecovery
    <3>1. UNCHANGED <<duty, scenario, crashes>> /\ (failures' = failures \/ (failures < scenario.maxFailures /\ failures' = failures + 1))
      BY <2>1 DEF StoreRecovery
    <3> QED BY <1>2, <3>1 DEF duty, DutyTypes
  <2> QED BY <1>1, <1>6, <2>1 DEF StoreStep, StoreOriginal, RemoveOld
<1>7. CASE LoadStep(Loading)
  <2>1. CASE Loads
    BY <1>1, <2>1 DEF Loads
  <2>2. CASE FailsToLoad
    <3>1. Loading \in Docs /\ original[Loading] \in Versions /\ None \in Versions
      BY <2>2, ReadingIs, Contents DEF FailsToLoad, Reading
    <3>2. due' = due \/ (\E v \in Versions : due' = [due EXCEPT ![Loading] = v])
      BY <2>2, <3>1 DEF FailsToLoad
    <3>3. /\ UNCHANGED <<skipped, scenario, crashes>>
          /\ failures' = failures \/ (failures < scenario.maxFailures /\ failures' = failures + 1)
      BY <2>2 DEF FailsToLoad
    <3> QED BY <1>2, <3>1, <3>2, <3>3 DEF DutyTypes
  <2> QED BY <1>7, <2>1, <2>2 DEF LoadStep
<1>8. CASE TurnStep
  <2>1. UNCHANGED duty /\ UNCHANGED limits
    BY <1>8 DEF TurnStep, ChangeAutoSave, TimerExpires, EmergencyTurns, RecoveryTurns, vars
  <2> QED BY <1>1, <2>1
<1>9. CASE EndStep
  <2>1. UNCHANGED limits /\ UNCHANGED skipped /\ (due' = due \/ due' = [d \in Docs |-> None])
    BY <1>9 DEF EndStep, PassEnds, EmergencyEnds, RecoveryEnds, duty
  <2> QED BY <2>1, Contents DEF limits, DutyTypes
<1>10. CASE DownStep
  <2>1. due' = due \/ due' = [d \in Docs |-> Owed(d)] \/ due' = [d \in Docs |-> Owed(d)']
    BY <1>10 DEF DownStep, Breaks, EmergencyBreaks, Crash
  <2>2. due' \in [Docs -> Versions]
    BY <2>1, OwedType, OwedTypeNext, DocTypesKept, EntryTypesKept DEF DutyTypes
  <2>3. scenario' = scenario /\ (skipped' = skipped \/ skipped' = {})
    BY <1>10 DEF DownStep, Breaks, EmergencyBreaks, Crash
  <2>4. /\ failures' = failures \/ (failures < scenario.maxFailures /\ failures' = failures + 1)
        /\ crashes' = crashes \/ (crashes < scenario.maxCrashes /\ crashes' = crashes + 1)
    BY <1>10 DEF DownStep, Breaks, EmergencyBreaks, CrashIsCaught, Crash
  <2> QED BY <1>2, <1>3, <2>2, <2>3, <2>4 DEF DutyTypes
<1>11. CASE EmergencySave
  <2>1. UNCHANGED <<due, scenario, failures>> /\ crashes < scenario.maxCrashes /\ crashes' = crashes + 1
    BY <1>11 DEF EmergencySave, CrashIsCaught
  <2>2. skipped' = {d \in Docs : "HANDLED" \in entry[d].state} \union IF phase = "remove" THEN {copy.doc} ELSE {}
    BY <1>11 DEF EmergencySave
  <2>3. skipped' \subseteq Docs
    BY <2>2, StoringIs DEF Storing
  <2> QED BY <1>3, <2>1, <2>3 DEF DutyTypes
<1>12. CASE Restart
  BY <1>1, <1>12 DEF Restart
<1> QED
  BY <1>4, <1>5, <1>6, <1>7, <1>8, <1>9, <1>10, <1>11, <1>12, Kinds

LEMMA ShownKept ==
    ASSUME IInv, [Next]_vars
    PROVE  Shown'
<1> USE DEF IInv, Types, Inv
<1> SUFFICES ASSUME NEW c \in Docs, c \in Cached', entry'[c].loaded, c \in open'
             PROVE  config'[c].present
  BY CacheKept, ListsKept, DistinctLength, InCache DEF Shown
<1>1. CASE Unmoved(c)
  BY <1>1 DEF Unmoved, Shown
<1>2. CASE c \in Cached /\ c \in open /\ config' = config
  BY <1>2 DEF Shown, CacheInv, Known
<1>3. CASE \E e \in Entry : config'[c] = Item(e)
  BY <1>3, ItemParts
<1>4. CASE UserStep(c)
  <2>1. CASE Open(c)
    <3>1. ~Locked
      BY <2>1, <1>4 DEF Open, Cached
    <3> QED BY <2>1, <3>1, <1>3, OpenEffect, NewEntryParts DEF Parts
  <2>2. CASE Modify(c) \/ SaveBegins(c) \/ SaveFails(c)
    <3>1. open' = open /\ config' = config /\ Cached' = Cached
      BY <2>2 DEF Modify, SaveBegins, SaveFails, Cached
    <3> QED BY <1>2, <3>1
  <2>3. CASE SaveEnds(c)
    <3>1. c \in Cached /\ Listening
      BY <2>3 DEF SaveEnds, Cached, UserTurn, Listening
    <3> QED BY <2>3, <3>1, SavedEffect DEF SaveEnds
  <2>4. CASE Close(c)
    BY <2>4 DEF Close, Closed
  <2>5. CASE CleanUpEntry(c)
    BY <2>5, DroppedEffect DEF CleanUpEntry
  <2> QED BY <1>4, <2>1, <2>2, <2>3, <2>4, <2>5 DEF UserStep
<1>5. CASE PassStep(c)
  <2>1. CASE SkipEntry(c) \/ RefusesToSave(c) \/ \E isActive \in BOOLEAN : Skip(c, isActive)
    <3>1. open' = open /\ config' = config /\ Cached' = Cached
      BY <2>1 DEF SkipEntry, RefusesToSave, Skip, Cached, docVars
    <3> QED BY <1>2, <3>1
  <2>2. CASE BeginLoad(c)
    BY <1>3, <2>2, BeginLoadEffect DEF Parts
  <2>3. ASSUME NEW isActive \in BOOLEAN, NEW userAutoSave \in BOOLEAN, BeginSave(c, isActive, userAutoSave)
        PROVE  config'[c].present
    BY <1>3, <2>3, BeginSaveEffect DEF EntryTypes
  <2> QED BY <1>5, <2>1, <2>2, <2>3 DEF PassStep
<1>6. CASE StoreStep(c)
  <2>1. c = copy.doc /\ c \in Cached /\ c \in open /\ c \in Docs
    BY <1>6, StoringIs DEF StoreStep, StoreOriginal, StoreRecovery, RemoveOld, Storing
  <2>2. CASE StoreOriginal
    <3>1. Listening
      BY <2>2 DEF StoreOriginal, PlaceInv, Listening
    <3>2. config' = config \/ (MarkAsSaved(c) /\ entry' = [WithModified(entry, c, FALSE) EXCEPT ![c].used = FALSE])
      BY <2>1, <2>2 DEF StoreOriginal
    <3> QED BY <1>2, <2>1, <3>1, <3>2, SavedEffect
  <2>3. CASE StoreRecovery
    BY <1>3, <2>1, <2>3, StoreRecoveryEffect DEF Parts
  <2>4. CASE RemoveOld
    BY <1>2, <2>1, <2>4, RemoveOldEffect
  <2> QED BY <1>6, <2>2, <2>3, <2>4 DEF StoreStep
<1>7. CASE LoadStep(c)
  <2>1. c = Loading /\ job = "recovery" /\ ~DoneWith(entry[c].state)
    BY <1>7, ReadingIs DEF LoadStep, Loads, FailsToLoad, Reading, ReadInv
  <2>2. CASE Loads
    BY <1>3, <2>1, <2>2, LoadsEffect DEF Parts
  <2>3. CASE FailsToLoad
    <3>1. entry'[c].loaded = entry[c].loaded
      BY <2>1, <2>3, FailsEffect DEF Parts
    <3> QED BY <2>1, <3>1 DEF ReadInv, DoneWith
  <2> QED BY <1>7, <2>2, <2>3 DEF LoadStep
<1>8. CASE EndStep
  <2>1. /\ UNCHANGED <<entry, config>> \/ (ResetHandleStates /\ UNCHANGED files)
        /\ Cached' = Cached /\ open' = open
    BY <1>8 DEF EndStep, PassEnds, EmergencyEnds, RecoveryEnds, Cached, docVars
  <2>2. ResetHandleStates /\ UNCHANGED files => \E e \in Entry : config'[c] = Item(e)
    BY <2>1, ResetEffect DEF Parts
  <2> QED BY <1>2, <1>3, <2>1, <2>2
<1>9. CASE DownStep
  <2>1. ~GoesDown
    BY DownEffect
  <2>2. UNCHANGED <<open, m_lDocCache, config>>
    BY <1>9, <2>1 DEF DownStep, Breaks, EmergencyBreaks, Crash, docVars
  <2> QED BY <1>2, <2>2 DEF Cached
<1>10. CASE EmergencySave
  <2>1. config'[c] = Item(entry'[c]) /\ entry'[c] \in Entry
    BY <1>10, EmergencyEffect DEF Unknown, EntryTypes
  <2> QED BY <1>3, <2>1
<1>11. CASE Restart
  BY <1>11 DEF Restart, docVars, PlaceInv
<1> QED
  BY <1>1, <1>4, <1>5, <1>6, <1>7, <1>8, <1>9, <1>10, <1>11, Kinds, UserStepLeaves, PassStepLeaves,
     StoreStepLeaves, LoadStepLeaves, TurnLeaves

-----------------------------------------------------------------------------
(* The copy of an entry is kept                                            *)

(* While a document is stored the user does nothing to it. *)
LEMMA StoringAlone ==
    ASSUME IInv, NEW d \in Docs, UserStep(d), Storing
    PROVE  job = "pass" /\ phase = "store" /\ d # copy.doc /\ ~CleanUpEntry(d) /\ ~SaveBegins(d) /\ ~SaveFails(d)
<1> USE DEF IInv, Types, Inv
<1>1. job \in {"pass", "emergency"} /\ copy.doc \in open
  BY StoringIs DEF PlaceInv
<1>2. ~SaveBegins(d) /\ ~SaveFails(d) /\ ~CleanUpEntry(d)
  BY <1>1 DEF SaveBegins, SaveFails, CleanUpEntry
<1>3. Open(d) \/ Modify(d) \/ SaveEnds(d) \/ Close(d)
  BY <1>2 DEF UserStep
<1>4. UserTurn /\ d # copy.doc
  BY <1>1, <1>3 DEF Open, Modify, SaveEnds, Close
<1> QED
  BY <1>1, <1>2, <1>4 DEF UserTurn

LEMMA CopyKept ==
    ASSUME IInv, [Next]_vars
    PROVE  CopyInv'
<1> USE DEF IInv, Types, Inv
<1>1. CASE ~Storing'
  BY <1>1 DEF CopyInv, Storing
<1>2. CASE Storing /\ UNCHANGED <<copy, phase>> /\ Unmoved(copy.doc)
  BY <1>2 DEF CopyInv, Unmoved, Storing
<1>3. CASE Storing'
  <2>1. ASSUME NEW d \in Docs, UserStep(d)
        PROVE  CopyInv'
    <3>1. UNCHANGED <<phase, copy>>
      BY <2>1 DEF UserStep, Open, Modify, SaveBegins, SaveEnds, SaveFails, Close, CleanUpEntry, passVars
    <3>2. Storing
      BY <1>3, <3>1 DEF Storing
    <3>3. Unmoved(copy.doc)
      BY <2>1, <3>2, StoringAlone, StoringIs, UserStepLeaves
    <3> QED BY <1>2, <3>1, <3>2, <3>3
  <2>2. ASSUME NEW d \in Docs, PassStep(d)
        PROVE  CopyInv'
    <3>1. PICK isActive \in BOOLEAN, userAutoSave \in BOOLEAN : BeginSave(d, isActive, userAutoSave)
      <4>1. phase = "visit"
        BY <2>2 DEF PassStep, SkipEntry, BeginLoad, RefusesToSave, Skip, BeginSave, Visits
      <4> QED BY <1>3, <2>2, <4>1 DEF PassStep, SkipEntry, BeginLoad, RefusesToSave, Skip, Storing
    <3>2. /\ copy'.doc = d /\ copy'.info = entry[d] /\ copy'.new = NewTemp(d)
          /\ entry' = entry /\ phase' \in {"original", "store"} /\ UNCHANGED docVars
          /\ phase' = "original" => entry[d].org
      BY <3>1 DEF BeginSave
    <3>3. /\ d \in open /\ d \in Cached /\ entry[d].loaded /\ NewTemp(d) \in Temps /\ NewTemp(d) # entry[d].old
          /\ Cached' = Cached
      BY <3>1, NewTempExists DEF BeginSave, Cached
    <3>4. /\ entry[d] \in Entry /\ (d \in modified => "MODIFIED" \in entry[d].state)
          /\ entry[d].state \intersect {"DAMAGED", "TRY_LOAD_BACKUP", "TRY_LOAD_ORIGINAL"} = {}
      BY <3>3 DEF EntryTypes, ModifiedInv, Marked, CacheInv, Known
    <3> QED BY <3>2, <3>3, <3>4 DEF CopyInv, Storing, docVars
  <2>3. CASE StoreOriginal
    <3>1. copy' = copy /\ phase' = "store" /\ phase = "original" /\ open' = open /\ Cached' = Cached /\ modified' \subseteq modified
      BY <2>3 DEF StoreOriginal, Stored, Cached
    <3>2. copy.doc \in Docs /\ copy.doc \in Cached /\ Storing
      BY <3>1, StoringIs DEF Storing
    <3>3. entry'[copy.doc].old = entry[copy.doc].old /\ entry'[copy.doc].org = entry[copy.doc].org
      <4>1. CASE entry' = entry
        BY <4>1
      <4>2. CASE MarkAsSaved(copy.doc) /\ entry' = [WithModified(entry, copy.doc, FALSE) EXCEPT ![copy.doc].used = FALSE]
        <5>1. Listening
          BY <3>1 DEF PlaceInv, Listening
        <5> QED BY <3>2, <4>2, <5>1, SavedEffect DEF Parts
      <4> QED BY <2>3, <4>1, <4>2 DEF StoreOriginal
    <3> QED BY <3>1, <3>2, <3>3 DEF CopyInv, Storing
  <2>4. CASE StoreRecovery
    <3>1. /\ phase = "store" /\ phase' = "remove" /\ copy'.doc = copy.doc /\ copy'.new = copy.info.old /\ entry' = entry
          /\ \E t \in Names :
                /\ Parts(copy'.info,
                          copy.info.state \union {"HANDLED"} \union (IF t = NoTemp THEN {"INCOMPLETE"} ELSE {}),
                          copy.info.used, t, copy.info.org, copy.info.loaded)
                /\ \/ /\ t = copy.new /\ t \in Temps /\ unsaved' = unsaved \ {copy.doc}
                      /\ \A s \in Temps : files'[copy.doc][s] = IF s = t THEN version[copy.doc] ELSE files[copy.doc][s]
                   \/ t = NoTemp
      BY <2>4, StoreRecoveryEffect
    <3>2. open' = open /\ Cached' = Cached /\ modified' = modified /\ version' = version
      BY <2>4 DEF StoreRecovery, Cached
    <3>3. /\ copy.doc \in open \intersect Cached /\ copy.info.loaded /\ copy.info.org = entry[copy.doc].org
          /\ copy.info.state \intersect {"DAMAGED", "TRY_LOAD_BACKUP", "TRY_LOAD_ORIGINAL"} = {}
          /\ copy.doc \in modified => "MODIFIED" \in copy.info.state
          /\ copy.new \in Temps /\ copy.new # copy.info.old /\ copy.info.old = entry[copy.doc].old
      BY <3>1 DEF CopyInv, Storing
    <3> DEFINE Info(t) == copy.info.state \union {"HANDLED"} \union (IF t = NoTemp THEN {"INCOMPLETE"} ELSE {})
               Into(t) == /\ t = copy.new /\ t \in Temps /\ unsaved' = unsaved \ {copy.doc}
                          /\ \A s \in Temps : files'[copy.doc][s] = IF s = t THEN version[copy.doc] ELSE files[copy.doc][s]
    <3>4. PICK t \in Names :
             /\ Parts(copy'.info, Info(t), copy.info.used, t, copy.info.org, copy.info.loaded)
             /\ Into(t) \/ t = NoTemp
      BY <3>1
    <3> HIDE DEF Info, Into
    <3>5. /\ copy'.info \in Entry /\ copy'.info.loaded /\ copy'.info.org = copy.info.org /\ copy'.info.old = t
           /\ copy'.info.state = Info(t)
      BY <3>3, <3>4 DEF Parts
    <3>6. /\ copy'.info \in Entry /\ copy'.info.loaded /\ copy'.info.org = copy.info.org /\ copy'.info.old = t
          /\ copy'.info.state = copy.info.state \union {"HANDLED"} \union (IF t = NoTemp THEN {"INCOMPLETE"} ELSE {})
          /\ \/ /\ t = copy.new /\ t \in Temps /\ unsaved' = unsaved \ {copy.doc}
                /\ \A s \in Temps : files'[copy.doc][s] = IF s = t THEN version[copy.doc] ELSE files[copy.doc][s]
             \/ t = NoTemp
      BY <3>4, <3>5 DEF Info, Into
    <3>7. /\ copy'.info.state \intersect {"DAMAGED", "TRY_LOAD_BACKUP", "TRY_LOAD_ORIGINAL"} = {}
          /\ copy'.doc \in modified' => "MODIFIED" \in copy'.info.state
          /\ "HANDLED" \in copy'.info.state /\ (t = NoTemp => "INCOMPLETE" \in copy'.info.state)
      BY <3>1, <3>2, <3>3, <3>6
    <3>8. \/ t = NoTemp
          \/ /\ t = copy.new /\ t # NoTemp /\ copy.doc \notin unsaved' /\ files'[copy.doc][t] = version'[copy.doc]
      BY <3>2, <3>3, <3>6, TempAssumption
    <3> QED BY <3>1, <3>2, <3>3, <3>6, <3>7, <3>8 DEF CopyInv, Storing
  <2>5. CASE StoreStep(copy.doc)
    BY <1>3, <2>3, <2>4, <2>5 DEF StoreStep, RemoveOld, Storing
  <2>6. CASE LoadStep(Loading)
    BY <1>3, <2>6 DEF LoadStep, Loads, FailsToLoad, Storing
  <2>7. CASE TurnStep
    <3>1. UNCHANGED <<copy, phase>> \/ phase' = "visit"
      BY <2>7 DEF TurnStep, ChangeAutoSave, TimerExpires, EmergencyTurns, RecoveryTurns, StartPass, passVars, vars
    <3>2. Storing /\ UNCHANGED <<copy, phase>>
      BY <1>3, <3>1 DEF Storing
    <3>3. copy.doc \in Docs
      BY <3>2, StoringIs
    <3> QED BY <1>2, <2>7, <3>2, <3>3, TurnLeaves
  <2>8. CASE EndStep \/ DownStep \/ EmergencySave \/ Restart
    <3>1. phase' = "visit"
      BY <2>8 DEF EndStep, PassEnds, EmergencyEnds, RecoveryEnds, DownStep, Breaks, EmergencyBreaks, Crash, GoesDown, EmergencySave, Restart,
         StartPass, EndPass
    <3> QED BY <1>3, <3>1 DEF Storing
  <2> QED BY <2>1, <2>2, <2>5, <2>6, <2>7, <2>8, Kinds
<1> QED
  BY <1>1, <1>3

-----------------------------------------------------------------------------
(* The other invariants are kept, one by one                               *)

(* Only the steps of a recovery are taken in one. *)
LEMMA InRecovery ==
    ASSUME NEW d \in Docs, job = "recovery"
    PROVE  /\ ~UserStep(d) /\ ~RefusesToSave(d)
           /\ \A isActive \in BOOLEAN : ~Skip(d, isActive)
           /\ \A isActive, userAutoSave \in BOOLEAN : ~BeginSave(d, isActive, userAutoSave)
<1>1. ~UserTurn /\ ~SaveBegins(d) /\ ~SaveFails(d) /\ ~CleanUpEntry(d)
  BY DEF UserTurn, SaveBegins, SaveFails, CleanUpEntry
<1>2. ~Open(d) /\ ~Modify(d) /\ ~SaveEnds(d) /\ ~Close(d)
  BY <1>1 DEF Open, Modify, SaveEnds, Close
<1>3. /\ ~RefusesToSave(d)
      /\ \A isActive \in BOOLEAN : ~Skip(d, isActive)
      /\ \A isActive, userAutoSave \in BOOLEAN : ~BeginSave(d, isActive, userAutoSave)
  BY DEF RefusesToSave, Skip, BeginSave, Visits
<1> QED
  BY <1>1, <1>2, <1>3 DEF UserStep

(* A recovery's step at a document that is not done with finds it closed. *)
LEMMA NotLoaded ==
    ASSUME IInv, NEW d \in Docs, job = "recovery", ~DoneWith(entry[d].state), d \in Cached
    PROVE  ~entry[d].loaded /\ d \notin open
  BY DEF IInv, Inv, ReadInv, DoneWith, CacheInv, Known

LEMMA ReadKept ==
    ASSUME IInv, [Next]_vars
    PROVE  ReadInv'
<1> USE DEF IInv, Types, Inv
<1> DEFINE Handled(c) == entry[c].loaded => "HANDLED" \in entry[c].state
<1>1. CASE job' # "recovery"
  BY <1>1, PlaceKept DEF PlaceInv, ReadInv, Reading
<1>2. ASSUME job' = "recovery", ~Reading', \A c \in Docs : Handled(c)'
      PROVE  ReadInv'
  BY <1>2 DEF ReadInv, Reading
<1>3. ASSUME job = "recovery", NEW c \in Docs, Unmoved(c)
      PROVE  Handled(c)'
  BY <1>3 DEF ReadInv, Unmoved
<1>4. CASE job' = "recovery"
  <2>1. ASSUME NEW d \in Docs, UserStep(d)
        PROVE  FALSE
    BY <1>4, <2>1, JobStays, InRecovery
  <2>2. ASSUME NEW d \in Docs, PassStep(d)
        PROVE  ReadInv'
    <3>1. job = "recovery" /\ (SkipEntry(d) \/ BeginLoad(d))
      BY <1>4, <2>2, JobStays, InRecovery DEF PassStep
    <3>2. \A c \in Docs \ {d} : Handled(c)'
      BY <1>3, <2>2, <3>1, PassStepLeaves
    <3>3. CASE SkipEntry(d)
      <4>1. entry'[d].loaded = entry[d].loaded /\ entry[d].state \subseteq entry'[d].state
        BY <3>3, SkipEntryEffect DEF Parts
      <4>2. phase' = "visit"
        BY <3>3 DEF SkipEntry, Visits
      <4> QED BY <1>2, <1>4, <3>1, <3>2, <4>1, <4>2 DEF ReadInv, Reading
    <3>4. CASE BeginLoad(d)
      <4>1. d \in Cached /\ d = Order[at] /\ ~DoneWith(entry[d].state) /\ ~entry[d].loaded
        BY <3>1, <3>4, RecoveryIs, BeginLoadEffect, NotLoaded DEF BeginLoad, Visits
      <4>2. Loading' = d
        BY <3>4, <4>1 DEF BeginLoad, Loading, Order
      <4>3. /\ entry'[d].loaded = entry[d].loaded /\ entry'[d].old = entry[d].old /\ ~DoneWith(entry'[d].state)
            /\ \/ phase' = "backup" /\ entry[d].old # NoTemp /\ "TRY_LOAD_BACKUP" \in entry'[d].state
               \/ /\ phase' = "load" /\ "TRY_LOAD_ORIGINAL" \in entry'[d].state
                  /\ \/ "INCOMPLETE" \in entry'[d].state
                     \/ entry[d].old = NoTemp /\ entry'[d].state \intersect {"TRY_LOAD_BACKUP", "INCOMPLETE"} = {}
        BY <3>4, BeginLoadEffect DEF Parts
      <4>4. \A c \in Docs : Handled(c)'
        BY <3>2, <4>1, <4>3
      <4>5. /\ "INCOMPLETE" \in entry'[d].state => BackupWasTried(d)'
            /\ entry'[d].state \intersect {"TRY_LOAD_BACKUP", "INCOMPLETE"} = {} => ~BackupWasTried(d)'
        BY DEF BackupWasTried
      <4> HIDE DEF Handled
      <4>6. /\ phase' = "backup" => entry'[Loading'].old # NoTemp /\ "TRY_LOAD_BACKUP" \in entry'[Loading'].state
            /\ phase' = "load" =>
                 /\ "TRY_LOAD_ORIGINAL" \in entry'[Loading'].state
                 /\ BackupWasTried(Loading)' => "INCOMPLETE" \in entry'[Loading'].state
                 /\ ~BackupWasTried(Loading)' => entry'[Loading'].old = NoTemp
        BY <4>2, <4>3, <4>5 DEF BackupWasTried
      <4> QED BY <4>2, <4>3, <4>4, <4>6 DEF ReadInv, Handled
    <3> QED BY <3>1, <3>3, <3>4
  <2>3. CASE StoreStep(copy.doc)
    BY <1>4, <2>3, JobStays DEF StoreStep, StoreOriginal, StoreRecovery, RemoveOld, PlaceInv, Storing
  <2>4. CASE LoadStep(Loading)
    <3>1. /\ job = "recovery" /\ Loading \in Docs /\ Loading \in Cached /\ ~DoneWith(entry[Loading].state)
          /\ phase' = "visit"
      BY <1>4, <2>4, ReadingIs DEF LoadStep, Loads, FailsToLoad, Reading, ReadInv
    <3>2. \A c \in Docs \ {Loading} : Handled(c)'
      BY <1>3, <2>4, <3>1, LoadStepLeaves
    <3>3. CASE Loads
      <4>1. "HANDLED" \in entry'[Loading].state
        BY <3>1, <3>3, LoadsEffect DEF Parts
      <4> QED BY <1>2, <1>4, <3>1, <3>2, <4>1 DEF Reading
    <3>4. CASE FailsToLoad
      <4>1. ~entry'[Loading].loaded
        BY <3>1, <3>4, FailsEffect, NotLoaded DEF Parts
      <4> QED BY <1>2, <1>4, <3>1, <3>2, <4>1 DEF Reading
    <3> QED BY <2>4, <3>3, <3>4 DEF LoadStep
  <2>5. CASE TurnStep
    <3>1. UNCHANGED entry /\ job = "recovery"
      BY <1>4, <2>5, TurnLeaves DEF TurnStep, ChangeAutoSave, TimerExpires, StartPass, EmergencyTurns, AtEnd, RecoveryTurns,
         passVars, vars
    <3>2. CASE UNCHANGED vars
      BY <3>2 DEF vars, passVars, ReadInv, Reading, Loading, Order, BackupWasTried
    <3>3. CASE RecoveryTurns
      BY <1>2, <1>4, <3>1, <3>3 DEF RecoveryTurns, StartPass, ReadInv, Reading
    <3> QED BY <2>5, <3>1, <3>2, <3>3
            DEF TurnStep, ChangeAutoSave, TimerExpires, EmergencyTurns, AtEnd
  <2>6. CASE EndStep \/ DownStep \/ EmergencySave
    <3>1. job' # "recovery"
      BY <2>6 DEF EndStep, PassEnds, EmergencyEnds, RecoveryEnds, DownStep, Breaks, EmergencyBreaks, Crash, GoesDown, EmergencySave,
         StartPass, EndPass
    <3> QED BY <1>4, <3>1
  <2>7. CASE Restart
    <3>1. \A c \in Docs : ~entry'[c].loaded
      BY <2>7, RestartEffect, NoEntryParts DEF Parts
    <3> QED BY <1>2, <1>4, <2>7, <3>1 DEF Restart, StartPass, Reading
  <2> QED BY <2>1, <2>2, <2>3, <2>4, <2>5, <2>6, <2>7, Kinds
<1> QED
  BY <1>1, <1>4

-----------------------------------------------------------------------------
(* What holds of each document by itself is kept                           *)

DocInv(d) == (job # "down" => FewFiles(d)) /\ Named(d) /\ Safekept(d) /\ Marked(d)

LEMMA FrameKeeps ==
    ASSUME IInv, NEW c \in Docs, Unmoved(c), job' = job \/ (job = "none" /\ job' = "pass"), skipped \subseteq skipped',
           Written(c)' <=> Written(c), Written(c) => copy'.info = copy.info
    PROVE  DocInv(c)'
<1> USE DEF IInv, Inv
<1>1. (job' # "down" => FewFiles(c))
  BY DEF FilesInv
<1>2. job' # "down" => FewFiles(c)'
  <2>1. SUFFICES ASSUME job' # "down"
                 PROVE  FewFiles(c)'
    OBVIOUS
  <2>2. PICK x \in Names :
          /\ job \notin {"emergency", "saved"} => x = NoTemp
          /\ \A t \in Temps : files[c][t] # None =>
                t = entry[c].old \/ t = x \/ (Written(c) /\ t = copy.info.old)
    BY <1>1, <2>1 DEF FewFiles
  <2> QED BY <2>2 DEF FewFiles, Unmoved
<1>3. Base(c)' = Base(c) /\ Titled(c)' = Titled(c)
  BY DEF Unmoved, Base, Titled
<1>4. Named(c) /\ Safekept(c) /\ Marked(c)
  BY DEF ConfigInv, KeptInv, ModifiedInv
<1>5. Named(c)'
  BY <1>3, <1>4 DEF Named, SameItem, Unmoved
<1>6. Safekept(c)'
  BY <1>3, <1>4 DEF Safekept, Unmoved, Excepted, Kept
<1>7. Marked(c)'
  BY <1>3, <1>4 DEF Marked, Unmoved
<1> QED
  BY <1>2, <1>5, <1>6, <1>7 DEF DocInv

(* The steps leave alone what is half stored of another document. *)
LEMMA OthersKeep ==
    ASSUME IInv, NEW d, NEW c \in Docs \ {d},
           (d \in Docs /\ (UserStep(d) \/ PassStep(d))) \/ StoreStep(d) \/ LoadStep(d)
    PROVE  DocInv(c)'
<1> USE DEF IInv, Inv
<1>1. Unmoved(c) /\ job' = job
  BY UserStepLeaves, PassStepLeaves, StoreStepLeaves, LoadStepLeaves, JobStays
<1>2. skipped \subseteq skipped' /\ (Written(c)' <=> Written(c)) /\ (Written(c) => copy'.info = copy.info)
  <2>1. CASE UserStep(d)
    BY <2>1 DEF UserStep, Open, Modify, SaveBegins, SaveEnds, SaveFails, Close, CleanUpEntry, duty, passVars, Written
  <2>2. CASE PassStep(d)
    BY <2>2 DEF PassStep, SkipEntry, BeginLoad, RefusesToSave, Skip, BeginSave, duty, Written, Visits
  <2>3. CASE StoreStep(d)
    <3>1. skipped' = skipped
      BY <2>3 DEF StoreStep, StoreOriginal, StoreRecovery, RemoveOld, duty
    <3>2. ~Written(c)
      BY <2>3 DEF StoreStep, Written
    <3>3. ~Written(c)'
      <4>1. StoreOriginal => phase' = "store"
        BY DEF StoreOriginal
      <4>2. StoreRecovery => copy'.doc = d
        BY <2>3, StoreRecoveryEffect DEF Types, StoreStep
      <4>3. RemoveOld => phase' = "visit"
        BY DEF RemoveOld
      <4> QED BY <2>3, <4>1, <4>2, <4>3 DEF StoreStep, Written
    <3> QED BY <3>1, <3>2, <3>3
  <2>4. CASE LoadStep(d)
    BY <2>4 DEF LoadStep, Loads, FailsToLoad, duty, Written
  <2> QED BY <2>1, <2>2, <2>3, <2>4
<1> QED
  BY <1>1, <1>2, FrameKeeps

LEMMA FewAfter ==
    ASSUME NEW d, FewFiles(d), job \in {"emergency", "saved"} => job' \in {"emergency", "saved"},
           \A t \in Temps : files'[d][t] # None =>
              \/ t = entry'[d].old \/ (Written(d)' /\ t = copy'.info.old)
              \/ files[d][t] # None /\ t # entry[d].old /\ ~(Written(d) /\ t = copy.info.old)
    PROVE  FewFiles(d)'
<1>1. PICK x \in Names :
        /\ job \notin {"emergency", "saved"} => x = NoTemp
        /\ \A t \in Temps : files[d][t] # None =>
              t = entry[d].old \/ t = x \/ (Written(d) /\ t = copy.info.old)
  BY DEF FewFiles
<1>2. \A t \in Temps : files'[d][t] # None =>
         t = entry'[d].old \/ t = x \/ (Written(d)' /\ t = copy'.info.old)
  BY <1>1
<1> QED
  BY <1>1, <1>2 DEF FewFiles

(* A document that has no entry has no files. *)
LEMMA OpenKeeps ==
    ASSUME IInv, NEW d \in Docs, Open(d)
    PROVE  DocInv(d)'
<1> USE DEF IInv, Types, Inv
<1>1. /\ d \notin open /\ d \notin Cached /\ open' = open \union {d}
      /\ UNCHANGED <<modified, unsaved, version, original, phase, copy, job, files>>
      /\ job \in {"none", "pass"} /\ (~Locked => job = "none")
  BY DEF Open, passVars, UserTurn, Locked
<1>2. ~Written(d) /\ ~Written(d)'
  BY <1>1, StoringIs DEF Written, Storing
<1>3. /\ Base(d)' = Base(d) /\ Titled(d)' = Titled(d) /\ version[d] = Base(d) /\ d \notin modified
      /\ Base(d) \in 0..MaxVersion
  BY <1>1, Contents DEF Base, Titled, KeptInv, Safekept, DocTypes
<1>4. version'[d] = Base(d)' /\ ~(version'[d] > Base(d)')
  BY <1>1, <1>3
<1>5. FewFiles(d) /\ entry[d].old = NoTemp
  BY <1>1 DEF FilesInv, CacheInv, Known, NoEntry
<1>6. CASE Locked
  <2>1. UNCHANGED <<m_lDocCache, entry, config>> /\ d \notin Cached'
    BY <1>1, <1>6 DEF Open, Cached
  <2>2. FewFiles(d)'
    BY <1>1, <1>2, <1>5, <2>1, FewAfter
  <2>3. Named(d)' /\ Safekept(d)'
    BY <1>4, <2>1 DEF Named, Safekept
  <2>4. Marked(d)'
    BY <1>1, <1>3, <1>4, <2>1 DEF Marked, ModifiedInv
  <2> QED BY <2>2, <2>3, <2>4 DEF DocInv
<1>7. CASE ~Locked
  <2>1. entry'[d] = NewEntry(d) /\ config'[d] = Item(NewEntry(d)) /\ Cached' = Cached \union {d}
    BY <1>7, OpenEffect
  <2>2. /\ entry'[d].state = {} /\ entry'[d].old = NoTemp /\ entry'[d].org = Titled(d)
        /\ config'[d].state = {} /\ config'[d].temp = NoTemp /\ config'[d].org = Titled(d)
    <3>1. Parts(NewEntry(d), {}, FALSE, NoTemp, Titled(d), TRUE)
      BY <1>3, NewEntryParts
    <3> QED BY <2>1, <3>1, ItemParts DEF Parts
  <2>3. FewFiles(d)'
    BY <1>1, <1>2, <1>5, <2>2, TempAssumption, FewAfter
  <2>4. Named(d)'
    BY <1>2, <2>2 DEF Named, SameItem
  <2>5. Safekept(d)'
    BY <1>1, <1>3, <1>4, <2>1, <2>2 DEF Safekept, Kept, Base, Titled
  <2>6. Marked(d)'
    BY <1>1, <1>3, <1>4, <2>2 DEF Marked
  <2> QED BY <2>3, <2>4, <2>5, <2>6 DEF DocInv
<1> QED
  BY <1>6, <1>7

(* The steps that change no more than the state of an entry. *)
LEMMA EntryKeeps ==
    ASSUME IInv, NEW d \in Docs, job' = job, skipped \subseteq skipped', Cached' = Cached,
           UNCHANGED <<open, modified, version, original, files>>, (d \in unsaved' <=> d \in unsaved),
           Written(d)' <=> Written(d), Written(d) => copy'.info = copy.info,
           entry'[d].old = entry[d].old, entry'[d].org = entry[d].org, entry[d].state \subseteq entry'[d].state,
           config'[d] = config[d] \/ (~Written(d) /\ config'[d] = Item(entry'[d]) /\ entry'[d] \in Entry)
    PROVE  DocInv(d)'
<1> USE DEF IInv, Inv
<1>1. Base(d)' = Base(d) /\ Titled(d)' = Titled(d)
  BY DEF Base, Titled
<1>2. job' # "down" => FewFiles(d)'
  BY FewAfter DEF FilesInv
<1>3. config'[d] = config[d] \/ (~Written(d) /\ config'[d].state = entry'[d].state /\ config'[d].temp = entry'[d].old
                                  /\ config'[d].org = entry'[d].org)
  BY ItemParts
<1>4. Named(d)'
  BY <1>1, <1>3 DEF ConfigInv, Named, SameItem
<1>5. Safekept(d)'
  BY <1>1 DEF KeptInv, Safekept, Excepted, Kept
<1>6. Marked(d)'
  BY <1>1, <1>3 DEF ModifiedInv, Marked
<1> QED
  BY <1>2, <1>4, <1>5, <1>6 DEF DocInv

LEMMA ModifyKeeps ==
    ASSUME IInv, NEW d \in Docs, Modify(d)
    PROVE  DocInv(d)'
<1> USE DEF IInv, Types, Inv
<1>1. /\ UNCHANGED <<open, original, m_lDocCache, config, files, phase, copy, job>>
      /\ modified' = modified \union {d} /\ unsaved' = unsaved \union {d} /\ entry' = WithModified(entry, d, TRUE)
      /\ d \in open /\ Cached' = Cached /\ job \in {"none", "pass"}
  BY DEF Modify, passVars, Cached, UserTurn
<1>2. Base(d)' = Base(d) /\ Titled(d)' = Titled(d) /\ (Written(d)' <=> Written(d))
  BY <1>1 DEF Base, Titled, Written
<1>3. /\ entry'[d].old = entry[d].old /\ entry'[d].org = entry[d].org /\ entry[d].state \subseteq entry'[d].state
      /\ d \in Cached => "MODIFIED" \in entry'[d].state
  BY <1>1, MarkEffect DEF Parts, Listening
<1>4. FewFiles(d)'
  BY <1>1, <1>2, <1>3, FewAfter DEF FilesInv
<1>5. Named(d)'
  BY <1>1, <1>2, <1>3 DEF ConfigInv, Named, SameItem
<1>6. Safekept(d)'
  BY <1>1 DEF Safekept
<1>7. Marked(d)'
  BY <1>1, <1>2, <1>3 DEF ModifiedInv, Marked
<1> QED
  BY <1>4, <1>5, <1>6, <1>7 DEF DocInv

(* The steps that store a document in its own file. *)
LEMMA SavedKeeps ==
    ASSUME IInv, NEW d \in Docs, d \in open, job' = job, job # "down", Stored(d), unsaved' = unsaved \ {d},
           UNCHANGED <<open, version>>, Cached' = Cached, ~Written(d), ~Written(d)',
           IF d \in Cached
           THEN /\ Parts(entry'[d], entry[d].state \ {"MODIFIED"}, FALSE, entry[d].old, entry[d].org, entry[d].loaded)
                /\ config'[d].present /\ config'[d].state = {} /\ config'[d].temp = NoTemp /\ config'[d].org
                /\ \A s \in Temps : files'[d][s] = IF s = entry[d].old THEN None ELSE files[d][s]
           ELSE UNCHANGED <<entry, config, files>>
    PROVE  DocInv(d)'
<1> USE DEF IInv, Types, Inv
<1>1. /\ original'[d] = version[d] /\ modified' = modified \ {d} /\ version[d] \in 0..MaxVersion
      /\ None < 0 /\ version[d] # None
  BY Contents DEF Stored, DocTypes
<1>2. Titled(d)' /\ Base(d)' = version[d] /\ version'[d] = version[d]
  BY <1>1 DEF Titled, Base
<1>3. ~(version'[d] > Base(d)') /\ ~(None > Base(d)')
  <2>1. PICK v \in Int : v = version[d] /\ None < v /\ None \in Int
    BY <1>1 DEF None
  <2>2. ~(v > v) /\ ~(None > v)
    BY <2>1
  <2> QED BY <1>2, <2>1, <2>2
<1>4. CASE d \in Cached
  <2>1. /\ entry'[d].state = entry[d].state \ {"MODIFIED"} /\ entry'[d].old = entry[d].old /\ entry'[d].org = entry[d].org
        /\ config'[d].present /\ config'[d].state = {} /\ config'[d].temp = NoTemp /\ config'[d].org
        /\ \A s \in Temps : files'[d][s] = IF s = entry[d].old THEN None ELSE files[d][s]
    BY <1>4 DEF Parts
  <2>2. entry[d].old # NoTemp => files'[d][entry[d].old] = None
    BY <2>1 DEF EntryTypes, Entry, Names
  <2>3. FewFiles(d)'
    BY <2>1, FewAfter DEF FilesInv
  <2>4. Named(d)'
    BY <1>2, <2>1, <2>2 DEF Named, SameItem
  <2>5. Safekept(d)'
    BY <1>1, <1>2, <1>4, <2>1, <2>2 DEF Safekept, Excepted, Kept
  <2>6. Marked(d)'
    BY <1>1, <1>3, <2>1, <2>2 DEF Marked
  <2> QED BY <2>3, <2>4, <2>5, <2>6 DEF DocInv
<1>5. CASE d \notin Cached
  <2>1. UNCHANGED <<entry, config, files>> /\ entry[d].old = NoTemp /\ config[d].temp = NoTemp
    BY <1>5 DEF CacheInv, Known, NoEntry, NoItem
  <2>2. FewFiles(d)'
    BY <2>1, FewAfter DEF FilesInv
  <2>3. Named(d)' /\ Safekept(d)'
    BY <1>2, <1>5 DEF Named, Safekept
  <2>4. Marked(d)'
    BY <1>3, <1>5, <2>1 DEF Marked
  <2> QED BY <2>2, <2>3, <2>4 DEF DocInv
<1> QED
  BY <1>4, <1>5

LEMMA DroppedKeeps ==
    ASSUME IInv, NEW d \in Docs, d \in Cached, job = "none", job' = job, d \notin open', original' = original,
           version'[d] = Base(d), UNCHANGED <<phase, copy>>,
           m_lDocCache' = Without(m_lDocCache, d), entry' = [entry EXCEPT ![d] = NoEntry],
           files' = Removed(files, d, entry[d].old), FlushRemove(d)
    PROVE  DocInv(d)'
<1> USE DEF IInv, Types, Inv
<1>1. /\ d \notin Cached' /\ entry'[d].old = NoTemp /\ config'[d].temp = NoTemp
      /\ \A s \in Temps : files'[d][s] = IF s = entry[d].old THEN None ELSE files[d][s]
  <2>1. /\ Cached' = Cached \ {d} /\ entry'[d] = NoEntry /\ config'[d] = NoItem
        /\ \A s \in Temps : files'[d][s] = IF s = entry[d].old THEN None ELSE files[d][s]
    BY DroppedEffect
  <2> QED BY <2>1 DEF NoEntry, NoItem
<1>2. ~Written(d) /\ ~Written(d)' /\ Base(d)' = Base(d)
  BY DEF PlaceInv, Written, Base
<1>3. FewFiles(d)'
  BY <1>1, <1>2, FewAfter DEF FilesInv
<1>4. Named(d)' /\ Safekept(d)' /\ Marked(d)'
  BY <1>1, <1>2 DEF Named, Safekept, Marked
<1> QED
  BY <1>3, <1>4 DEF DocInv

LEMMA UserKeeps ==
    ASSUME IInv, NEW d \in Docs, UserStep(d)
    PROVE  DocInv(d)'
<1> USE DEF IInv, Types, Inv
<1>1. job' = job
  BY JobStays
<1>2. CASE SaveBegins(d) \/ SaveFails(d)
  <2>1. \E b \in BOOLEAN : entry' = IF d \in Cached THEN [entry EXCEPT ![d].used = b] ELSE entry
    BY <1>2 DEF SaveBegins, SaveFails
  <2>2. entry'[d].state = entry[d].state /\ entry'[d].old = entry[d].old /\ entry'[d].org = entry[d].org
    BY <2>1, UsedEffect DEF Parts
  <2>3. /\ UNCHANGED <<open, modified, unsaved, version, original, files, config, skipped, phase, copy>> /\ Cached' = Cached
    BY <1>2 DEF SaveBegins, SaveFails, Cached, duty, passVars
  <2> QED BY <1>1, <2>2, <2>3, EntryKeeps DEF Written
<1>3. CASE SaveEnds(d)
  <2>1. /\ d \in open /\ job # "down" /\ Stored(d) /\ unsaved' = unsaved \ {d} /\ UNCHANGED <<open, version, phase, copy>>
        /\ Cached' = Cached /\ Listening
    BY <1>3 DEF SaveEnds, UserTurn, DocTypes, Cached, passVars, Listening
  <2>2. ~Written(d) /\ ~Written(d)'
    BY <1>3, <2>1 DEF SaveEnds, UserTurn, Written, PlaceInv
  <2>3. CASE d \in Cached
    BY <1>1, <1>3, <2>1, <2>2, <2>3, SavedEffect, SavedKeeps DEF SaveEnds
  <2>4. CASE d \notin Cached
    BY <1>1, <1>3, <2>1, <2>2, <2>4, SavedKeeps DEF SaveEnds
  <2> QED BY <2>3, <2>4
<1>4. CASE Close(d)
  <2>1. /\ open' = open \ {d} /\ version' = [c \in Docs |-> IF c \in {d} THEN Base(c) ELSE version[c]]
        /\ original' = original /\ modified' = modified \ {d}
        /\ UNCHANGED <<phase, copy>> /\ d \in open /\ d # copy.doc
    BY <1>4 DEF Close, Closed, passVars
  <2>2. CASE d \in Cached /\ ~Locked
    <3>1. version'[d] = Base(d) /\ d \notin open' /\ job = "none"
      BY <2>1, <2>2 DEF Locked
    <3> QED BY <1>1, <1>4, <2>1, <2>2, <3>1, DroppedKeeps DEF Close
  <2>3. CASE ~(d \in Cached /\ ~Locked)
    <3>1. UNCHANGED <<m_lDocCache, entry, files, config>>
      BY <1>4, <2>3 DEF Close
    <3>2. Base(d)' = Base(d) /\ version'[d] = Base(d) /\ ~Written(d) /\ d \notin open'
      BY <2>1 DEF Base, Written
    <3>3. job' # "down" => FewFiles(d)'
      BY <1>1, <3>1, <3>2, FewAfter DEF FilesInv
    <3>4. Named(d)' /\ Safekept(d)'
      BY <3>2 DEF Named, Safekept
    <3>5. Marked(d)'
      BY <2>1, <3>1, <3>2 DEF ModifiedInv, Marked
    <3> QED BY <3>3, <3>4, <3>5 DEF DocInv
  <2> QED BY <2>2, <2>3
<1>5. CASE CleanUpEntry(d)
  <2>1. /\ job = "none" /\ d \in Cached /\ ~entry[d].loaded
        /\ UNCHANGED <<open, version, original, phase, copy>>
    BY <1>5 DEF CleanUpEntry, docVars, passVars
  <2>2. d \notin open /\ version[d] = Base(d)
    BY <2>1 DEF CacheInv, Known, KeptInv, Safekept
  <2> QED BY <1>1, <1>5, <2>1, <2>2, DroppedKeeps DEF CleanUpEntry
<1> QED
  BY <1>2, <1>3, <1>4, <1>5, OpenKeeps, ModifyKeeps DEF UserStep

LEMMA PassKeeps ==
    ASSUME IInv, NEW d \in Docs, PassStep(d)
    PROVE  DocInv(d)'
<1> USE DEF IInv, Types, Inv
<1>1. job' = job
  BY JobStays
<1>2. /\ phase = "visit" /\ phase' # "remove" /\ UNCHANGED <<open, modified, unsaved, version, original, files>>
      /\ Cached' = Cached /\ skipped \subseteq skipped'
  BY DEF PassStep, SkipEntry, BeginLoad, RefusesToSave, Skip, BeginSave, Visits, Cached, docVars, duty
<1>3. ~Written(d) /\ ~Written(d)'
  BY <1>2 DEF Written
<1>4. SUFFICES /\ entry'[d].old = entry[d].old /\ entry'[d].org = entry[d].org /\ entry[d].state \subseteq entry'[d].state
               /\ config'[d] = config[d] \/ (config'[d] = Item(entry'[d]) /\ entry'[d] \in Entry)
  BY <1>1, <1>2, <1>3, EntryKeeps
<1>5. CASE SkipEntry(d)
  BY <1>5, SkipEntryEffect DEF SkipEntry, Parts
<1>6. CASE BeginLoad(d)
  BY <1>6, BeginLoadEffect DEF Parts
<1>7. CASE RefusesToSave(d)
  BY <1>7, RefusesEffect DEF RefusesToSave, Parts
<1>8. ASSUME NEW isActive \in BOOLEAN, Skip(d, isActive)
      PROVE  /\ entry'[d].old = entry[d].old /\ entry'[d].org = entry[d].org /\ entry[d].state \subseteq entry'[d].state
             /\ config'[d] = config[d]
  BY <1>8, SkipEffect DEF Skip, Parts
<1>9. ASSUME NEW isActive \in BOOLEAN, NEW userAutoSave \in BOOLEAN, BeginSave(d, isActive, userAutoSave)
      PROVE  entry' = entry /\ config'[d] = Item(entry[d]) /\ entry[d] \in Entry
  BY <1>9, BeginSaveEffect DEF EntryTypes
<1> QED
  BY <1>5, <1>6, <1>7, <1>8, <1>9 DEF PassStep


LEMMA StoreOriginalKeeps ==
    ASSUME IInv, NEW d, d = copy.doc, StoreOriginal
    PROVE  DocInv(d)'
<1> USE DEF IInv, Types, Inv
<1>1. /\ phase = "original" /\ phase' = "store" /\ d \in Docs /\ d \in open /\ d \in Cached /\ job = "pass" /\ job' = job
      /\ Cached' = Cached /\ UNCHANGED <<open, version, copy, skipped>>
  BY StoringIs DEF StoreOriginal, Storing, PlaceInv, Cached, duty
<1>2. ~Written(d) /\ ~Written(d)' /\ Listening
  BY <1>1 DEF Written, Listening
<1>3. CASE UNCHANGED <<original, modified, unsaved, entry, config, files>>
  BY <1>1, <1>2, <1>3, EntryKeeps
<1>4. CASE /\ Stored(d) /\ unsaved' = unsaved \ {d} /\ MarkAsSaved(d)
           /\ entry' = [WithModified(entry, d, FALSE) EXCEPT ![d].used = FALSE]
  BY <1>1, <1>2, <1>4, SavedEffect, SavedKeeps
<1> QED
  BY <1>3, <1>4 DEF StoreOriginal

LEMMA StoreRecoveryKeeps ==
    ASSUME IInv, NEW d, d = copy.doc, StoreRecovery
    PROVE  DocInv(d)'
<1> USE DEF IInv, Types, Inv
<1> DEFINE State(t) == copy.info.state \union {"HANDLED"} \union (IF t = NoTemp THEN {"INCOMPLETE"} ELSE {})
           Into(t) == \/ /\ t = copy.new /\ t \in Temps /\ unsaved' = unsaved \ {copy.doc}
                         /\ \A s \in Temps : files'[copy.doc][s] = IF s = t THEN version[copy.doc] ELSE files[copy.doc][s]
                      \/ t = NoTemp /\ UNCHANGED <<files, unsaved>>
<1>1. /\ phase = "store" /\ phase' = "remove" /\ copy'.doc = d /\ entry' = entry /\ config'[d] = Item(copy'.info)
      /\ \E t \in Names : /\ Parts(copy'.info, State(t), copy.info.used, t, copy.info.org, copy.info.loaded)
                          /\ Into(t)
  BY StoreRecoveryEffect
<1>2. /\ d \in Docs /\ d \in open /\ d \in Cached /\ Cached' = Cached /\ job' = job
      /\ UNCHANGED <<open, modified, version, original, skipped>>
  BY <1>1, StoringIs DEF StoreRecovery, Storing, Cached, duty
<1>3. /\ copy.new \in Temps /\ copy.new # entry[d].old
      /\ copy.doc \in modified => "MODIFIED" \in copy.info.state
  BY <1>1 DEF CopyInv, Storing
<1> HIDE DEF State, Into
<1>4. PICK t \in Names : /\ Parts(copy'.info, State(t), copy.info.used, t, copy.info.org, copy.info.loaded)
                         /\ Into(t)
  BY <1>1
<1>5. config'[d].state = State(t) /\ config'[d].temp = t /\ copy'.info.old = t
  BY <1>1, <1>4, ItemParts DEF Parts
<1>6. Written(d)' /\ ~Written(d) /\ Base(d)' = Base(d)
  BY <1>1, <1>2 DEF Written, Base
<1>7. FewFiles(d)'
  <2>1. \A s \in Temps : files'[d][s] # None => s = t \/ files[d][s] # None
    BY <1>4 DEF Into
  <2> QED BY <1>1, <1>2, <1>5, <1>6, <2>1, FewAfter DEF FilesInv, PlaceInv
<1>8. Named(d)'
  BY <1>1, <1>6 DEF Named
<1>9. Safekept(d)'
  BY <1>2, <1>6 DEF Safekept
<1>10. Marked(d)'
  <2>1. entry[d].old # NoTemp => files'[d][entry[d].old] = files[d][entry[d].old]
    BY <1>2, <1>3, <1>4 DEF Into, EntryTypes, Entry, Names
  <2>2. t # NoTemp => files'[d][t] = version[d]
    BY <1>4 DEF Into
  <2>3. version[d] > Base(d) => "MODIFIED" \in State(t)
    BY <1>2, <1>3 DEF ModifiedInv, Marked, State
  <2> QED BY <1>1, <1>2, <1>5, <1>6, <2>1, <2>2, <2>3 DEF ModifiedInv, Marked
<1> QED
  BY <1>7, <1>8, <1>9, <1>10 DEF DocInv

LEMMA RemoveOldKeeps ==
    ASSUME IInv, NEW d, d = copy.doc, RemoveOld
    PROVE  DocInv(d)'
<1> USE DEF IInv, Types, Inv
<1>1. /\ phase = "remove" /\ phase' = "visit" /\ entry'[d] = copy.info /\ config' = config
      /\ \A s \in Temps : files'[d][s] = IF s = copy.new THEN None ELSE files[d][s]
  BY RemoveOldEffect
<1>2. /\ d \in Docs /\ d \in open /\ d \in Cached /\ Cached' = Cached /\ job' = job
      /\ UNCHANGED <<open, modified, unsaved, version, original, skipped>>
  BY <1>1, StoringIs DEF RemoveOld, Storing, Cached, duty, docVars
<1>3. /\ Written(d) /\ ~Written(d)' /\ config[d] = Item(copy.info)
      /\ Base(d)' = Base(d) /\ Titled(d)' = Titled(d)
  BY <1>1, <1>2 DEF Written, ConfigInv, Named, Base, Titled
<1>4. /\ copy.info \in Entry /\ copy.info.old \in Names /\ copy.new = entry[d].old
      /\ copy.info.old # NoTemp => copy.info.old # copy.new
      /\ d \in modified => "MODIFIED" \in copy.info.state
      /\ \/ copy.info.old = NoTemp /\ "INCOMPLETE" \in copy.info.state
         \/ d \notin unsaved /\ copy.info.old # NoTemp /\ files[d][copy.info.old] = version[d]
  BY <1>1 DEF CopyInv, Storing, Entry
<1>5. config'[d].state = copy.info.state /\ config'[d].temp = copy.info.old /\ config'[d].org = copy.info.org
  BY <1>1, <1>3, <1>4, ItemParts
<1>6. copy.info.old # NoTemp => files'[d][copy.info.old] = version'[d]
  BY <1>1, <1>2, <1>4 DEF Names
<1>7. FewFiles(d)'
  BY <1>1, <1>2, <1>3, <1>4, FewAfter DEF FilesInv, PlaceInv
<1>8. Named(d)'
  BY <1>1, <1>3, <1>5 DEF Named, SameItem
<1>9. Safekept(d)'
  <2>1. Excepted(d)' \/ Kept(d)'
    <3>1. CASE "INCOMPLETE" \in copy.info.state
      BY <1>1, <3>1 DEF Excepted
    <3>2. CASE copy.info.old # NoTemp
      <4>1. version'[d] # None
        BY <1>2, Contents DEF DocTypes
      <4> QED BY <1>1, <1>6, <3>2, <4>1 DEF Kept
    <3> QED BY <1>4, <3>1, <3>2
  <2> QED BY <1>2, <2>1 DEF Safekept
<1>10. Marked(d)'
  <2>1. version[d] > Base(d) => "MODIFIED" \in copy.info.state
    BY <1>2, <1>4 DEF ModifiedInv, Marked
  <2> QED BY <1>1, <1>2, <1>3, <1>4, <1>5, <1>6, <2>1 DEF ModifiedInv, Marked
<1> QED
  BY <1>7, <1>8, <1>9, <1>10 DEF DocInv

LEMMA LoadsKeeps ==
    ASSUME IInv, NEW d, d = Loading, Loads
    PROVE  DocInv(d)'
<1> USE DEF IInv, Types, Inv
<1> DEFINE mark == IF "MODIFIED" \in entry[d].state THEN {d} ELSE {}
<1>1. /\ Reading /\ job = "recovery" /\ d \in Docs /\ d \in Cached /\ ~DoneWith(entry[d].state) /\ job' = job /\ phase' = "visit"
      /\ Cached' = Cached /\ ~entry[d].loaded /\ d \notin open
  BY ReadingIs, NotLoaded DEF Loads, Reading, ReadInv, Cached
<1>2. /\ open' = open \union {d} /\ version' = [version EXCEPT ![d] = Content(d)] /\ original' = original
      /\ modified' = modified \union mark /\ unsaved' = unsaved \union mark /\ Content(d) # None
  BY DEF Loads
<1>3. /\ Parts(entry'[d], (entry[d].state \ {"TRY_LOAD_BACKUP", "TRY_LOAD_ORIGINAL"}) \union {"HANDLED"},
               entry[d].used, entry[d].old, entry[d].org, TRUE)
      /\ config'[d] = Item(entry'[d]) /\ files' = files
  BY <1>1, LoadsEffect
<1>4. /\ entry'[d].state = (entry[d].state \ {"TRY_LOAD_BACKUP", "TRY_LOAD_ORIGINAL"}) \union {"HANDLED"}
      /\ entry'[d].old = entry[d].old /\ entry'[d].org = entry[d].org
      /\ config'[d].state = entry'[d].state /\ config'[d].temp = entry[d].old /\ config'[d].org = entry[d].org
  BY <1>3, ItemParts DEF Parts
<1>5. /\ "MODIFIED" \in entry'[d].state <=> "MODIFIED" \in entry[d].state
      /\ "INCOMPLETE" \in entry'[d].state <=> "INCOMPLETE" \in entry[d].state
  BY <1>4
<1>6. ~Written(d) /\ ~Written(d)' /\ Base(d)' = Base(d) /\ Titled(d)' = Titled(d) /\ version'[d] = Content(d)
  BY <1>1, <1>2 DEF Written, Reading, Base, Titled, DocTypes
<1>7. FewFiles(d)'
  BY <1>1, <1>3, <1>4, <1>6, FewAfter DEF FilesInv
<1>8. Named(d)'
  BY <1>4, <1>6 DEF Named, SameItem
<1>9. Safekept(d)'
  <2>1. CASE "MODIFIED" \in entry[d].state
    BY <1>1, <1>2, <2>1 DEF Safekept
  <2>2. CASE "MODIFIED" \notin entry[d].state /\ phase = "backup"
    <3>1. entry[d].old # NoTemp /\ version'[d] = files[d][entry[d].old]
      BY <1>1, <1>6, <2>2 DEF ReadInv, Content
    <3>2. Kept(d)'
      BY <1>2, <1>3, <1>4, <1>6, <3>1 DEF Kept
    <3> QED BY <1>1, <1>2, <3>2 DEF Safekept
  <2>3. CASE "MODIFIED" \notin entry[d].state /\ phase # "backup"
    <3>1. phase = "load" /\ version'[d] = IF entry[d].org THEN original[d] ELSE 0
      BY <1>1, <1>6, <2>3 DEF Reading, Content
    <3>2. "INCOMPLETE" \in entry[d].state \/ entry[d].old = NoTemp
      BY <1>1, <3>1 DEF ReadInv
    <3>3. Excepted(d)' \/ Kept(d)'
      BY <1>2, <1>4, <1>5, <3>1, <3>2 DEF Excepted, Kept
    <3> QED BY <1>1, <1>2, <3>3 DEF Safekept
  <2> QED BY <2>1, <2>2, <2>3
<1>10. Marked(d)'
  <2>1. Content(d) > Base(d) => "MODIFIED" \in entry[d].state
    <3>1. CASE phase = "backup"
      <4>1. entry[d].old # NoTemp /\ Content(d) = files[d][entry[d].old]
        BY <1>1, <3>1 DEF ReadInv, Content
      <4> QED BY <1>1, <4>1 DEF ModifiedInv, Marked
    <3>2. CASE phase # "backup"
      <4>1. Content(d) = Base(d) \/ Content(d) = 0
        BY <1>2, <3>2 DEF Content, Base
      <4>2. Base(d) \in 0..MaxVersion
        BY <1>1, Contents
      <4>3. PICK b \in Nat : b = Base(d) /\ ~(b > b) /\ ~(0 > b)
        BY <4>2
      <4> QED BY <4>1, <4>3
    <3> QED BY <3>1, <3>2
  <2>2. d \in modified' => "MODIFIED" \in entry[d].state
    BY <1>1, <1>2 DEF DocTypes
  <2>3. Content(d) > Base(d) => d \in modified'
    BY <1>2, <2>1
  <2> QED BY <1>1, <1>3, <1>4, <1>5, <1>6, <2>1, <2>2, <2>3 DEF ModifiedInv, Marked
<1> QED
  BY <1>7, <1>8, <1>9, <1>10 DEF DocInv

LEMMA FailsKeeps ==
    ASSUME IInv, NEW d, d = Loading, FailsToLoad
    PROVE  DocInv(d)'
<1> USE DEF IInv, Types, Inv
<1>1. /\ Reading /\ job = "recovery" /\ d \in Docs /\ d \in Cached /\ ~DoneWith(entry[d].state) /\ job' = job /\ phase' = "visit"
      /\ Cached' = Cached /\ d \notin open /\ UNCHANGED <<open, modified, unsaved, version, original>>
  BY ReadingIs, NotLoaded DEF FailsToLoad, Reading, ReadInv, Cached, docVars
<1>2. /\ entry'[d].old = entry[d].old /\ files' = files /\ config'[d].temp = NoTemp
      /\ "MODIFIED" \in entry[d].state => "MODIFIED" \in entry'[d].state
  BY <1>1, FailsEffect DEF Parts, NoItem
<1>3. ~Written(d) /\ ~Written(d)' /\ Base(d)' = Base(d)
  BY <1>1 DEF Written, Reading, Base
<1>4. FewFiles(d)'
  BY <1>1, <1>2, <1>3, FewAfter DEF FilesInv
<1>5. Named(d)'
  BY <1>1 DEF Named
<1>6. Safekept(d)'
  BY <1>1, <1>3 DEF KeptInv, Safekept
<1>7. Marked(d)'
  BY <1>1, <1>2, <1>3 DEF ModifiedInv, Marked
<1> QED
  BY <1>4, <1>5, <1>6, <1>7 DEF DocInv


(* The ends of passes and the crashes. *)
LEMMA EndKeeps ==
    ASSUME IInv, EndStep, NEW c \in Docs
    PROVE  DocInv(c)'
<1> USE DEF IInv, Types, Inv
<1>1. /\ phase = "visit" /\ phase' = "visit" /\ job \in {"pass", "emergency", "recovery"} /\ job' \in {"none", "saved"}
      /\ job = "emergency" <=> job' = "saved"
      /\ UNCHANGED <<open, modified, unsaved, version, original, files>> /\ Cached' = Cached
  BY DEF EndStep, PassEnds, EmergencyEnds, RecoveryEnds, AtEnd, EndPass, Cached, docVars
<1>2. ~Written(c) /\ ~Written(c)' /\ Base(c)' = Base(c) /\ Titled(c)' = Titled(c)
  BY <1>1 DEF Written, Base, Titled
<1>3. /\ entry'[c].old = entry[c].old /\ entry'[c].org = entry[c].org
      /\ entry[c].state \ {"HANDLED", "POSTPONED"} \subseteq entry'[c].state
      /\ \/ config'[c] = config[c]
         \/ config'[c].state = entry'[c].state /\ config'[c].temp = entry[c].old /\ config'[c].org = entry[c].org
  <2>1. CASE UNCHANGED <<entry, config>>
    BY <2>1
  <2>2. CASE ResetHandleStates
    <3>1. /\ Parts(entry'[c], IF c \in Cached THEN entry[c].state \ {"HANDLED", "POSTPONED"} ELSE entry[c].state,
                   entry[c].used, entry[c].old, entry[c].org, entry[c].loaded)
          /\ config'[c] = IF c \in Cached THEN Item(entry'[c]) ELSE config[c]
      BY <1>1, <2>2, ResetEffect
    <3> QED BY <3>1, ItemParts DEF Parts
  <2> QED BY <2>1, <2>2 DEF EndStep, PassEnds, EmergencyEnds, RecoveryEnds
<1>4. /\ "MODIFIED" \in entry[c].state => "MODIFIED" \in entry'[c].state
      /\ "INCOMPLETE" \in entry[c].state => "INCOMPLETE" \in entry'[c].state
  BY <1>3
<1>5. FewFiles(c)'
  BY <1>1, <1>2, <1>3, FewAfter DEF FilesInv
<1>6. Named(c)'
  BY <1>1, <1>2, <1>3 DEF ConfigInv, Named, SameItem
<1>7. Safekept(c)'
  BY <1>1, <1>2, <1>3, <1>4 DEF KeptInv, Safekept, Excepted, Kept
<1>8. Marked(c)'
  BY <1>1, <1>2, <1>3, <1>4 DEF ModifiedInv, Marked
<1> QED
  BY <1>5, <1>6, <1>7, <1>8 DEF DocInv

LEMMA DownKeeps ==
    ASSUME IInv, DownStep, NEW c \in Docs
    PROVE  DocInv(c)'
<1> USE DEF IInv, Types, Inv
<1>1. /\ UNCHANGED files
      /\ \/ config'[c] = config[c]
         \/ GoesDown /\ \E e \in {entry[c], NewEntry(c)} : e \in Entry /\ config'[c] = Item(e)
  <2>1. EmergencyBreaks \/ UNCHANGED <<config, files>>
    BY DEF DownStep, Breaks, Crash
  <2> QED BY <2>1, BreaksEffect
<1>2. CASE GoesDown
  <2>1. /\ open' = {} /\ original' = original /\ version' = [d \in Docs |-> IF d \in open THEN Base(d) ELSE version[d]]
        /\ entry'[c] = NoEntry /\ job' = "down" /\ Cached' = {}
    BY <1>2, DownEffect
  <2>2. Base(c)' = Base(c) /\ version'[c] = Base(c)
    BY <2>1 DEF Base, KeptInv, Safekept
  <2>3. Named(c)' /\ Safekept(c)'
    BY <2>1, <2>2 DEF Named, Safekept
  <2>4. config'[c].temp # NoTemp /\ files'[c][config'[c].temp] > Base(c) => "MODIFIED" \in config'[c].state
    <3>1. NewEntry(c).old = NoTemp
      BY NewEntryParts DEF Parts
    <3>2. ASSUME NEW e \in {entry[c], NewEntry(c)}, e \in Entry, config'[c] = Item(e)
          PROVE  config'[c].temp = e.old /\ config'[c].state = e.state
      BY <3>2, ItemParts
    <3> QED BY <1>1, <3>1, <3>2 DEF ModifiedInv, Marked
  <2>5. Marked(c)'
    BY <2>1, <2>2, <2>4 DEF Marked, NoEntry
  <2> QED BY <2>1, <2>3, <2>5 DEF DocInv
<1>3. CASE ~GoesDown
  <2> USE <1>3
  <2>1. Breaks /\ job # "emergency"
    BY <1>3 DEF DownStep, Breaks, EmergencyBreaks, Crash
  <2>2. /\ UNCHANGED <<open, modified, unsaved, version, original, m_lDocCache, entry, skipped>> /\ job' = "none" /\ phase' = "visit"
        /\ phase \in {"store", "visit"}
    BY <2>1 DEF Breaks, EndPass, docVars, Visits
  <2>3. job = "pass"
    BY <2>1 DEF Breaks, Visits, PlaceInv, Storing
  <2>4. Base(c)' = Base(c) /\ Titled(c)' = Titled(c) /\ Cached' = Cached /\ ~Written(c) /\ ~Written(c)'
    BY <2>2 DEF Base, Titled, Cached, Written
  <2>5. FewFiles(c)'
    BY <1>1, <2>2, <2>3, <2>4, FewAfter DEF FilesInv
  <2>6. Named(c)'
    BY <1>1, <2>2, <2>4 DEF ConfigInv, Named, SameItem
  <2>7. Safekept(c)'
    BY <1>1, <2>2, <2>3, <2>4 DEF KeptInv, Safekept, Excepted, Kept
  <2>8. Marked(c)'
    BY <1>1, <2>2, <2>4 DEF ModifiedInv, Marked
  <2> QED BY <2>5, <2>6, <2>7, <2>8 DEF DocInv
<1> QED
  BY <1>2, <1>3

LEMMA EmergencyKeeps ==
    ASSUME IInv, EmergencySave, NEW c \in Docs
    PROVE  DocInv(c)'
<1> USE DEF IInv, Types, Inv
<1>1. /\ job \in {"none", "pass"} /\ job' = "emergency" /\ phase' = "visit"
      /\ UNCHANGED <<open, modified, unsaved, version, original>>
      /\ skipped' = {d \in Docs : "HANDLED" \in entry[d].state} \union IF phase = "remove" THEN {copy.doc} ELSE {}
  BY DEF EmergencySave, CrashIsCaught, StartPass, docVars
<1>2. /\ EntryTypes' /\ files' = files /\ Cached' = Cached \union open
      /\ entry'[c] = IF c \in Unknown THEN NewEntry(c) ELSE entry[c]
      /\ config'[c] = IF c \in Cached \union Unknown THEN Item(entry'[c]) ELSE config[c]
  BY EmergencyEffect
<1>3. Base(c)' = Base(c) /\ Titled(c)' = Titled(c) /\ ~Written(c)'
  BY <1>1 DEF Base, Titled, Written
<1>4. CASE c \in Unknown
  <2>1. c \in open /\ c \notin Cached /\ entry[c].old = NoTemp /\ ~Written(c)
    <3>1. c \in open /\ c \notin Cached
      BY <1>4 DEF Unknown
    <3>2. ~Written(c)
      BY <3>1, StoringIs DEF Written, Storing
    <3> QED BY <3>1, <3>2 DEF CacheInv, Known, NoEntry
  <2>2. /\ Parts(entry'[c], IF c \in modified THEN {"MODIFIED"} ELSE {}, FALSE, NoTemp, Titled(c), TRUE)
        /\ config'[c] = Item(entry'[c])
    BY <1>2, <1>4, NewEntryParts
  <2>3. /\ entry'[c].state = (IF c \in modified THEN {"MODIFIED"} ELSE {}) /\ entry'[c].old = NoTemp /\ entry'[c].org = Titled(c)
        /\ config'[c].state = entry'[c].state /\ config'[c].temp = NoTemp /\ config'[c].org = Titled(c)
    BY <2>2, ItemParts DEF Parts
  <2>4. FewFiles(c)'
    BY <1>1, <1>2, <2>1, <2>3, TempAssumption, FewAfter DEF FilesInv
  <2>5. Named(c)'
    BY <1>3, <2>3 DEF Named, SameItem
  <2>6. Safekept(c)'
    <3>1. c \in unsaved \/ version[c] = Base(c)
      BY <2>1 DEF KeptInv, Safekept
    <3> QED BY <1>1, <1>2, <1>3, <2>1, <2>3, <3>1 DEF Safekept, Kept, Base, Titled
  <2>7. Marked(c)'
    <3>1. c \in modified' => "MODIFIED" \in entry'[c].state
      BY <1>1, <2>3
    <3> QED BY <1>1, <1>3, <2>1, <2>3, <3>1 DEF ModifiedInv, Marked
  <2> QED BY <2>4, <2>5, <2>6, <2>7 DEF DocInv
<1>5. CASE c \notin Unknown
  <2>1. entry'[c] = entry[c] /\ entry[c] \in Entry
    BY <1>2, <1>5 DEF EntryTypes
  <2>2. \/ c \notin Cached /\ c \notin open /\ config'[c] = config[c]
        \/ config'[c].state = entry[c].state /\ config'[c].temp = entry[c].old /\ config'[c].org = entry[c].org
    BY <1>2, <1>5, <2>1, ItemParts DEF Unknown
  <2>3. FewFiles(c)'
    <3>1. PICK x \in Names :
            /\ job \notin {"emergency", "saved"} => x = NoTemp
            /\ \A t \in Temps : files[c][t] # None =>
                  t = entry[c].old \/ t = x \/ (Written(c) /\ t = copy.info.old)
      BY <1>1 DEF FilesInv, FewFiles
    <3>2. x = NoTemp
      BY <1>1, <3>1
    <3> DEFINE y == IF Written(c) THEN copy.info.old ELSE NoTemp
    <3>3. y \in Names
      BY DEF Names, Written, CopyInv, Storing, Entry
    <3>4. \A t \in Temps : files'[c][t] # None => t = entry'[c].old \/ t = y
      BY <1>2, <2>1, <3>1, <3>2, TempAssumption
    <3> HIDE DEF y
    <3> QED BY <1>1, <3>3, <3>4 DEF FewFiles
  <2>4. Named(c)'
    BY <1>1, <1>2, <1>3, <2>1, <2>2 DEF Named, SameItem, Unknown
  <2>5. Safekept(c)'
    <3>1. Written(c) => c \in skipped'
      BY <1>1 DEF Written
    <3>2. c \in open => c \in Cached
      BY <1>5 DEF Unknown
    <3> QED BY <1>1, <1>2, <1>3, <2>1, <3>1, <3>2 DEF KeptInv, Safekept, Excepted, Kept
  <2>6. Marked(c)'
    BY <1>1, <1>2, <1>3, <1>5, <2>1, <2>2 DEF ModifiedInv, Marked, Unknown
  <2> QED BY <2>3, <2>4, <2>5, <2>6 DEF DocInv
<1> QED
  BY <1>4, <1>5

LEMMA RestartKeeps ==
    ASSUME IInv, Restart, NEW c \in Docs
    PROVE  DocInv(c)'
<1> USE DEF IInv, Types, Inv
<1>1. open = {} /\ job' = "recovery" /\ phase' = "visit" /\ UNCHANGED <<open, modified, unsaved, version, original>>
  BY DEF Restart, StartPass, docVars, PlaceInv
<1>2. /\ config' = config
      /\ config[c].present => Parts(entry'[c], config[c].state, FALSE, config[c].temp, config[c].org, FALSE)
      /\ ~config[c].present => entry'[c] = NoEntry
      /\ \A t \in Temps : files'[c][t] = IF t = config[c].temp THEN files[c][t] ELSE None
  BY RestartEffect
<1>3. /\ config[c].temp \in Names
      /\ ~config[c].present => config[c].temp = NoTemp
  BY DEF DiskTypes, Items, NoItem
<1>4. entry'[c].old = config[c].temp /\ (config[c].present => entry'[c].state = config[c].state)
  BY <1>2, <1>3 DEF Parts, NoEntry
<1>5. Base(c)' = Base(c)
  BY <1>1 DEF Base
<1>6. FewFiles(c)'
  <2>1. \A t \in Temps : files'[c][t] # None => t = entry'[c].old
    BY <1>2, <1>4
  <2> QED BY <2>1 DEF FewFiles, Names
<1>7. Named(c)'
  BY <1>1 DEF Named
<1>8. Safekept(c)'
  BY <1>1, <1>5 DEF KeptInv, Safekept
<1>9. Marked(c)'
  <2>1. config[c].temp # NoTemp => files'[c][config[c].temp] = files[c][config[c].temp] /\ config[c].present
    BY <1>2, <1>3 DEF Names
  <2> QED BY <1>1, <1>2, <1>4, <1>5, <2>1 DEF ModifiedInv, Marked
<1> QED
  BY <1>6, <1>7, <1>8, <1>9 DEF DocInv

LEMMA DocsKept ==
    ASSUME IInv, [Next]_vars
    PROVE  FilesInv' /\ ConfigInv' /\ KeptInv' /\ ModifiedInv'
<1>1. ASSUME NEW c \in Docs
      PROVE  DocInv(c)'
  <2>1. ASSUME NEW d \in Docs, UserStep(d)
        PROVE  DocInv(c)'
    BY <2>1, OthersKeep, UserKeeps
  <2>2. ASSUME NEW d \in Docs, PassStep(d)
        PROVE  DocInv(c)'
    BY <2>2, OthersKeep, PassKeeps
  <2>3. CASE StoreStep(copy.doc)
    BY <2>3, OthersKeep, StoreOriginalKeeps, StoreRecoveryKeeps, RemoveOldKeeps DEF StoreStep
  <2>4. CASE LoadStep(Loading)
    BY <2>4, OthersKeep, LoadsKeeps, FailsKeeps DEF LoadStep
  <2>5. CASE TurnStep
    <3>1. job' = job \/ (job = "none" /\ job' = "pass")
      BY <2>5 DEF TurnStep, ChangeAutoSave, TimerExpires, StartPass, EmergencyTurns, RecoveryTurns, AtEnd, passVars, vars
    <3>2. skipped \subseteq skipped'
      BY <2>5 DEF TurnStep, ChangeAutoSave, TimerExpires, EmergencyTurns, RecoveryTurns, duty, vars
    <3>3. UNCHANGED <<phase, copy>> \/ (phase = "visit" /\ phase' = "visit")
      <4>1. job = "none" => phase = "visit"
        BY DEF IInv, Inv, PlaceInv
      <4> QED BY <2>5, <4>1 DEF TurnStep, ChangeAutoSave, TimerExpires, StartPass, EmergencyTurns, RecoveryTurns, AtEnd, passVars, vars
    <3> QED BY <2>5, <3>1, <3>2, <3>3, TurnLeaves, FrameKeeps DEF Written
  <2> QED BY <2>1, <2>2, <2>3, <2>4, <2>5, EndKeeps, DownKeeps, EmergencyKeeps, RestartKeeps, Kinds
<1>2. (\A c \in Docs : DocInv(c)') => (FilesInv /\ ConfigInv /\ KeptInv /\ ModifiedInv)'
  BY DEF FilesInv, ConfigInv, KeptInv, ModifiedInv, DocInv
<1> QED
  BY <1>1, <1>2

-----------------------------------------------------------------------------
(* An emergency save goes on to the end                                    *)

LEMMA InEmergency ==
    ASSUME NEW d \in Docs, job \in {"emergency", "saved"}
    PROVE  ~UserStep(d) /\ ~SkipEntry(d) /\ ~BeginLoad(d)
<1>1. ~UserTurn /\ ~SaveBegins(d) /\ ~SaveFails(d) /\ ~CleanUpEntry(d)
  BY DEF UserTurn, SaveBegins, SaveFails, CleanUpEntry
<1>2. ~Open(d) /\ ~Modify(d) /\ ~SaveEnds(d) /\ ~Close(d)
  BY <1>1 DEF Open, Modify, SaveEnds, Close
<1>3. ~SkipEntry(d) /\ ~BeginLoad(d)
  BY DEF SkipEntry, BeginLoad, Visits
<1> QED
  BY <1>1, <1>2, <1>3 DEF UserStep

(* The document at the place that is left is seen, and what was ahead stays *)
(* so, but for this document.                                               *)
LEMMA NextSeen ==
    ASSUME IInv, job = "emergency", job' = job, NEW d \in Docs, at \in 1..Len(Order), d = Order[at], at' = at + 1,
           UNCHANGED <<open, m_lDocCache>>, unsaved' \subseteq unsaved,
           dangerous' = dangerous \/ (at <= Len(m_lDocCache) /\ dangerous' = Append(dangerous, d)),
           suggested = "again" => suggested' = "again",
           \A c \in Docs \ {d} : entry'[c] = entry[c] /\ (c \in skipped => c \in skipped'),
           d \in open => Seen(d)' /\ Excused(d)'
    PROVE  EmergencyInv'
<1> USE DEF IInv, Types, Inv
<1>1. /\ Len(m_lDocCache) \in Nat /\ Len(dangerous) \in Nat /\ Len(Order) = Len(m_lDocCache) + Len(dangerous)
      /\ \A i \in 1..Len(m_lDocCache) : m_lDocCache[i] \in Docs
      /\ \A j \in 1..Len(dangerous) : dangerous[j] \in Docs
  BY OrderIs, ElementOfSeq DEF CacheInv
<1>2. PICK l \in Nat, k \in Nat : l = Len(m_lDocCache) /\ k = Len(dangerous)
  BY <1>1
<1>3. PICK p \in Nat : p = at /\ p \in 1..l + k
  BY <1>1, <1>2
<1>4. open' \subseteq Cached'
  BY DEF EmergencyInv, Cached
<1>5. /\ \E k1 \in Nat : k1 = Len(dangerous') /\ k1 >= k
      /\ \A j \in 1..k : dangerous'[j] = dangerous[j]
  <2>1. CASE dangerous' = dangerous
    BY <1>2, <2>1
  <2>2. CASE dangerous' = Append(dangerous, d)
    <3>1. Len(dangerous') = k + 1 /\ \A j \in 1..k : dangerous'[j] = dangerous[j]
      BY <1>2, <2>2, AppendProperties DEF CacheInv
    <3> QED BY <1>2, <3>1
  <2> QED BY <2>1, <2>2
<1>6. ASSUME NEW c \in Docs \ {d}, Ahead(c)
      PROVE  Ahead(c)'
  <2>1. PICK j \in 1..k : dangerous[j] = c /\ l + j >= p
    BY <1>2, <1>3, <1>6 DEF Ahead
  <2>2. l + j # p
    <3>1. CASE p > l
      <4>1. Order[at] = dangerous[at - Len(m_lDocCache)]
        BY <1>2, <1>3, <3>1, OrderIs
      <4>2. l + j = p => j = p - l
        BY <2>1, <3>1
      <4> QED BY <1>2, <1>3, <2>1, <4>1, <4>2
    <3>2. CASE p <= l
      BY <1>3, <2>1, <3>2
    <3> QED BY <1>3, <3>1, <3>2
  <2>3. l + j >= p + 1
    BY <1>3, <2>1, <2>2
  <2>4. PICK k1 \in Nat : k1 = Len(dangerous') /\ k1 >= k
    BY <1>5
  <2>5. j \in 1..k1 /\ dangerous'[j] = c
    BY <1>5, <2>1, <2>4
  <2> QED BY <1>2, <1>3, <2>3, <2>4, <2>5 DEF Ahead
<1>7. ASSUME NEW c \in open'
      PROVE  Excused(c)'
  <2>1. CASE c = d
    BY <1>7, <2>1
  <2>2. CASE c # d
    BY <1>7, <2>2 DEF EmergencyInv, Excused, DocTypes
  <2> QED BY <2>1, <2>2
<1>8. ASSUME NEW i \in 1..l, NEW c \in open, c = m_lDocCache[i], i < p + 1
      PROVE  Seen(c)'
  <2>1. CASE c = d
    BY <1>8, <2>1
  <2>2. CASE c # d
    <3>1. i # p
      BY <1>2, <1>3, <1>8, <2>2, OrderIs
    <3>2. i < at
      BY <1>3, <1>8, <3>1
    <3>3. Seen(c)
      BY <1>2, <1>8, <3>2 DEF EmergencyInv
    <3>4. c \in Docs \ {d}
      BY <2>2 DEF DocTypes
    <3>5. (Ahead(c) => Ahead(c)') /\ entry'[c] = entry[c]
      BY <1>6, <3>4
    <3> QED BY <3>3, <3>5 DEF Seen
  <2> QED BY <2>1, <2>2
<1>9. \A i \in 1..l : i < p + 1 /\ m_lDocCache[i] \in open => \E c \in open : c = m_lDocCache[i] /\ Seen(c)'
  BY <1>8
<1>10. m_lDocCache' = m_lDocCache /\ open' = open /\ at' = p + 1 /\ job' = "emergency"
  BY <1>3
<1>11. \A i \in 1..Len(m_lDocCache') : i < at' /\ m_lDocCache'[i] \in open' => Seen(m_lDocCache[i])'
  <2> SUFFICES ASSUME NEW i \in 1..l, i < p + 1, m_lDocCache'[i] \in open' PROVE Seen(m_lDocCache[i])'
    BY <1>2, <1>10
  <2>1. PICK c \in open : c = m_lDocCache[i] /\ Seen(c)'
    BY <1>9, <1>10
  <2>2. c = m_lDocCache'[i]
    BY <1>10, <2>1
  <2> QED BY <2>1, <2>2 DEF Seen, Ahead
<1> QED
  BY <1>4, <1>7, <1>10, <1>11 DEF EmergencyInv

(* A document is being stored: the place is the same. *)
LEMMA SameSeen ==
    ASSUME IInv, job = "emergency", job' = job, unsaved' \subseteq unsaved,
           UNCHANGED <<open, m_lDocCache, entry, at, suggested, dangerous, skipped>>
    PROVE  EmergencyInv'
<1> USE DEF IInv, Types, Inv
<1>1. open' \subseteq Cached'
  BY DEF EmergencyInv, Cached
<1>2. ASSUME NEW c \in open
      PROVE  Excused(c)' /\ (Seen(c) => Seen(c)')
  BY <1>2 DEF EmergencyInv, Excused, Seen, Ahead
<1>3. \A i \in 1..Len(m_lDocCache) : i < at /\ m_lDocCache[i] \in open => Seen(m_lDocCache[i])'
  <2> SUFFICES ASSUME NEW i \in 1..Len(m_lDocCache), i < at, NEW c \in open, c = m_lDocCache[i] PROVE Seen(m_lDocCache[i])'
    OBVIOUS
  <2>1. Seen(c)'
    BY <1>2 DEF EmergencyInv
  <2>2. c = m_lDocCache'[i]
    OBVIOUS
  <2> QED BY <2>1, <2>2 DEF Seen, Ahead
<1> QED
  BY <1>1, <1>2, <1>3 DEF EmergencyInv

(* A document is looked at and not saved now. *)
LEMMA SkipSeen ==
    ASSUME IInv, job = "emergency", NEW d \in Docs, NEW isActive \in BOOLEAN, Skip(d, isActive)
    PROVE  EmergencyInv'
<1> USE DEF IInv, Types, Inv
<1>1. /\ at \in 1..Len(Order) /\ d = Order[at] /\ at' = at + 1 /\ job' = job
      /\ UNCHANGED <<open, unsaved, m_lDocCache, skipped>> /\ Passes(d, isActive)
      /\ phase = "visit" /\ phase' = phase
  BY DEF Skip, Visits, docVars, duty
<1>2. at <= Len(m_lDocCache) /\ (entry[d].loaded => d \in open) /\ (d \in open => d \in Cached /\ entry[d].loaded)
  BY <1>1 DEF Passes, EmergencyInv, CacheInv, Known
<1>3. \A c \in Docs \ {d} : entry'[c] = entry[c]
  BY <1>1, SkipEffect
<1>4. entry'[d].state = entry[d].state \/ entry'[d].state = entry[d].state \union {"POSTPONED"}
  BY <1>1, SkipEffect
<1>5. "HANDLED" \in entry'[d].state <=> "HANDLED" \in entry[d].state
  BY <1>4
<1>6. "INCOMPLETE" \in entry'[d].state <=> "INCOMPLETE" \in entry[d].state
  BY <1>4
<1> DEFINE looked == entry[d].loaded /\ "HANDLED" \notin entry[d].state /\ d \in unsaved
<1>7. /\ dangerous' = IF looked /\ entry[d].used THEN Append(dangerous, d) ELSE dangerous
      /\ suggested' = IF looked /\ ~entry[d].used THEN "again" ELSE suggested
  BY <1>1 DEF Passes
<1>8. dangerous' = Append(dangerous, d) => Ahead(d)'
  <2> SUFFICES ASSUME dangerous' = Append(dangerous, d) PROVE Ahead(d)'
    OBVIOUS
  <2>1. PICK k \in Nat, l \in Nat : k = Len(dangerous) /\ l = Len(m_lDocCache)
    BY OrderIs
  <2>2. Len(dangerous') = k + 1 /\ dangerous'[k + 1] = d
    BY <2>1, AppendProperties DEF CacheInv
  <2>3. PICK p \in Nat : p = at /\ p <= l
    BY <1>1, <1>2, <2>1, OrderIs
  <2>4. k + 1 \in 1..k + 1 /\ l + (k + 1) >= p + 1
    BY <2>1, <2>3
  <2> QED BY <1>1, <2>1, <2>2, <2>3, <2>4 DEF Ahead
<1>9. d \in open => Seen(d)' /\ Excused(d)'
  <2> SUFFICES ASSUME d \in open PROVE Seen(d)' /\ Excused(d)'
    OBVIOUS
  <2>1. Excused(d)'
    BY <1>1, <1>5, <1>6 DEF EmergencyInv, Excused
  <2>2. CASE looked /\ entry[d].used
    BY <1>7, <1>8, <2>1, <2>2 DEF Seen
  <2>3. CASE looked /\ ~entry[d].used
    BY <1>7, <2>1, <2>3 DEF Seen
  <2>4. CASE ~looked
    BY <1>1, <1>2, <1>5, <2>1, <2>4 DEF Seen
  <2> QED BY <2>2, <2>3, <2>4
<1>10. dangerous' = dangerous \/ (at <= Len(m_lDocCache) /\ dangerous' = Append(dangerous, d))
  BY <1>2, <1>7
<1>11. suggested = "again" => suggested' = "again"
  BY <1>7
<1> HIDE DEF looked
<1> QED
  BY <1>1, <1>3, <1>9, <1>10, <1>11, NextSeen

(* It refuses to be saved, or it has been stored. *)
LEMMA HandledSeen ==
    ASSUME IInv, job = "emergency", NEW d \in Docs, RefusesToSave(d) \/ (d = copy.doc /\ RemoveOld)
    PROVE  EmergencyInv'
<1> USE DEF IInv, Types, Inv
<1>1. CASE RefusesToSave(d)
  <2>1. /\ at \in 1..Len(Order) /\ d = Order[at] /\ at' = at + 1 /\ job' = job
        /\ UNCHANGED <<open, unsaved, m_lDocCache, suggested, dangerous>> /\ skipped' = skipped \union {d}
    BY <1>1 DEF RefusesToSave, Visits, docVars
  <2>2. (\A c \in Docs \ {d} : entry'[c] = entry[c]) /\ entry'[d].state = entry[d].state \union {"HANDLED"}
    BY <1>1, RefusesEffect DEF Parts
  <2>3. Seen(d)' /\ Excused(d)'
    BY <2>1, <2>2 DEF Seen, Excused
  <2> QED BY <2>1, <2>2, <2>3, NextSeen
<1>2. CASE d = copy.doc /\ RemoveOld
  <2>1. /\ at' = at + 1 /\ job' = job
        /\ UNCHANGED <<open, unsaved, m_lDocCache, suggested, dangerous, skipped>>
    BY <1>2 DEF RemoveOld, docVars, duty
  <2>2. at \in 1..Len(Order) /\ d = Order[at]
    BY <1>2, StoringIs DEF RemoveOld, Storing
  <2>3. (\A c \in Docs \ {d} : entry'[c] = entry[c]) /\ entry'[d] = copy.info
    BY <1>2, RemoveOldEffect DEF Only
  <2>4. "HANDLED" \in copy.info.state /\ ("INCOMPLETE" \in copy.info.state \/ d \notin unsaved)
    BY <1>2 DEF RemoveOld, CopyInv
  <2>5. Seen(d)' /\ Excused(d)'
    BY <2>1, <2>3, <2>4 DEF Seen, Excused
  <2> QED BY <2>1, <2>2, <2>3, <2>5, NextSeen
<1> QED
  BY <1>1, <1>2

(* Where it starts, nothing is behind. *)
LEMMA StartSeen ==
    ASSUME open' \subseteq Cached', at' = 1, \A c \in open' : Excused(c)', CacheInv'
    PROVE  EmergencyInv'
<1>1. \A i \in 1..Len(m_lDocCache') : ~(i < at')
  <2>1. Len(m_lDocCache') \in Nat
    BY LenProperties DEF CacheInv
  <2> QED BY <2>1
<1> QED
  BY <1>1 DEF EmergencyInv

LEMMA EmergencyKept ==
    ASSUME IInv, [Next]_vars
    PROVE  EmergencyInv'
<1> USE DEF IInv, Types, Inv
<1>1. CASE \E d \in Docs : UserStep(d) \/ PassStep(d)
  <2>1. PICK d \in Docs : UserStep(d) \/ PassStep(d)
    BY <1>1
  <2>2. job' = job
    BY <2>1, JobStays
  <2>3. CASE job \in {"emergency", "saved"}
    <3>1. PassStep(d) /\ ~SkipEntry(d) /\ ~BeginLoad(d)
      BY <2>1, <2>3, InEmergency
    <3>2. job = "emergency"
      BY <2>3, <3>1 DEF PassStep, RefusesToSave, Skip, BeginSave, Visits
    <3>3. ASSUME NEW isActive \in BOOLEAN, NEW userAutoSave \in BOOLEAN, BeginSave(d, isActive, userAutoSave)
          PROVE  EmergencyInv'
      <4>1. entry' = entry
        BY <3>3, BeginSaveEffect
      <4> QED BY <2>2, <3>2, <3>3, <4>1, SameSeen DEF BeginSave, docVars, duty
    <3> QED BY <3>1, <3>2, <3>3, SkipSeen, HandledSeen DEF PassStep
  <2>4. CASE job \notin {"emergency", "saved"}
    BY <2>2, <2>4 DEF EmergencyInv
  <2> QED BY <2>3, <2>4
<1>2. CASE StoreStep(copy.doc)
  <2>1. job' = job
    BY <1>2, JobStays
  <2>2. Storing /\ job \in {"pass", "emergency"}
    BY <1>2 DEF StoreStep, StoreOriginal, StoreRecovery, RemoveOld, Storing, PlaceInv
  <2>3. CASE job = "pass"
    BY <2>1, <2>3 DEF EmergencyInv
  <2>4. CASE job = "emergency"
    <3>1. ~StoreOriginal
      BY <2>4 DEF StoreOriginal, PlaceInv
    <3>2. CASE StoreRecovery
      <4>1. unsaved' \subseteq unsaved
        BY <3>2 DEF StoreRecovery
      <4> QED BY <2>1, <2>4, <3>2, <4>1, SameSeen DEF StoreRecovery, duty
    <3>3. CASE RemoveOld
      BY <2>2, <2>4, <3>3, HandledSeen, StoringIs
    <3> QED BY <1>2, <3>1, <3>2, <3>3 DEF StoreStep
  <2> QED BY <2>2, <2>3, <2>4
<1>3. CASE LoadStep(Loading)
  BY <1>3, JobStays DEF LoadStep, Loads, FailsToLoad, Reading, PlaceInv, EmergencyInv
<1>4. CASE TurnStep
  <2>1. CASE \/ \E on \in BOOLEAN : ChangeAutoSave(on)
             \/ \E captured, idle \in BOOLEAN : TimerExpires(captured, idle)
             \/ RecoveryTurns
    <3>1. job' \notin {"emergency", "saved"}
      BY <2>1 DEF ChangeAutoSave, TimerExpires, RecoveryTurns, StartPass, passVars
    <3> QED BY <3>1 DEF EmergencyInv
  <2>2. CASE EmergencyTurns
    <3>1. UNCHANGED <<open, unsaved, m_lDocCache, entry, skipped>> /\ at' = 1 /\ job = "emergency"
      BY <2>2 DEF EmergencyTurns, AtEnd, StartPass, docVars, duty
    <3>2. open' \subseteq Cached' /\ \A c \in open' : Excused(c)'
      BY <3>1 DEF EmergencyInv, Excused, Cached
    <3>3. CacheInv'
      BY CacheKept
    <3> QED BY <3>1, <3>2, <3>3, StartSeen
  <2>3. CASE UNCHANGED vars
    <3>1. CASE job = "emergency"
      BY <2>3, <3>1, SameSeen DEF vars, docVars, passVars, duty
    <3>2. CASE job # "emergency"
      BY <2>3, <3>2 DEF vars, docVars, passVars, EmergencyInv, Cached
    <3> QED BY <3>1, <3>2
  <2> QED BY <1>4, <2>1, <2>2, <2>3 DEF TurnStep
<1>5. CASE EndStep
  <2>1. job' # "emergency" /\ (job' = "saved" => job = "emergency" /\ UNCHANGED <<open, m_lDocCache>>)
    BY <1>5 DEF EndStep, PassEnds, EmergencyEnds, RecoveryEnds, EndPass, AtEnd, docVars
  <2> QED BY <2>1 DEF EmergencyInv, Cached
<1>6. CASE DownStep
  <2>1. job' \in {"none", "down"}
    BY <1>6 DEF DownStep, Breaks, EmergencyBreaks, Crash, GoesDown, EndPass
  <2> QED BY <2>1 DEF EmergencyInv
<1>7. CASE EmergencySave
  <2>1. CacheInv' /\ at' = 1 /\ open' = open /\ unsaved' = unsaved
    BY <1>7, CacheKept DEF EmergencySave, StartPass, docVars
  <2>2. /\ Cached' = Cached \union open
        /\ \A c \in Docs : entry'[c] = IF c \in Unknown THEN NewEntry(c) ELSE entry[c]
    BY <1>7, EmergencyEffect
  <2>3. ASSUME NEW c \in Docs
        PROVE  Excused(c)'
    <3>1. CASE c \in Unknown
      <4>1. "HANDLED" \notin entry'[c].state
        <5>1. entry'[c] = NewEntry(c)
          BY <2>2, <3>1
        <5>2. NewEntry(c).state \subseteq {"MODIFIED"}
          BY NewEntryParts DEF Parts
        <5> QED BY <5>1, <5>2
      <4> QED BY <4>1 DEF Excused
    <3>2. CASE c \notin Unknown
      <4>1. "HANDLED" \in entry[c].state => c \in skipped'
        BY <1>7 DEF EmergencySave
      <4> QED BY <2>2, <3>2, <4>1 DEF Excused
    <3> QED BY <3>1, <3>2
  <2> QED BY <2>1, <2>2, <2>3, StartSeen DEF DocTypes
<1>8. CASE Restart
  BY <1>8 DEF Restart, StartPass, EmergencyInv
<1> QED
  BY <1>1, <1>2, <1>3, <1>4, <1>5, <1>6, <1>7, <1>8, Kinds

-----------------------------------------------------------------------------
(* What a recovery owes is kept                                            *)

(* The entry at the place that is left was tried. *)
LEMMA NextTried ==
    ASSUME IInv, job = "recovery", NEW d \in Docs, at \in 1..Len(m_lDocCache), d = m_lDocCache[at],
           at' = at \/ (at' = at + 1 /\ Tried(d)'), m_lDocCache' = m_lDocCache,
           suggested = "again" => suggested' = "again",
           \A c \in Docs \ {d} : entry'[c] = entry[c]
    PROVE  \A i \in 1..Len(m_lDocCache') : i < at' => Tried(m_lDocCache[i])'
<1> USE DEF IInv, Types, Inv
<1>1. Len(m_lDocCache) \in Nat
  BY OrderIs
<1>2. PICK p \in Nat, l \in Nat : p = at /\ l = Len(m_lDocCache)
  BY <1>1
<1>3. ASSUME NEW i \in 1..l, i < at', NEW c \in Docs, c = m_lDocCache[i]
      PROVE  Tried(c)'
  <2>1. CASE c = d
    <3>1. i = p
      BY <1>2, <1>3, <2>1 DEF CacheInv
    <3>2. at' # p
      BY <1>3, <3>1
    <3> QED BY <1>2, <2>1, <3>2
  <2>2. CASE c # d
    <3>1. i # p /\ (i < p \/ i < p + 1)
      BY <1>2, <1>3, <2>2
    <3>2. i < p
      BY <3>1
    <3>3. Tried(c)
      BY <1>2, <1>3, <3>2 DEF DueInv
    <3> QED BY <2>2, <3>3 DEF Tried
  <2> QED BY <2>1, <2>2
<1>4. ASSUME NEW i \in 1..l, i < at'
      PROVE  Tried(m_lDocCache[i])'
  <2>1. m_lDocCache[i] \in Docs
    BY <1>2, ElementOfSeq DEF CacheInv
  <2>2. PICK c \in Docs : c = m_lDocCache[i]
    BY <2>1
  <2>3. Tried(c)' /\ c = m_lDocCache'[i]
    BY <1>3, <1>4, <2>2
  <2> QED BY <2>3 DEF Tried
<1> QED
  BY <1>2, <1>4

(* What is owed of the other documents. *)
LEMMA OthersOwed ==
    ASSUME IInv, job = "recovery", NEW c \in Docs, Unmoved(c), due'[c] = due[c],
           Reading => c # Loading, Reading' => c # Loading'
    PROVE  Owing(c)'
<1> USE DEF IInv, Types, Inv
<1>1. Owing(c)
  BY DEF DueInv
<1>2. Latest(c)' = Latest(c) /\ Last(c)' = Last(c)
  BY DEF Unmoved, Latest, Last
<1>3. StillOwed(c)' = StillOwed(c)
  BY <1>2 DEF Unmoved, StillOwed, BackupWasTried, OriginalWasTried
<1> QED
  BY <1>1, <1>3 DEF Owing, Unmoved

LEMMA SkipEntryOwed ==
    ASSUME IInv, NEW d \in Docs, SkipEntry(d)
    PROVE  DueInv'
<1> USE DEF IInv, Types, Inv
<1>1. /\ job = "recovery" /\ job' = job /\ phase = "visit" /\ phase' = phase /\ d \in Docs /\ d \in Cached /\ d = m_lDocCache[at]
      /\ at \in 1..Len(m_lDocCache) /\ at' = at + 1
      /\ UNCHANGED <<open, version, original, m_lDocCache, files, due, suggested>>
  BY RecoveryIs DEF SkipEntry, docVars, duty
<1>2. /\ \A c \in Docs \ {d} : entry'[c] = entry[c]
      /\ entry'[d].old = entry[d].old /\ entry'[d].org = entry[d].org
      /\ DoneWith(entry'[d].state)
      /\ \/ entry'[d] = entry[d] /\ DoneWith(entry[d].state)
         \/ BackupWasTried(d) /\ OriginalWasTried(d)
  BY SkipEntryEffect DEF Parts
<1>3. \A i \in 1..Len(m_lDocCache') : i < at' => Tried(m_lDocCache[i])'
  <2>1. Tried(d)'
    BY <1>2 DEF Tried
  <2> QED BY <1>1, <1>2, <2>1, NextTried
<1>4. ~Reading /\ ~Reading'
  BY <1>1 DEF Reading
<1>5. ASSUME NEW c \in Docs \ {d}
      PROVE  Owing(c)'
  <2>1. Unmoved(c) /\ due'[c] = due[c]
    BY <1>1, PassStepLeaves DEF PassStep
  <2> QED BY <1>1, <1>4, <2>1, OthersOwed
<1>6. Owing(d)'
  <2>1. StillOwed(d) = None
    BY <1>2, <1>4 DEF StillOwed
  <2>2. due[d] # None => d \in open /\ version[d] >= due[d]
    BY <1>1, <2>1 DEF DueInv, Owing
  <2> QED BY <1>1, <2>2 DEF Owing, Cached
<1> QED
  BY <1>1, <1>3, <1>5, <1>6 DEF DueInv

LEMMA BeginLoadOwed ==
    ASSUME IInv, NEW d \in Docs, BeginLoad(d)
    PROVE  DueInv'
<1> USE DEF IInv, Types, Inv
<1>1. /\ job = "recovery" /\ job' = job /\ phase = "visit" /\ d \in Docs /\ d \in Cached /\ d = m_lDocCache[at]
      /\ at \in 1..Len(m_lDocCache) /\ at' = at
      /\ UNCHANGED <<open, version, original, m_lDocCache, files, due, suggested, dangerous>>
  BY RecoveryIs DEF BeginLoad, docVars, duty
<1>2. /\ \A c \in Docs \ {d} : entry'[c] = entry[c]
      /\ entry'[d].old = entry[d].old /\ entry'[d].org = entry[d].org
      /\ ~DoneWith(entry[d].state) /\ ~(BackupWasTried(d) /\ OriginalWasTried(d))
      /\ \/ phase' = "backup" /\ ~BackupWasTried(d)
         \/ phase' = "load" /\ (BackupWasTried(d) \/ entry[d].old = NoTemp)
  BY BeginLoadEffect DEF Parts, Only
<1>3. \A i \in 1..Len(m_lDocCache') : i < at' => Tried(m_lDocCache[i])'
  BY <1>1, <1>2, NextTried
<1>4. ~Reading /\ Reading' /\ Loading' = d
  BY <1>1, <1>2, RecoveryIs DEF Reading, Loading, Order, BeginLoad, Visits
<1>5. ASSUME NEW c \in Docs \ {d}
      PROVE  Owing(c)'
  <2>1. Unmoved(c) /\ due'[c] = due[c]
    BY <1>1, PassStepLeaves DEF PassStep
  <2> QED BY <1>1, <1>4, <2>1, OthersOwed
<1>6. Owing(d)'
  <2>1. Latest(d)' = Latest(d) /\ Last(d)' = Last(d)
    BY <1>1, <1>2 DEF Latest, Last
  <2>2. CASE phase' = "backup" /\ ~BackupWasTried(d)
    <3>1. StillOwed(d) = Latest(d) /\ StillOwed(d)' = Latest(d)'
      BY <1>2, <1>4, <2>2 DEF StillOwed
    <3>2. Owing(d)
      BY <1>1 DEF DueInv
    <3> QED BY <1>1, <2>1, <3>1, <3>2 DEF Owing, Cached
  <2>3. CASE phase' = "load" /\ (BackupWasTried(d) \/ entry[d].old = NoTemp)
    <3>1. StillOwed(d)' = Last(d)'
      BY <1>4, <2>3 DEF StillOwed
    <3>2. StillOwed(d) = Last(d)
      BY <1>2, <1>4, <2>3 DEF StillOwed, Latest, Last
    <3>3. Owing(d)
      BY <1>1 DEF DueInv
    <3> QED BY <1>1, <2>1, <3>1, <3>2, <3>3 DEF Owing, Cached
  <2> QED BY <1>2, <2>2, <2>3
<1> QED
  BY <1>1, <1>3, <1>5, <1>6 DEF DueInv

LEMMA LoadsOwed ==
    ASSUME IInv, Loads
    PROVE  DueInv'
<1> USE DEF IInv, Types, Inv
<1> DEFINE d == Loading
<1>1. /\ Reading /\ job = "recovery" /\ job' = job /\ d \in Docs /\ d \in Cached /\ d = m_lDocCache[at]
      /\ at \in 1..Len(m_lDocCache) /\ at' = at + 1 /\ phase' = "visit"
      /\ UNCHANGED <<m_lDocCache, due, suggested>>
  BY ReadingIs DEF Loads, Reading, duty
<1>2. Content(d) # None /\ version' = [version EXCEPT ![d] = Content(d)] /\ open' = open \union {d}
  BY DEF Loads
<1>3. PICK e \in Docs : e = d
  BY <1>1
<1>4. DoneWith(entry'[e].state) /\ \A c \in Docs \ {e} : entry'[c] = entry[c]
  <2> HIDE DEF d
  <2>1. /\ entry'[e].state = (entry[e].state \ {"TRY_LOAD_BACKUP", "TRY_LOAD_ORIGINAL"}) \union {"HANDLED"}
        /\ \A c \in Docs \ {e} : entry'[c] = entry[c]
    BY <1>3, LoadsEffect DEF Parts, Only, d
  <2> QED BY <2>1 DEF DoneWith
<1>5. \A i \in 1..Len(m_lDocCache') : i < at' => Tried(m_lDocCache[i])'
  <2>1. Tried(e)'
    BY <1>4 DEF Tried
  <2> QED BY <1>1, <1>3, <1>4, <2>1, NextTried
<1>6. ~Reading'
  BY <1>1 DEF Reading
<1>7. ASSUME NEW c \in Docs \ {e}
      PROVE  Owing(c)'
  <2>1. Unmoved(c) /\ due'[c] = due[c]
    BY <1>1, <1>3, LoadStepLeaves DEF LoadStep
  <2> QED BY <1>1, <1>3, <1>6, <2>1, OthersOwed
<1>8. Owing(e)'
  <2>1. Owing(e) /\ due[e] \in Versions /\ Content(e) \in 0..MaxVersion
    BY <1>1, <1>2, <1>3, ContentType DEF DueInv, DutyTypes
  <2>2. e \notin open
    <3>1. entry[e].loaded => DoneWith(entry[e].state)
      BY <1>1 DEF ReadInv, DoneWith
    <3>2. ~DoneWith(entry[e].state)
      BY <1>1, <1>3 DEF ReadInv
    <3> QED BY <1>1, <1>3, <3>1, <3>2 DEF CacheInv, Known
  <2>3. due[e] # None => due[e] = Content(e)
    <3> SUFFICES ASSUME due[e] # None PROVE due[e] = Content(e)
      OBVIOUS
    <3>1. due[e] = StillOwed(e)
      BY <2>1, <2>2 DEF Owing
    <3>2. CASE phase = "backup"
      <4>1. entry[e].old # NoTemp /\ Content(e) = files[e][entry[e].old]
        BY <1>1, <1>3, <3>2 DEF ReadInv, Content
      <4> QED BY <1>1, <1>2, <1>3, <3>1, <3>2, <4>1 DEF StillOwed, Latest
    <3>3. CASE phase = "load"
      <4>1. due[e] = Last(e)
        BY <1>1, <1>3, <3>1, <3>3 DEF StillOwed
      <4> QED BY <3>3, <4>1 DEF Last, Content
    <3> QED BY <1>1, <3>2, <3>3 DEF Reading
  <2>4. version'[e] = Content(e) /\ e \in open' /\ e \in Cached'
    BY <1>1, <1>2, <1>3 DEF DocTypes, Cached
  <2>5. due[e] # None => Content(e) >= due[e]
    BY <2>1, <2>3
  <2> QED BY <1>1, <2>4, <2>5 DEF Owing
<1> QED
  BY <1>1, <1>3, <1>5, <1>7, <1>8 DEF DueInv

LEMMA FailsOwed ==
    ASSUME IInv, FailsToLoad
    PROVE  DueInv'
<1> USE DEF IInv, Types, Inv
<1> DEFINE d == Loading
<1>1. /\ Reading /\ job = "recovery" /\ job' = job /\ d \in Docs /\ d \in Cached /\ d = m_lDocCache[at]
      /\ at \in 1..Len(m_lDocCache) /\ at' = at + 1 /\ phase' = "visit"
      /\ UNCHANGED <<open, version, original, m_lDocCache, files>>
      /\ suggested' = IF phase = "backup" THEN "again" ELSE suggested
  BY ReadingIs DEF FailsToLoad, Reading, docVars
<1>2. PICK e \in Docs : e = d
  BY <1>1
<1>3. \/ Content(e) = None /\ due' = due
      \/ due' = [due EXCEPT ![e] = IF phase = "backup" /\ entry[e].org THEN original[e] ELSE None]
  BY <1>2 DEF FailsToLoad
<1>4. /\ \A c \in Docs \ {e} : entry'[c] = entry[c]
      /\ entry'[e].old = entry[e].old /\ entry'[e].org = entry[e].org
      /\ entry'[e].state = (entry[e].state \ {"TRY_LOAD_BACKUP", "TRY_LOAD_ORIGINAL"})
                              \union IF phase = "backup" THEN {"INCOMPLETE"} ELSE {"HANDLED", "DAMAGED"}
  <2> HIDE DEF d
  <2> QED BY <1>2, FailsEffect DEF Parts, Only, d
<1>5. ~DoneWith(entry[e].state)
  BY <1>1, <1>2 DEF ReadInv
<1>6. \A i \in 1..Len(m_lDocCache') : i < at' => Tried(m_lDocCache[i])'
  <2>1. Tried(e)'
    BY <1>1, <1>4 DEF Tried, DoneWith
  <2>2. suggested = "again" => suggested' = "again"
    BY <1>1
  <2> QED BY <1>1, <1>2, <1>4, <2>1, <2>2, NextTried
<1>7. ~Reading'
  BY <1>1 DEF Reading
<1>8. ASSUME NEW c \in Docs \ {e}
      PROVE  Owing(c)'
  <2>1. Unmoved(c)
    BY <1>1, <1>2, LoadStepLeaves DEF LoadStep
  <2>2. due'[c] = due[c]
    BY <1>3 DEF DutyTypes
  <2> QED BY <1>1, <1>2, <1>7, <2>1, <2>2, OthersOwed
<1>9. Owing(e)'
  <2>1. Owing(e)
    BY <1>1 DEF DueInv
  <2>2. e \notin open
    <3>1. entry[e].loaded => DoneWith(entry[e].state)
      BY <1>1 DEF ReadInv, DoneWith
    <3> QED BY <1>1, <1>2, <1>5, <3>1 DEF CacheInv, Known
  <2>3. due[e] # None => due[e] = StillOwed(e)
    BY <2>1, <2>2 DEF Owing
  <2>4. Last(e)' = Last(e) /\ e \in Cached'
    BY <1>1, <1>2, <1>4 DEF Last, Cached
  <2>5. CASE phase = "backup"
    <3>1. /\ "INCOMPLETE" \in entry'[e].state /\ "TRY_LOAD_ORIGINAL" \notin entry'[e].state
          /\ ~DoneWith(entry'[e].state)
      BY <1>4, <1>5, <2>5 DEF DoneWith
    <3>2. StillOwed(e)' = Last(e)'
      <4>1. BackupWasTried(e)' /\ ~OriginalWasTried(e)'
        BY <3>1 DEF BackupWasTried, OriginalWasTried
      <4> QED BY <1>7, <3>1, <4>1 DEF StillOwed
    <3>3. due'[e] # None => due'[e] = Last(e)
      <4>1. CASE Content(e) = None /\ due' = due
        <5>1. Latest(e) = Last(e)
          BY <2>5, <4>1 DEF Content, Latest, Last
        <5>2. StillOwed(e) = Latest(e)
          BY <1>1, <1>2, <2>5 DEF StillOwed
        <5> QED BY <2>3, <4>1, <5>1, <5>2
      <4>2. CASE due' = [due EXCEPT ![e] = IF phase = "backup" /\ entry[e].org THEN original[e] ELSE None]
        BY <2>5, <4>2 DEF Last, DutyTypes
      <4> QED BY <1>3, <4>1, <4>2
    <3> QED BY <2>4, <3>2, <3>3 DEF Owing
  <2>6. CASE phase = "load"
    <3>1. CASE Content(e) = None /\ due' = due
      <4>1. Last(e) = None
        BY <2>6, <3>1 DEF Content, Last
      <4>2. StillOwed(e) = Last(e)
        BY <1>1, <1>2, <2>6 DEF StillOwed
      <4> QED BY <2>3, <3>1, <4>1, <4>2 DEF Owing
    <3>2. CASE due' = [due EXCEPT ![e] = IF phase = "backup" /\ entry[e].org THEN original[e] ELSE None]
      BY <2>6, <3>2 DEF Owing, DutyTypes
    <3> QED BY <1>3, <3>1, <3>2
  <2> QED BY <1>1, <2>5, <2>6 DEF Reading
<1> QED
  BY <1>1, <1>6, <1>8, <1>9 DEF DueInv

(* The next start takes what the configuration says. *)
LEMMA RestartOwed ==
    ASSUME IInv, Restart
    PROVE  DueInv'
<1> USE DEF IInv, Types, Inv
<1>1. /\ job = "down" /\ job' = "recovery" /\ at' = 1 /\ phase' = "visit"
      /\ UNCHANGED <<open, version, original, config, due>>
  BY DEF Restart, StartPass, docVars, duty
<1>2. /\ Cached' = {d \in Docs : config[d].present}
      /\ \A d \in Docs :
            /\ config[d].present => Parts(entry'[d], config[d].state, FALSE, config[d].temp, config[d].org, FALSE)
            /\ ~config[d].present => entry'[d] = NoEntry
            /\ \A t \in Temps : files'[d][t] = IF t = config[d].temp THEN files[d][t] ELSE None
  BY RestartEffect
<1>3. ASSUME NEW d \in Docs
      PROVE  Owing(d)'
  <2>1. due'[d] = Owed(d)
    BY <1>1 DEF DueInv
  <2>2. config[d] \in Items /\ (config[d].temp # NoTemp => config[d].temp \in Temps)
    BY DEF DiskTypes, Items, Names
  <2>3. CASE ~config[d].present
    <3>1. Owed(d) = None
      BY <2>2, <2>3 DEF Items, NoItem, Owed, Recoverable
    <3> QED BY <2>1, <3>1 DEF Owing
  <2>4. CASE config[d].present
    <3>1. /\ entry'[d].state = config[d].state /\ entry'[d].old = config[d].temp /\ entry'[d].org = config[d].org
          /\ d \in Cached'
      BY <1>2, <2>4 DEF Parts
    <3>2. config[d].temp # NoTemp => files'[d][config[d].temp] = files[d][config[d].temp]
      BY <1>2, <2>2
    <3>3. Latest(d)' = Recoverable(d)
      <4>1. CASE config[d].temp = NoTemp
        BY <1>1, <2>4, <3>1, <4>1 DEF Latest, Recoverable, Backup
      <4>2. CASE config[d].temp # NoTemp
        BY <1>1, <2>4, <3>1, <3>2, <4>2 DEF Latest, Recoverable, Backup
      <4> QED BY <4>1, <4>2
    <3>4. Last(d)' = IF config[d].org THEN original[d] ELSE None
      BY <1>1, <3>1 DEF Last
    <3>5. StillOwed(d)' = Owed(d)
      BY <1>1, <3>1, <3>3, <3>4 DEF StillOwed, Owed, Reading, DoneWith, BackupWasTried, OriginalWasTried
    <3> QED BY <2>1, <3>1, <3>5 DEF Owing
  <2> QED BY <2>3, <2>4
<1>4. \A i \in 1..Len(m_lDocCache') : ~(i < at')
  <2>1. Len(m_lDocCache') \in Nat
    BY RestartEffect, LenProperties
  <2> QED BY <1>1, <2>1
<1> QED
  BY <1>1, <1>3, <1>4 DEF DueInv

LEMMA DueKept ==
    ASSUME IInv, [Next]_vars
    PROVE  DueInv'
<1> USE DEF IInv, Types, Inv
<1>1. CASE \E d \in Docs : UserStep(d) \/ PassStep(d)
  <2>1. PICK d \in Docs : UserStep(d) \/ PassStep(d)
    BY <1>1
  <2>2. CASE SkipEntry(d) \/ BeginLoad(d)
    BY <2>2, SkipEntryOwed, BeginLoadOwed
  <2>3. CASE ~(SkipEntry(d) \/ BeginLoad(d))
    <3>1. job \notin {"down", "recovery"} /\ due' = due
      <4>1. CASE UserStep(d)
        BY <4>1 DEF UserStep, UserTurn, Open, Modify, SaveBegins, SaveEnds, SaveFails, Close, CleanUpEntry, duty
      <4>2. CASE PassStep(d)
        BY <2>3, <4>2 DEF PassStep, RefusesToSave, Skip, BeginSave, Visits, duty
      <4> QED BY <2>1, <4>1, <4>2
    <3>2. job' = job
      BY <2>1, JobStays
    <3> QED BY <3>1, <3>2 DEF DueInv
  <2> QED BY <2>2, <2>3
<1>2. CASE StoreStep(copy.doc)
  <2>1. Storing /\ due' = due /\ job' = job
    BY <1>2, JobStays DEF StoreStep, StoreOriginal, StoreRecovery, RemoveOld, Storing, duty
  <2> QED BY <2>1 DEF PlaceInv, DueInv
<1>3. CASE LoadStep(Loading)
  BY <1>3, LoadsOwed, FailsOwed DEF LoadStep
<1>4. CASE TurnStep
  <2>1. CASE \/ \E on \in BOOLEAN : ChangeAutoSave(on)
             \/ \E captured, idle \in BOOLEAN : TimerExpires(captured, idle)
             \/ EmergencyTurns
    <3>1. job \notin {"down", "recovery"} /\ job' \notin {"down", "recovery"} /\ due' = due
      BY <2>1 DEF ChangeAutoSave, TimerExpires, EmergencyTurns, AtEnd, StartPass, passVars, duty
    <3> QED BY <3>1 DEF DueInv
  <2>2. CASE RecoveryTurns
    <3>1. /\ job = "recovery" /\ job' = "recovery" /\ phase = "visit" /\ phase' = "visit" /\ at' = 1
          /\ UNCHANGED <<m_lDocCache, due>>
      BY <2>2 DEF RecoveryTurns, AtEnd, StartPass, duty
    <3>2. \A c \in Docs : Owing(c)'
      <4> SUFFICES ASSUME NEW c \in Docs PROVE Owing(c)'
        OBVIOUS
      <4>1. ~Reading /\ ~Reading'
        BY <3>1 DEF Reading
      <4>2. Unmoved(c)
        BY <1>4, TurnLeaves
      <4> QED BY <3>1, <4>1, <4>2, OthersOwed
    <3>3. \A i \in 1..Len(m_lDocCache') : ~(i < at')
      BY <3>1, OrderIs
    <3> QED BY <3>1, <3>2, <3>3 DEF DueInv
  <2>3. CASE UNCHANGED vars
    <3>1. /\ UNCHANGED <<job, due, m_lDocCache, at, suggested, entry, phase>>
          /\ \A d \in Docs : Owed(d)' = Owed(d)
      BY <2>3 DEF vars, docVars, passVars, duty, Owed, Recoverable, Backup
    <3>2. CASE job = "recovery"
      <4>1. ASSUME NEW c \in Docs
            PROVE  Owing(c)'
        <5>1. Owing(c)
          BY <3>2 DEF DueInv
        <5>2. StillOwed(c)' = StillOwed(c)
          BY <2>3 DEF vars, docVars, passVars, StillOwed, Reading, Loading, Order, Latest, Last, BackupWasTried, OriginalWasTried
        <5> QED BY <2>3, <5>1, <5>2 DEF Owing, vars, docVars, duty, Cached
      <4>2. ASSUME NEW i \in 1..Len(m_lDocCache), i < at
            PROVE  Tried(m_lDocCache[i])'
        <5>1. Tried(m_lDocCache[i])
          BY <3>2, <4>2 DEF DueInv
        <5> QED BY <3>1, <5>1 DEF Tried
      <4> QED BY <3>1, <3>2, <4>1, <4>2 DEF DueInv
    <3>3. CASE job # "recovery"
      BY <3>1, <3>3 DEF DueInv
    <3> QED BY <3>2, <3>3
  <2> QED BY <1>4, <2>1, <2>2, <2>3 DEF TurnStep
<1>5. CASE EndStep
  <2>1. CASE RecoveryEnds
    BY <2>1 DEF RecoveryEnds, EndPass, DueInv
  <2>2. CASE PassEnds \/ EmergencyEnds
    <3>1. job \notin {"down", "recovery"} /\ job' \notin {"down", "recovery"} /\ due' = due
      BY <2>2 DEF PassEnds, EmergencyEnds, EndPass, AtEnd, duty
    <3> QED BY <3>1 DEF DueInv
  <2> QED BY <1>5, <2>1, <2>2 DEF EndStep
<1>6. CASE DownStep
  <2>1. CASE GoesDown /\ due' = [d \in Docs |-> Owed(d)] /\ UNCHANGED <<config, files>>
    <3>1. original' = original /\ job' = "down"
      BY <2>1, DownEffect
    <3>2. \A d \in Docs : Owed(d)' = Owed(d)
      BY <2>1, <3>1 DEF Owed, Recoverable, Backup
    <3> QED BY <2>1, <3>1, <3>2 DEF DueInv
  <2>2. CASE EmergencyBreaks
    BY <2>2 DEF EmergencyBreaks, GoesDown, EndPass, DueInv
  <2>3. CASE ~EmergencyBreaks /\ ~(GoesDown /\ due' = [d \in Docs |-> Owed(d)] /\ UNCHANGED <<config, files>>)
    <3>1. Breaks /\ job # "emergency" /\ job' = "none" /\ due' = due
      BY <1>6, <2>3 DEF DownStep, Breaks, Crash, EndPass
    <3>2. job \in {"pass", "emergency"}
      BY <3>1 DEF Breaks, Visits, PlaceInv, Storing
    <3> QED BY <3>1, <3>2 DEF DueInv
  <2> QED BY <2>1, <2>2, <2>3
<1>7. CASE EmergencySave
  BY <1>7 DEF EmergencySave, CrashIsCaught, StartPass, DueInv
<1>8. CASE Restart
  BY <1>8, RestartOwed
<1> QED
  BY <1>1, <1>2, <1>3, <1>4, <1>5, <1>6, <1>7, <1>8, Kinds

-----------------------------------------------------------------------------
(* Theorems                                                                *)

LEMMA InitInv == Init => IInv
<1> SUFFICES ASSUME Init PROVE IInv
  OBVIOUS
<1>1. /\ open = {} /\ modified = {} /\ unsaved = {} /\ saving = {} /\ m_lDocCache = <<>> /\ dangerous = <<>>
      /\ job = "none" /\ at = 0 /\ phase = "visit" /\ copy = NoCopy /\ suggested = "normal"
      /\ enabled = TRUE /\ m_eTimerType = "normal" /\ timer = "on" /\ skipped = {}
      /\ scenario \in Scenarios /\ failures = 0 /\ crashes = 0
  BY DEF Init
<1>2. /\ version = [d \in Docs |-> 0] /\ original = [d \in Docs |-> IF d \in Untitled THEN None ELSE 0]
      /\ entry = [d \in Docs |-> NoEntry] /\ config = [d \in Docs |-> NoItem]
      /\ files = [d \in Docs |-> [t \in Temps |-> None]] /\ due = [d \in Docs |-> None]
  BY DEF Init
<1>3. 0 \in 0..MaxVersion /\ 0 \in Versions /\ None \in Versions /\ (scenario \in Scenarios => 0 \in 0..scenario.maxCrashes)
  BY BoundAssumption, ScenarioAssumption DEF None, Versions
<1>4. Cached = {} /\ Len(m_lDocCache) = 0 /\ Len(dangerous) = 0 /\ Len(Order) = 0
  <2>1. CacheInv => Len(Order) = Len(m_lDocCache) + Len(dangerous)
    BY OrderIs
  <2>2. m_lDocCache \in Seq(Docs) /\ dangerous \in Seq(Docs) /\ Len(m_lDocCache) = 0 /\ Len(dangerous) = 0
    BY <1>1, NoList
  <2>3. Len(Order) = 0
    BY <2>2, OrderFacts DEF Order
  <2> QED BY <1>1, <2>2, <2>3, NoList, InCache
<1>5. NoEntry \in Entry /\ NoItem \in Items /\ NoEntry.state = {} /\ NoEntry.old = NoTemp /\ ~NoEntry.loaded
      /\ NoItem.temp = NoTemp
  BY NoEntryParts DEF Parts, NoItem
<1>6. DocTypes
  BY <1>1, <1>2, <1>3 DEF DocTypes
<1>7. EntryTypes /\ DiskTypes
  BY <1>2, <1>3, <1>5 DEF EntryTypes, DiskTypes
<1>8. TimerTypes
  BY <1>1 DEF TimerTypes
<1>9. PassTypes
  <2>1. copy.doc = NoDoc /\ copy.new = NoTemp
    BY <1>1 DEF NoCopy
  <2> QED BY <1>1, <1>4, <2>1 DEF PassTypes, Names
<1>10. DutyTypes
  <2>1. scenario.maxFailures \in Nat
    BY <1>1, ScenarioAssumption
  <2> QED BY <1>1, <1>2, <1>3, <2>1 DEF DutyTypes
<1>11. Shown
  BY <1>4 DEF Shown
<1>12. CacheInv
  BY <1>1, <1>2, <1>4, <1>5, NoList DEF CacheInv, Known
<1>13. PlaceInv /\ CopyInv /\ ReadInv
  BY <1>1 DEF PlaceInv, CopyInv, ReadInv, Storing, Reading
<1>14. FilesInv
  BY <1>2 DEF FilesInv, FewFiles, Names
<1>15. ConfigInv /\ EmergencyInv
  BY <1>1 DEF ConfigInv, Named, EmergencyInv
<1>16. KeptInv
  BY <1>1, <1>2, <1>4 DEF KeptInv, Safekept, Base
<1>17. ModifiedInv
  BY <1>1, <1>2, <1>5 DEF ModifiedInv, Marked
<1>18. DueInv
  BY <1>1, <1>2 DEF DueInv
<1> QED
  BY <1>6, <1>7, <1>8, <1>9, <1>10, <1>11, <1>12, <1>13, <1>14, <1>15, <1>16, <1>17, <1>18
     DEF IInv, Types, Inv

LEMMA NextInv == IInv /\ [Next]_vars => IInv'
<1> SUFFICES ASSUME IInv, [Next]_vars PROVE IInv'
  OBVIOUS
<1>1. Types'
  BY DocTypesKept, EntryTypesKept, TimerTypesKept, PlaceKept, DutyTypesKept DEF Types
<1>2. FilesInv' /\ ConfigInv' /\ KeptInv' /\ ModifiedInv'
  BY DocsKept
<1> QED
  BY <1>1, <1>2, ShownKept, CacheKept, PlaceKept, CopyKept, ReadKept, EmergencyKept, DueKept DEF IInv, Inv

(* The conditions on the list, the entries, the files and the configuration *)
(* hold whatever the user, the passes and the crashes do.                   *)
THEOREM Invariant == Spec => []IInv
  BY InitInv, NextInv, PTL DEF Spec

(* The types, and every open document that the service knows is named by    *)
(* the configuration (implts_registerDocument, implts_openDocs).            *)
THEOREM TypeCorrect == Spec => []TypeOK
<1>1. IInv => TypeOK
  BY TypesSuffice DEF IInv, Inv, Types
<1> QED
  BY <1>1, Invariant, PTL

(* What an emergency save leaves at its end. *)
LEMMA SavedAtEnd ==
    ASSUME IInv, EmergencyEnds
    PROVE  EmergencySavesAll'
<1> USE DEF IInv, Types, Inv
<1>1. /\ job = "emergency" /\ phase = "visit" /\ at > Len(Order) /\ suggested # "again" /\ ResetHandleStates
      /\ UNCHANGED <<open, version, original, m_lDocCache, files, skipped>>
  BY DEF EmergencyEnds, AtEnd, docVars, duty
<1> SUFFICES ASSUME NEW d \in open, d \notin skipped, "INCOMPLETE" \notin entry'[d].state,
                    entry'[d].org = Titled(d), ~(~entry'[d].org /\ version[d] = 0)
             PROVE  Owed(d)' = version[d]
  BY <1>1 DEF EmergencySavesAll, Titled
<1>2. d \in Docs /\ d \in Cached /\ entry[d].loaded
  BY <1>1 DEF DocTypes, EmergencyInv, CacheInv, Known
<1>3. /\ Parts(entry'[d], entry[d].state \ {"HANDLED", "POSTPONED"}, entry[d].used, entry[d].old, entry[d].org,
               entry[d].loaded)
      /\ config'[d] = Item(entry'[d])
  BY <1>1, <1>2, ResetEffect
<1>4. /\ entry'[d] \in Entry /\ entry'[d].state = entry[d].state \ {"HANDLED", "POSTPONED"}
      /\ entry'[d].old = entry[d].old /\ entry'[d].org = entry[d].org
  BY <1>3 DEF Parts
<1>5. "INCOMPLETE" \notin entry[d].state
  BY <1>4
<1>6. d \notin unsaved
  <2>1. PICK i \in 1..Len(m_lDocCache) : m_lDocCache[i] = d
    BY <1>2 DEF Cached
  <2>2. PICK l \in Nat, k \in Nat, p \in Nat : l = Len(m_lDocCache) /\ k = Len(dangerous) /\ p = at /\ Len(Order) = l + k
    BY OrderIs DEF PassTypes
  <2>3. i < at
    <3>1. i \in 1..l /\ p > l + k
      BY <1>1, <2>1, <2>2
    <3> QED BY <2>2, <3>1
  <2>4. Seen(d)
    BY <1>1, <2>1, <2>3 DEF EmergencyInv
  <2>5. ~Ahead(d)
    <3>1. \A j \in 1..k : ~(l + j >= p)
      BY <1>1, <2>2
    <3> QED BY <2>2, <3>1 DEF Ahead
  <2>6. Excused(d)
    BY <1>1 DEF EmergencyInv
  <2> QED BY <1>1, <1>5, <2>4, <2>5, <2>6 DEF Seen, Excused
<1>7. Kept(d)
  BY <1>1, <1>2, <1>4, <1>5, <1>6 DEF KeptInv, Safekept, Excepted, Written
<1>8. /\ config'[d].present /\ config'[d].state = entry[d].state \ {"HANDLED", "POSTPONED"}
      /\ config'[d].temp = entry[d].old /\ config'[d].org = entry[d].org
  BY <1>3, <1>4, ItemParts
<1>9. config'[d].state \intersect {"HANDLED", "DAMAGED", "TRY_LOAD_BACKUP", "TRY_LOAD_ORIGINAL", "INCOMPLETE"} = {}
  <2>1. entry[d].state \intersect {"DAMAGED", "TRY_LOAD_BACKUP", "TRY_LOAD_ORIGINAL"} = {}
    BY <1>2 DEF CacheInv, Known
  <2> QED BY <1>5, <1>8, <2>1
<1>10. Owed(d)' = Recoverable(d)'
  BY <1>9 DEF Owed
<1>11. Recoverable(d)' = version[d]
  BY <1>1, <1>4, <1>7, <1>8 DEF Recoverable, Backup, Kept
<1> QED
  BY <1>10, <1>11

LEMMA SavedStays ==
    ASSUME IInv, EmergencySavesAll, [Next]_vars
    PROVE  EmergencySavesAll'
<1> USE DEF IInv, Types, Inv
<1>1. CASE UNCHANGED vars
  BY <1>1 DEF vars, docVars, passVars, duty, EmergencySavesAll, Owed, Recoverable, Backup, Titled
<1>2. CASE EmergencyEnds
  BY <1>2, SavedAtEnd
<1>3. CASE ~UNCHANGED vars /\ ~EmergencyEnds
  <2> SUFFICES job' # "saved"
    BY DEF EmergencySavesAll
  <2>1. ASSUME NEW d \in Docs, UserStep(d) \/ PassStep(d)
        PROVE  job # "saved"
    <3>1. job = "saved" => PassStep(d) /\ ~SkipEntry(d) /\ ~BeginLoad(d)
      BY <2>1, InEmergency
    <3> QED BY <3>1 DEF PassStep, RefusesToSave, Skip, BeginSave, Visits
  <2>2. ASSUME StoreStep(copy.doc) \/ LoadStep(Loading)
        PROVE  job # "saved"
    <3>1. Storing \/ Reading
      BY <2>2 DEF StoreStep, StoreOriginal, StoreRecovery, RemoveOld, Storing, LoadStep, Loads, FailsToLoad, Reading
    <3> QED BY <3>1 DEF PlaceInv
  <2>3. CASE \E d \in Docs : UserStep(d) \/ PassStep(d)
    BY <2>1, <2>3, JobStays
  <2>4. CASE StoreStep(copy.doc) \/ LoadStep(Loading)
    BY <2>2, <2>4, JobStays
  <2>5. CASE TurnStep
    BY <1>3, <2>5 DEF TurnStep, ChangeAutoSave, TimerExpires, EmergencyTurns, RecoveryTurns, StartPass, passVars
  <2>6. CASE EndStep
    BY <1>3, <2>6 DEF EndStep, PassEnds, RecoveryEnds, EndPass
  <2>7. CASE DownStep
    BY <2>7 DEF DownStep, Breaks, EmergencyBreaks, Crash, GoesDown, EndPass
  <2>8. CASE EmergencySave \/ Restart
    BY <2>8 DEF EmergencySave, Restart, StartPass
  <2> QED BY <2>3, <2>4, <2>5, <2>6, <2>7, <2>8, Kinds
<1> QED
  BY <1>1, <1>2, <1>3

(* Once the emergency save has come to its end, the next start brings back   *)
(* every open document as it is now, but for those that were refused or were *)
(* handled by the pass that it interrupted, those with a backup marked as    *)
(* incomplete, also by a store that failed in it, those whose entry does not *)
(* know their file, and new ones without a change.  Nothing is said of one   *)
(* that an exception ends (implts_doEmergencySave, implts_saveDocs).         *)
THEOREM EmergencySaves == Spec => []EmergencySavesAll
<1>1. Init => EmergencySavesAll
  BY DEF Init, EmergencySavesAll
<1>2. IInv /\ EmergencySavesAll /\ [Next]_vars => EmergencySavesAll'
  BY SavedStays
<1> QED
  BY <1>1, <1>2, Invariant, PTL DEF Spec

(* What a crash would leave of a document.                                 *)
Older(d) == Safe(d) /\ Safe(d)' /\ Recoverable(d)' < Recoverable(d) /\ Recoverable(d)' < version[d]
MayAge(d) ==
    /\ copy.doc = d
    /\ \/ phase = "store" /\ "INCOMPLETE" \in config'[d].state
       \/ phase = "remove" /\ job' = "emergency"
Survives == \A d \in Docs : Older(d) => MayAge(d)

LEMMA RecoverableIs ==
    ASSUME IInv, NEW d \in Docs
    PROVE  Recoverable(d) \in Versions /\ ~(Recoverable(d) < Recoverable(d))
<1> USE DEF IInv, Types, Inv
<1>1. config[d].temp \in Names
  BY DEF DiskTypes, Items
<1>2. Backup(d) \in Versions
  BY <1>1, Contents DEF Backup, DiskTypes, Names
<1>3. Recoverable(d) \in Versions
  BY <1>2, Contents DEF Recoverable
<1>4. PICK v \in Versions : v = Recoverable(d)
  BY <1>3
<1>5. v \in Int
  BY BoundAssumption DEF Versions, None
<1> QED
  BY <1>4, <1>5

LEMMA SameRecoverable ==
    ASSUME IInv, NEW d \in Docs, Recoverable(d)' = Recoverable(d)
    PROVE  Older(d) => MayAge(d)
  BY RecoverableIs DEF Older

LEMMA NowRecoverable ==
    ASSUME IInv, NEW d \in Docs, Recoverable(d)' = version[d]
    PROVE  Older(d) => MayAge(d)
<1>1. PICK v \in Nat : v = version[d]
  BY BoundAssumption DEF IInv, Types, DocTypes
<1> QED
  BY <1>1 DEF Older

(* An item that is written from the entry names what it named before.      *)
LEMMA FlushedAgain ==
    ASSUME IInv, NEW d \in Docs, Safe(d), ~Written(d), config'[d].present, config'[d].temp = entry[d].old,
           config'[d].org = entry[d].org, files'[d] = files[d], original'[d] = original[d]
    PROVE  Recoverable(d)' = Recoverable(d)
<1> USE DEF IInv, Types, Inv
<1>1. SameItem(d) /\ config[d].present /\ entry[d].org = Titled(d)
  BY DEF ConfigInv, Named, Safe
<1>2. config[d].org = entry[d].org
  BY <1>1 DEF SameItem
<1>3. Backup(d)' = Backup(d)
  BY <1>1 DEF SameItem, Backup
<1> QED
  BY <1>1, <1>2, <1>3 DEF Recoverable

LEMMA UserSurvives ==
    ASSUME IInv, NEW d \in Docs, UserStep(d)
    PROVE  Older(d) => MayAge(d)
<1> USE DEF IInv, Types, Inv
<1> SUFFICES ASSUME Safe(d), Safe(d)' PROVE Older(d) => MayAge(d)
  BY DEF Older
<1>1. d \in open /\ d \in open' /\ d \in Cached /\ entry[d].loaded
  BY DEF Safe, CacheInv, Known
<1>2. ~Open(d) /\ ~Close(d) /\ ~CleanUpEntry(d)
  BY <1>1 DEF Open, Close, Closed, CleanUpEntry
<1>3. CASE Modify(d) \/ SaveBegins(d) \/ SaveFails(d)
  <2>1. UNCHANGED <<config, files, original>>
    BY <1>3 DEF Modify, SaveBegins, SaveFails
  <2>2. Recoverable(d)' = Recoverable(d)
    BY <2>1 DEF Recoverable, Backup
  <2> QED BY <2>2, SameRecoverable
<1>4. CASE SaveEnds(d)
  <2>1. Listening
    BY <1>4 DEF SaveEnds, UserTurn, Listening
  <2>2. config'[d].present /\ config'[d].temp = NoTemp /\ config'[d].org /\ original' = [original EXCEPT ![d] = version[d]]
    BY <1>1, <1>4, <2>1, SavedEffect DEF SaveEnds, Stored
  <2>3. Recoverable(d)' = version[d]
    BY <2>2 DEF Recoverable, Backup, DocTypes
  <2> QED BY <2>3, NowRecoverable
<1> QED
  BY <1>2, <1>3, <1>4 DEF UserStep

LEMMA PassSurvives ==
    ASSUME IInv, NEW d \in Docs, PassStep(d)
    PROVE  Older(d) => MayAge(d)
<1> USE DEF IInv, Types, Inv
<1> SUFFICES ASSUME Safe(d) PROVE Older(d) => MayAge(d)
  BY DEF Older
<1>1. CASE SkipEntry(d) \/ RefusesToSave(d) \/ \E isActive \in BOOLEAN : Skip(d, isActive)
  <2>1. UNCHANGED <<config, files, original>>
    BY <1>1 DEF SkipEntry, RefusesToSave, Skip, docVars
  <2>2. Recoverable(d)' = Recoverable(d)
    BY <2>1 DEF Recoverable, Backup
  <2> QED BY <2>2, SameRecoverable
<1>2. CASE BeginLoad(d)
  <2>1. job = "recovery" /\ ~DoneWith(entry[d].state)
    BY <1>2, RecoveryIs, BeginLoadEffect DEF BeginLoad
  <2>2. entry[d].loaded
    BY DEF Safe, CacheInv, Known
  <2> QED BY <2>1, <2>2 DEF ReadInv, DoneWith
<1>3. ASSUME NEW isActive \in BOOLEAN, NEW userAutoSave \in BOOLEAN, BeginSave(d, isActive, userAutoSave)
      PROVE  Older(d) => MayAge(d)
  <2>1. /\ config'[d] = Item(entry[d]) /\ files' = files /\ original' = original /\ ~Written(d)
        /\ entry[d] \in Entry
    BY <1>3, BeginSaveEffect DEF BeginSave, docVars, Visits, Written, EntryTypes
  <2>2. config'[d].present /\ config'[d].temp = entry[d].old /\ config'[d].org = entry[d].org
    BY <2>1, ItemParts
  <2> QED BY <2>1, <2>2, FlushedAgain, SameRecoverable
<1> QED
  BY <1>1, <1>2, <1>3 DEF PassStep

LEMMA StoreSurvives ==
    ASSUME IInv, NEW d \in Docs, StoreStep(d)
    PROVE  Older(d) => MayAge(d)
<1> USE DEF IInv, Types, Inv
<1>1. d = copy.doc
  BY DEF StoreStep
<1>2. CASE StoreOriginal
  <2>1. CASE UNCHANGED <<original, config, files>>
    <3>1. Recoverable(d)' = Recoverable(d)
      BY <2>1 DEF Recoverable, Backup
    <3> QED BY <3>1, SameRecoverable
  <2>2. CASE /\ Stored(d) /\ MarkAsSaved(d)
             /\ entry' = [WithModified(entry, d, FALSE) EXCEPT ![d].used = FALSE]
    <3>1. d \in Cached /\ Listening
      BY <1>1, <1>2, StoringIs DEF StoreOriginal, Storing, PlaceInv, Listening
    <3>2. config'[d].present /\ config'[d].temp = NoTemp /\ config'[d].org /\ original' = [original EXCEPT ![d] = version[d]]
      BY <2>2, <3>1, SavedEffect DEF Stored
    <3>3. Recoverable(d)' = version[d]
      BY <3>2 DEF Recoverable, Backup, DocTypes
    <3> QED BY <3>3, NowRecoverable
  <2> QED BY <1>1, <1>2, <2>1, <2>2 DEF StoreOriginal
<1>3. CASE StoreRecovery
  <2>1. phase = "store" /\ config'[d] = Item(copy'.info)
    BY <1>1, <1>3, StoreRecoveryEffect
  <2>2. PICK t \in Names :
           /\ Parts(copy'.info,
                    copy.info.state \union {"HANDLED"} \union (IF t = NoTemp THEN {"INCOMPLETE"} ELSE {}),
                    copy.info.used, t, copy.info.org, copy.info.loaded)
           /\ \/ /\ t \in Temps
                 /\ \A s \in Temps : files'[d][s] = IF s = t THEN version[d] ELSE files[d][s]
              \/ t = NoTemp
    BY <1>1, <1>3, StoreRecoveryEffect
  <2>3. /\ config'[d].present /\ config'[d].temp = t
        /\ config'[d].state = copy.info.state \union {"HANDLED"} \union (IF t = NoTemp THEN {"INCOMPLETE"} ELSE {})
    BY <2>1, <2>2, ItemParts DEF Parts
  <2>4. CASE t = NoTemp
    <3>1. "INCOMPLETE" \in config'[d].state
      BY <2>3, <2>4
    <3> QED BY <1>1, <2>1, <3>1 DEF MayAge
  <2>5. CASE t \in Temps
    <3>1. t # NoTemp
      BY <2>5, TempAssumption
    <3>2. files'[d][t] = version[d]
      BY <2>2, <2>5, <3>1
    <3>3. Backup(d)' = version[d] /\ version[d] # None
      BY <2>3, <3>1, <3>2, BoundAssumption DEF Backup, DocTypes, None
    <3>4. Recoverable(d)' = version[d]
      BY <2>3, <3>3 DEF Recoverable
    <3> QED BY <3>4, NowRecoverable
  <2> QED BY <2>2, <2>4, <2>5
<1>4. CASE RemoveOld
  <2> SUFFICES ASSUME Safe(d) PROVE Older(d) => MayAge(d)
    BY DEF Older
  <2>1. /\ phase = "remove" /\ config' = config /\ original' = original
        /\ \A s \in Temps : files'[d][s] = IF s = copy.new THEN None ELSE files[d][s]
    BY <1>1, <1>4, RemoveOldEffect DEF RemoveOld, docVars
  <2>2. config[d] = Item(copy.info) /\ copy.info \in Entry
    BY <1>1, <2>1 DEF ConfigInv, Named, Written, Safe, CopyInv, Storing
  <2>3. config[d].temp = copy.info.old /\ config[d].temp \in Names
    BY <2>2, ItemParts DEF Entry
  <2>4. config[d].temp # NoTemp => config[d].temp # copy.new /\ config[d].temp \in Temps
    BY <2>1, <2>3 DEF CopyInv, Names
  <2>5. Backup(d)' = Backup(d)
    BY <2>1, <2>4 DEF Backup
  <2>6. Recoverable(d)' = Recoverable(d)
    BY <2>1, <2>5 DEF Recoverable
  <2> QED BY <2>6, SameRecoverable
<1> QED
  BY <1>2, <1>3, <1>4 DEF StoreStep

LEMMA EndSurvives ==
    ASSUME IInv, NEW d \in Docs, EndStep
    PROVE  Older(d) => MayAge(d)
<1> USE DEF IInv, Types, Inv
<1> SUFFICES ASSUME Safe(d) PROVE Older(d) => MayAge(d)
  BY DEF Older
<1>1. phase = "visit" /\ UNCHANGED <<original, files>> /\ (ResetHandleStates \/ UNCHANGED config)
  BY DEF EndStep, PassEnds, EmergencyEnds, RecoveryEnds, AtEnd, docVars
<1>2. CASE UNCHANGED config
  <2>1. Recoverable(d)' = Recoverable(d)
    BY <1>1, <1>2 DEF Recoverable, Backup
  <2> QED BY <2>1, SameRecoverable
<1>3. CASE ResetHandleStates
  <2>1. config'[d] = Item(entry'[d]) /\ entry'[d] \in Entry /\ entry'[d].old = entry[d].old /\ entry'[d].org = entry[d].org
    BY <1>1, <1>3, ResetEffect DEF Parts, Safe
  <2>2. config'[d].present /\ config'[d].temp = entry[d].old /\ config'[d].org = entry[d].org
    BY <2>1, ItemParts
  <2>3. ~Written(d)
    BY <1>1 DEF Written
  <2> QED BY <1>1, <2>2, <2>3, FlushedAgain, SameRecoverable
<1> QED
  BY <1>1, <1>2, <1>3

LEMMA FaultSurvives ==
    ASSUME IInv, NEW d \in Docs, DownStep \/ EmergencySave \/ Restart
    PROVE  Older(d) => MayAge(d)
<1> USE DEF IInv, Types, Inv
<1> SUFFICES ASSUME Safe(d), Safe(d)' PROVE Older(d) => MayAge(d)
  BY DEF Older
<1>1. CASE DownStep
  <2>1. ~GoesDown
    <3>1. GoesDown => open' = {}
      BY DownEffect
    <3> QED BY <3>1 DEF Safe
  <2>2. UNCHANGED <<config, files, original>>
    BY <1>1, <2>1 DEF DownStep, Breaks, EmergencyBreaks, Crash, docVars
  <2>3. Recoverable(d)' = Recoverable(d)
    BY <2>2 DEF Recoverable, Backup
  <2> QED BY <2>3, SameRecoverable
<1>2. CASE EmergencySave
  <2>1. CASE Written(d)
    BY <1>2, <2>1 DEF EmergencySave, StartPass, Written, MayAge
  <2>2. CASE ~Written(d)
    <3>1. d \in Cached /\ d \notin Unknown
      BY DEF Safe, Unknown
    <3>2. config'[d] = Item(entry[d]) /\ files' = files /\ original' = original /\ entry[d] \in Entry
      BY <1>2, <3>1, EmergencyEffect DEF EmergencySave, docVars, EntryTypes
    <3>3. config'[d].present /\ config'[d].temp = entry[d].old /\ config'[d].org = entry[d].org
      BY <3>2, ItemParts
    <3> QED BY <2>2, <3>2, <3>3, FlushedAgain, SameRecoverable
  <2> QED BY <2>1, <2>2
<1>3. CASE Restart
  BY <1>3 DEF Restart, PlaceInv, Safe
<1> QED
  BY <1>1, <1>2, <1>3

LEMMA StepSurvives ==
    ASSUME IInv, [Next]_vars
    PROVE  Survives
<1> USE DEF IInv, Types, Inv
<1> SUFFICES ASSUME NEW d \in Docs PROVE Older(d) => MayAge(d)
  BY DEF Survives
<1>1. CASE Unmoved(d)
  <2>1. Recoverable(d)' = Recoverable(d)
    BY <1>1 DEF Unmoved, Recoverable, Backup
  <2> QED BY <2>1, SameRecoverable
<1>2. CASE \E c \in Docs : UserStep(c) \/ PassStep(c)
  <2>1. PICK c \in Docs : UserStep(c) \/ PassStep(c)
    BY <1>2
  <2> QED BY <1>1, <2>1, UserSurvives, PassSurvives, UserStepLeaves, PassStepLeaves
<1>3. CASE StoreStep(copy.doc)
  BY <1>1, <1>3, StoreSurvives, StoreStepLeaves
<1>4. CASE LoadStep(Loading)
  <2>1. CASE d # Loading
    BY <1>1, <1>4, <2>1, LoadStepLeaves
  <2>2. CASE d = Loading
    <3>1. Reading
      BY <1>4 DEF LoadStep, Loads, FailsToLoad, Reading
    <3>2. ~entry[d].loaded
      BY <2>2, <3>1 DEF ReadInv, PlaceInv, DoneWith
    <3>3. ~Safe(d)
      BY <3>2 DEF Safe, CacheInv, Known
    <3> QED BY <3>3 DEF Older
  <2> QED BY <2>1, <2>2
<1>5. CASE TurnStep
  BY <1>1, <1>5, TurnLeaves
<1>6. CASE EndStep \/ DownStep \/ EmergencySave \/ Restart
  BY <1>6, EndSurvives, FaultSurvives
<1> QED
  BY <1>2, <1>3, <1>4, <1>5, <1>6, Kinds

(* A backup goes only when a newer one or the document's own file is there   *)
(* and written down, but where the disk is full or an emergency save         *)
(* interrupts a pass before the entry knows its new backup                   *)
(* (implts_saveOneDoc, implts_markDocumentAsSaved, implts_flushConfigItem).  *)
THEOREM BackupsLast == Spec => BackupsSurvive
<1> DEFINE NotOlder == \A d \in Docs : Safe(d) /\ Safe(d)'
                          /\ Recoverable(d)' < Recoverable(d) /\ Recoverable(d)' < version[d]
                          => /\ copy.doc = d
                             /\ \/ phase = "store" /\ "INCOMPLETE" \in config'[d].state
                                \/ phase = "remove" /\ job' = "emergency"
<1>1. IInv /\ [Next]_vars => [NotOlder]_vars
  <2> SUFFICES ASSUME IInv, [Next]_vars, NEW d \in Docs, Older(d) PROVE MayAge(d)
    BY DEF Older, MayAge
  <2> QED BY StepSurvives DEF Survives
<1> QED
  BY <1>1, Invariant, PTL DEF Spec, BackupsSurvive

(* A recovery leaves every document open with at least what was to be        *)
(* brought back when the office ended last, in a recovery or not: the backup *)
(* of an item that is neither handled nor damaged, or the document's own     *)
(* file if the backup was tried or is incomplete, or does not load now; and  *)
(* one that differs from its file is open as modified                        *)
(* (implts_openDocs, implts_openOneDoc, implts_doRecovery).                  *)
THEOREM RecoveryIsComplete == Spec => RecoveryBringsBack
<1> DEFINE BroughtBack == RecoveryEnds => \A d \in Docs : due[d] # None => d \in open /\ version[d] >= due[d]
           Asks == \A d \in open : version[d] > Base(d) => d \in modified
<1>1. IInv /\ [Next]_vars => [BroughtBack]_vars
  <2> USE DEF IInv, Types, Inv
  <2> SUFFICES ASSUME IInv, RecoveryEnds, NEW d \in Docs, due[d] # None
               PROVE  d \in open /\ version[d] >= due[d]
    OBVIOUS
  <2>1. job = "recovery" /\ phase = "visit" /\ at > Len(Order) /\ suggested # "again" /\ dangerous = <<>>
    BY DEF RecoveryEnds, AtEnd, PlaceInv
  <2>2. Owing(d)
    BY <2>1 DEF DueInv
  <2>3. PICK i \in 1..Len(m_lDocCache) : m_lDocCache[i] = d
    BY <2>2 DEF Owing, Cached
  <2>4. i < at
    <3>1. PICK l \in Nat, p \in Nat : l = Len(m_lDocCache) /\ p = at /\ Len(Order) = l
      BY <2>1, OrderIs, NoList DEF PassTypes
    <3> QED BY <2>1, <2>3, <3>1
  <2>5. DoneWith(entry[d].state)
    BY <2>1, <2>3, <2>4 DEF DueInv, Tried
  <2>6. StillOwed(d) = None
    BY <2>1, <2>5 DEF StillOwed, Reading
  <2> QED BY <2>2, <2>6 DEF Owing
<1>2. IInv => Asks
  BY DEF IInv, Inv, Types, DocTypes, ModifiedInv, Marked
<1> QED
  BY <1>1, <1>2, Invariant, PTL DEF Spec, RecoveryBringsBack

=============================================================================
