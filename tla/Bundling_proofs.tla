---------------------------- MODULE Bundling_proofs ----------------------------
(***************************************************************************)
(* From a manifest to its bundles: what the lists and loops come to, for   *)
(* every manifest that can be written, of any length, and three proofs:    *)
(* filters reach their bundles, the order of resources decides nothing,    *)
(* and the count behind the warning about orphans is right.                *)
(*                                                                         *)
(* The loops that build lists are taken apart by module Folding, one       *)
(* instance for each.  What follows from them are facts about sets: what   *)
(* is in a list of resources, what a look-up finds, what is in a bundle.   *)
(***************************************************************************)
EXTENDS BundlingProperties, SequenceTheorems, FiniteSetTheorems, TLAPS

Adding    == INSTANCE Folding WITH op <- Add, base <- <<>>
Keeping   == INSTANCE Folding WITH
               op <- LAMBDA ws, r : IF IsWorkload(r) THEN Append(ws, r) ELSE ws, base <- <<>>
Leaving   == INSTANCE Folding WITH
               op <- LAMBDA as, r : IF IsWorkload(r) THEN as ELSE Append(as, r), base <- <<>>
Filtering == INSTANCE Folding WITH
               op <- LAMBDA rules, a : IF IsFilter(a) THEN Append(rules, SubSeq(a, 1, 2)) ELSE rules,
               base <- <<>>
Putting   == INSTANCE Folding WITH op <- PutBundle, base <- <<>>
Counting  == INSTANCE Folding WITH
               op <- LAMBDA n, b : n + Cardinality(b.resources), base <- 0

-----------------------------------------------------------------------------
\* Lists and their elements.

LEMMA Listed ==
  ASSUME NEW S, NEW s \in Seq(S)
  PROVE  /\ Len(s) \in Nat /\ DOMAIN s = 1..Len(s)
         /\ ToSet(s) \subseteq S
         /\ \A i \in 1..Len(s) : s[i] \in ToSet(s) /\ s[i] \in S
         /\ \A x \in ToSet(s) : \E i \in 1..Len(s) : x = s[i]
         /\ s \in Seq(ToSet(s))
         /\ s = <<>> <=> ToSet(s) = {}
<1>1. Len(s) \in Nat /\ DOMAIN s = 1..Len(s)
  BY LenProperties
<1>2. \A i \in 1..Len(s) : s[i] \in S
  BY ElementOfSeq
<1>3. \A i \in 1..Len(s) : s[i] \in ToSet(s)
  BY <1>1 DEF ToSet
<1>4. \A x \in ToSet(s) : \E i \in 1..Len(s) : x = s[i]
  BY <1>1 DEF ToSet
<1>5. s \in Seq(ToSet(s))
  <2>1. s = [i \in 1..Len(s) |-> s[i]]
    BY LenProperties
  <2> QED BY <1>1, <1>3, <2>1, IsASeq
<1>6. s = <<>> <=> ToSet(s) = {}
  <2>1. s = <<>> <=> Len(s) = 0
    BY EmptySeq
  <2>2. CASE Len(s) = 0
    <3>1. 1..0 = {}
      OBVIOUS
    <3> QED BY <1>1, <2>1, <2>2, <3>1 DEF ToSet
  <2>3. CASE Len(s) # 0
    <3>1. 1 \in 1..Len(s)
      BY <1>1, <2>3
    <3> QED BY <1>3, <2>1, <2>3, <3>1
  <2> QED BY <2>2, <2>3
<1> QED BY <1>1, <1>2, <1>3, <1>4, <1>5, <1>6

LEMMA Tabled ==
  ASSUME NEW S, NEW n \in Nat, NEW f, f = [i \in 1..n |-> f[i]], \A i \in 1..n : f[i] \in S
  PROVE  f \in Seq(S) /\ Len(f) = n
<1>1. f \in [1..n -> S]
  OBVIOUS
<1>2. f \in Seq(S)
  BY <1>1, IsASeq
<1>3. DOMAIN f = 1..Len(f) /\ Len(f) \in Nat /\ DOMAIN f = 1..n
  BY <1>1, <1>2, LenProperties
<1>4. Len(f) = n
  BY <1>1, <1>2, LenProperties
<1> QED BY <1>2, <1>4

LEMMA NothingListed ==
  ASSUME NEW S
  PROVE  <<>> \in Seq(S) /\ Len(<<>>) = 0 /\ ToSet(<<>>) = {}
<1>1. <<>> \in Seq(S)
  OBVIOUS
<1>2. ToSet(<<>>) = {}
  BY ONLY <1>1, Listed
<1> QED BY <1>1, <1>2

LEMMA Appended ==
  ASSUME NEW S, NEW s \in Seq(S), NEW x \in S
  PROVE  /\ Append(s, x) \in Seq(S)
         /\ Len(Append(s, x)) = Len(s) + 1
         /\ ToSet(Append(s, x)) = ToSet(s) \cup {x}
<1> DEFINE t == Append(s, x)
           n == Len(s)
<1>1. /\ t \in Seq(S) /\ Len(t) = n + 1 /\ n \in Nat
      /\ \A i \in 1..n : t[i] = s[i]
      /\ t[n + 1] = x
  BY AppendProperties, LenProperties
<1>2. DOMAIN t = 1..(n + 1) /\ DOMAIN s = 1..n
  BY <1>1, LenProperties
<1> HIDE DEF t
<1>3. \A i \in 1..(n + 1) : i \in 1..n \/ i = n + 1
  BY <1>1
<1>4. 1..n \subseteq 1..(n + 1) /\ n + 1 \in 1..(n + 1)
  BY <1>1
<1>5. ToSet(t) = ToSet(s) \cup {x}
  BY <1>1, <1>2, <1>3, <1>4 DEF ToSet
<1> QED BY <1>1, <1>5 DEF t

LEMMA Joined ==
  ASSUME NEW S, NEW s \in Seq(S), NEW t \in Seq(S)
  PROVE  /\ s \o t \in Seq(S)
         /\ ToSet(s \o t) = ToSet(s) \cup ToSet(t)
<1> DEFINE u == s \o t
           n == Len(s)
           k == Len(t)
<1>1. /\ u \in Seq(S) /\ Len(u) = n + k
      /\ \A i \in 1..(n + k) : u[i] = IF i <= n THEN s[i] ELSE t[i - n]
  BY ConcatProperties
<1>2. /\ n \in Nat /\ k \in Nat
      /\ DOMAIN u = 1..(n + k) /\ DOMAIN s = 1..n /\ DOMAIN t = 1..k
  BY <1>1, LenProperties
<1> HIDE DEF u, n, k
<1>3. ASSUME NEW x \in ToSet(s)
      PROVE  x \in ToSet(u)
  <2>1. PICK i \in 1..n : x = s[i]
    BY <1>2 DEF ToSet
  <2>2. i \in 1..(n + k) /\ i <= n
    BY <1>2
  <2> QED BY <1>1, <1>2, <2>1, <2>2 DEF ToSet
<1>4. ASSUME NEW x \in ToSet(t)
      PROVE  x \in ToSet(u)
  <2>1. PICK i \in 1..k : x = t[i]
    BY <1>2 DEF ToSet
  <2>2. n + i \in 1..(n + k) /\ ~(n + i <= n) /\ (n + i) - n = i
    BY <1>2
  <2>3. u[n + i] = x
    BY <1>1, <2>1, <2>2
  <2> QED BY <1>2, <2>2, <2>3 DEF ToSet
<1>5. ASSUME NEW x \in ToSet(u)
      PROVE  x \in ToSet(s) \cup ToSet(t)
  <2>1. PICK i \in 1..(n + k) : x = u[i]
    BY <1>2 DEF ToSet
  <2>2. CASE i <= n
    <3>1. i \in 1..n /\ x = s[i]
      BY <1>1, <1>2, <2>1, <2>2
    <3> QED BY <1>2, <3>1 DEF ToSet
  <2>3. CASE ~(i <= n)
    <3>1. i - n \in 1..k /\ x = t[i - n]
      BY <1>1, <1>2, <2>1, <2>3
    <3> QED BY <1>2, <3>1 DEF ToSet
  <2> QED BY <2>2, <2>3
<1> QED BY <1>1, <1>3, <1>4, <1>5 DEF u

\* The first and the last of some indices.
LEMMA FirstIndex ==
  ASSUME NEW n \in Nat, NEW I \in SUBSET (1..n), I # {}
  PROVE  Min(I) \in I /\ \A j \in I : Min(I) <= j
<1> DEFINE T == {k \in 0..n : \A j \in I : k < j}
<1>1. 0 \in T
  OBVIOUS
<1>2. PICK i \in 1..n : i - 1 \in T /\ i \notin T
  <2>1. n \notin T
    <3>1. PICK j \in I : TRUE
      OBVIOUS
    <3> QED BY <3>1
  <2> HIDE DEF T
  <2>2. n \in 0..n
    OBVIOUS
  <2>3. ~(\A i \in 1..n : i - 1 \in T => i \in T)
    BY <1>1, <2>1, <2>2, Adding!UpTo
  <2> QED BY <2>3
<1>3. PICK j \in I : ~(i < j) /\ i - 1 < j
  BY <1>2
<1>4. i = j
  BY <1>3
<1>5. \A k \in I : i - 1 < k
  BY <1>2
<1>6. \A k \in I : i <= k
  BY <1>5
<1>7. Min(I) \in I /\ \A k \in I : Min(I) <= k
  BY <1>3, <1>4, <1>6 DEF Min
<1> QED BY <1>7

LEMMA LastIndex ==
  ASSUME NEW n \in Nat, NEW I \in SUBSET (1..n), I # {}
  PROVE  Max(I) \in I /\ \A j \in I : j <= Max(I)
<1> DEFINE T == {k \in 0..n : \A j \in I : j < n + 1 - k}
<1>1. 0 \in T
  OBVIOUS
<1>2. PICK i \in 1..n : i - 1 \in T /\ i \notin T
  <2>1. n \notin T
    <3>1. PICK j \in I : TRUE
      OBVIOUS
    <3> QED BY <3>1
  <2> HIDE DEF T
  <2>2. n \in 0..n
    OBVIOUS
  <2>3. ~(\A i \in 1..n : i - 1 \in T => i \in T)
    BY <1>1, <2>1, <2>2, Adding!UpTo
  <2> QED BY <2>3
<1>3. PICK j \in I : ~(j < n + 1 - i) /\ j < n + 1 - (i - 1)
  BY <1>2
<1>4. j = n + 1 - i
  BY <1>3
<1>5. \A k \in I : k < n + 1 - (i - 1)
  BY <1>2
<1>6. \A k \in I : j >= k
  BY <1>4, <1>5
<1>7. Max(I) \in I /\ \A k \in I : Max(I) >= k
  BY <1>6 DEF Max
<1>8. \A k \in I : k <= Max(I)
  BY <1>7
<1> QED BY <1>7, <1>8

\* A list begins empty and gets the element v[i] in those turns i that are in T.
Collects(f, n, T, v, V) ==
  /\ n \in Nat
  /\ f[0] = <<>>
  /\ \A i \in 1..n : i \in T => v[i] \in V
  /\ \A i \in 1..n : f[i] = IF i \in T THEN Append(f[i - 1], v[i]) ELSE f[i - 1]

Picked(v, n, T) == {v[i] : i \in {j \in 1..n : j \in T}}

LEMMA Collected ==
  ASSUME NEW f, NEW n, NEW T, NEW v, NEW V, Collects(f, n, T, v, V)
  PROVE  /\ f[n] \in Seq(V)
         /\ ToSet(f[n]) = Picked(v, n, T)
         /\ Len(f[n]) <= n
         /\ Len(f[n]) = n => 1..n \subseteq T
<1> DEFINE Upto(k) == {v[i] : i \in {j \in 1..k : j \in T}}
           P(k) == /\ f[k] \in Seq(V) /\ ToSet(f[k]) = Upto(k) /\ Len(f[k]) \in Nat
                   /\ Len(f[k]) <= k
                   /\ Len(f[k]) = k => 1..k \subseteq T
           Good == {k \in 0..n : P(k)}
<1>0. /\ n \in Nat /\ f[0] = <<>>
      /\ \A i \in 1..n : i \in T => v[i] \in V
      /\ \A i \in 1..n : f[i] = IF i \in T THEN Append(f[i - 1], v[i]) ELSE f[i - 1]
  BY DEF Collects
<1>1. 0 \in Good
  <2>1. <<>> \in Seq(V) /\ Len(<<>>) = 0 /\ ToSet(<<>>) = {}
    BY NothingListed
  <2>2. 1..0 = {}
    OBVIOUS
  <2>3. Upto(0) = {}
    BY <2>2
  <2>4. 0 \in 0..n
    BY <1>0
  <2> HIDE DEF Upto
  <2>5. P(0)
    BY <1>0, <2>1, <2>2, <2>3
  <2> QED BY <2>4, <2>5
<1>2. ASSUME NEW i \in 1..n, i - 1 \in Good
      PROVE  i \in Good
  <2>1. i \in 0..n /\ i - 1 \in 0..n /\ i \in Nat
    BY <1>0
  <2>2. P(i - 1)
    BY <1>2
  <2>3. 1..i = (1..(i - 1)) \cup {i}
    BY <2>1
  <2>4. CASE i \in T
    <3>1. f[i] = Append(f[i - 1], v[i]) /\ v[i] \in V
      BY <1>0, <2>4
    <3>2. /\ f[i] \in Seq(V) /\ Len(f[i]) = Len(f[i - 1]) + 1
          /\ ToSet(f[i]) = ToSet(f[i - 1]) \cup {v[i]}
      BY <2>2, <3>1, Appended
    <3>3. Upto(i) = Upto(i - 1) \cup {v[i]}
      BY <2>3, <2>4
    <3>4. Len(f[i]) = i => 1..i \subseteq T
      <4>1. SUFFICES ASSUME Len(f[i]) = i PROVE 1..i \subseteq T
        OBVIOUS
      <4>2. Len(f[i - 1]) = i - 1
        BY <2>1, <2>2, <3>2, <4>1
      <4> QED BY <2>2, <2>3, <2>4, <4>2
    <3>5. Len(f[i]) \in Nat /\ Len(f[i]) <= i
      BY <2>1, <2>2, <3>2
    <3> HIDE DEF Upto
    <3> QED BY <2>1, <2>2, <3>2, <3>3, <3>4, <3>5
  <2>5. CASE i \notin T
    <3>1. f[i] = f[i - 1]
      BY <1>0, <2>5
    <3>2. Upto(i) = Upto(i - 1)
      BY <2>3, <2>5
    <3>3. Len(f[i]) < i
      BY <2>1, <2>2, <3>1
    <3> HIDE DEF Upto
    <3> QED BY <2>1, <2>2, <3>1, <3>2, <3>3
  <2> QED BY <2>4, <2>5
<1> HIDE DEF Good
<1>3. n \in Good
  <2>1. 0..n \subseteq Good
    BY <1>0, <1>1, <1>2, Adding!UpTo
  <2> QED BY <1>0, <2>1
<1> QED BY <1>3 DEF Good, Picked

-----------------------------------------------------------------------------
\* What the loops over resources and annotations build.

LEMMA BulkIs ==
  ASSUME NEW S, NEW ms \in Seq(S)
  PROVE  LET rs == BulkConvertToResourceSet(ms)
         IN  /\ rs \in Seq(S)
             /\ ToSet(rs) \subseteq ToSet(ms)
             /\ \A r \in ToSet(ms) : \E x \in ToSet(rs) : Equals(x, r)
<1> DEFINE n == Len(ms)
<1>1. PICK f : /\ f[0] = <<>>
               /\ \A i \in 1..n : f[i] = Add(f[i - 1], ms[i])
               /\ f[n] = BulkConvertToResourceSet(ms)
  BY Adding!Turns
     DEF BulkConvertToResourceSet, FoldLeft, MapThenFoldSet, Max,
         Adding!FoldLeft, Adding!MapThenFoldSet, Adding!Max
<1> DEFINE P(k) == /\ f[k] \in Seq(S) /\ ToSet(f[k]) \subseteq ToSet(ms)
                   /\ \A j \in 1..k : \E x \in ToSet(f[k]) : Equals(x, ms[j])
           T == {k \in 0..n : P(k)}
<1>2. /\ n \in Nat /\ \A i \in 1..n : ms[i] \in S /\ ms[i] \in ToSet(ms)
      /\ \A r \in ToSet(ms) : \E i \in 1..n : r = ms[i]
  BY Listed
<1>3. 0 \in T
  <2>1. 1..0 = {} /\ 0 \in 0..n
    BY <1>2
  <2>2. P(0)
    BY <1>1, <2>1, NothingListed
  <2> QED BY <2>1, <2>2
<1>4. ASSUME NEW i \in 1..n, i - 1 \in T
      PROVE  i \in T
  <2>1. i \in 0..n /\ P(i - 1) /\ 1..i = (1..(i - 1)) \cup {i}
    BY <1>2, <1>4
  <2>2. /\ f[i] = Add(f[i - 1], ms[i]) /\ ms[i] \in S /\ ms[i] \in ToSet(ms)
        /\ f[i - 1] \in Seq(S)
    BY <1>1, <1>2, <2>1
  <2>3. CASE \E j \in DOMAIN f[i - 1] : Equals(f[i - 1][j], ms[i])
    <3>1. f[i] = f[i - 1]
      BY <2>2, <2>3 DEF Add
    <3>2. \E x \in ToSet(f[i]) : Equals(x, ms[i])
      BY <2>3, <3>1 DEF ToSet
    <3>3. P(i)
      BY <2>1, <3>1, <3>2
    <3> QED BY <2>1, <3>3
  <2>4. CASE ~ \E j \in DOMAIN f[i - 1] : Equals(f[i - 1][j], ms[i])
    <3>1. f[i] = Append(f[i - 1], ms[i])
      BY <2>2, <2>4 DEF Add
    <3>2. f[i] \in Seq(S) /\ ToSet(f[i]) = ToSet(f[i - 1]) \cup {ms[i]}
      BY <2>2, <3>1, Appended
    <3>3. Equals(ms[i], ms[i])
      BY DEF Equals
    <3>4. P(i)
      BY <2>1, <2>2, <3>2, <3>3
    <3> QED BY <2>1, <3>4
  <2> QED BY <2>3, <2>4
<1> HIDE DEF T
<1>5. n \in T
  <2>1. 0..n \subseteq T
    BY <1>2, <1>3, <1>4, Adding!UpTo
  <2> QED BY <1>2, <2>1
<1>6. P(n)
  BY <1>5 DEF T
<1> QED BY <1>1, <1>2, <1>6

LEMMA WorkloadsAre ==
  ASSUME NEW S, NEW rs \in Seq(S)
  PROVE  /\ WorkloadsOf(rs) \in Seq(S)
         /\ ToSet(WorkloadsOf(rs)) = {r \in ToSet(rs) : IsWorkload(r)}
<1> DEFINE n == Len(rs)
           T == {i \in 1..n : IsWorkload(rs[i])}
<1>1. PICK f : /\ f[0] = <<>>
               /\ \A i \in 1..n :
                    f[i] = IF IsWorkload(rs[i]) THEN Append(f[i - 1], rs[i]) ELSE f[i - 1]
               /\ f[n] = WorkloadsOf(rs)
  BY Keeping!Turns
     DEF WorkloadsOf, FoldLeft, MapThenFoldSet, Max,
         Keeping!FoldLeft, Keeping!MapThenFoldSet, Keeping!Max
<1>2. /\ n \in Nat /\ \A i \in 1..n : rs[i] \in S /\ rs[i] \in ToSet(rs)
      /\ \A r \in ToSet(rs) : \E i \in 1..n : r = rs[i]
  BY Listed
<1>3. \A i \in 1..n : f[i] = IF i \in T THEN Append(f[i - 1], rs[i]) ELSE f[i - 1]
  BY <1>1
<1>4. /\ f[n] \in Seq(S)
      /\ ToSet(f[n]) = Picked(rs, n, T)
  <2> HIDE DEF T
  <2>1. Collects(f, n, T, rs, S)
    BY <1>1, <1>2, <1>3 DEF Collects
  <2> QED BY <2>1, Collected
<1> QED BY <1>1, <1>2, <1>4 DEF Picked

LEMMA AncillariesAre ==
  ASSUME NEW S, NEW rs \in Seq(S)
  PROVE  /\ AncillariesOf(rs) \in Seq(S)
         /\ ToSet(AncillariesOf(rs)) = {r \in ToSet(rs) : ~IsWorkload(r)}
<1> DEFINE n == Len(rs)
           T == {i \in 1..n : ~IsWorkload(rs[i])}
<1>1. PICK f : /\ f[0] = <<>>
               /\ \A i \in 1..n :
                    f[i] = IF IsWorkload(rs[i]) THEN f[i - 1] ELSE Append(f[i - 1], rs[i])
               /\ f[n] = AncillariesOf(rs)
  BY Leaving!Turns
     DEF AncillariesOf, FoldLeft, MapThenFoldSet, Max,
         Leaving!FoldLeft, Leaving!MapThenFoldSet, Leaving!Max
<1>2. /\ n \in Nat /\ \A i \in 1..n : rs[i] \in S /\ rs[i] \in ToSet(rs)
      /\ \A r \in ToSet(rs) : \E i \in 1..n : r = rs[i]
  BY Listed
<1>3. \A i \in 1..n : f[i] = IF i \in T THEN Append(f[i - 1], rs[i]) ELSE f[i - 1]
  BY <1>1
<1>4. /\ f[n] \in Seq(S)
      /\ ToSet(f[n]) = Picked(rs, n, T)
  <2> HIDE DEF T
  <2>1. Collects(f, n, T, rs, S)
    BY <1>1, <1>2, <1>3 DEF Collects
  <2> QED BY <2>1, Collected
<1> QED BY <1>1, <1>2, <1>4 DEF Picked

\* The code tells annotations that are not filters by there being fewer rules
\* than annotations (annotations.go:50).
LEMMA RulesAre ==
  ASSUME NEW S, NEW as \in Seq(S)
  PROVE  LET rules == ExtractPlacementRules(as)
         IN  /\ rules \in Seq({SubSeq(a, 1, 2) : a \in S})
             /\ ToSet(rules) = {SubSeq(a, 1, 2) : a \in {x \in ToSet(as) : IsFilter(x)}}
             /\ Len(rules) = Len(as) => \A a \in ToSet(as) : IsFilter(a)
<1> DEFINE n == Len(as)
           T == {i \in 1..n : IsFilter(as[i])}
           V == {SubSeq(a, 1, 2) : a \in S}
           v == [i \in 1..n |-> SubSeq(as[i], 1, 2)]
<1>1. PICK f : /\ f[0] = <<>>
               /\ \A i \in 1..n :
                    f[i] = IF IsFilter(as[i]) THEN Append(f[i - 1], SubSeq(as[i], 1, 2))
                                              ELSE f[i - 1]
               /\ f[n] = ExtractPlacementRules(as)
  BY Filtering!Turns
     DEF ExtractPlacementRules, FoldLeft, MapThenFoldSet, Max,
         Filtering!FoldLeft, Filtering!MapThenFoldSet, Filtering!Max
<1>2. /\ n \in Nat /\ \A i \in 1..n : as[i] \in S /\ as[i] \in ToSet(as)
      /\ \A a \in ToSet(as) : \E i \in 1..n : a = as[i]
  BY Listed
<1>3. \A i \in 1..n : f[i] = IF i \in T THEN Append(f[i - 1], v[i]) ELSE f[i - 1]
  BY <1>1
<1>4. \A i \in 1..n : v[i] \in V /\ v[i] = SubSeq(as[i], 1, 2)
  BY <1>2
<1>5. /\ f[n] \in Seq(V)
      /\ ToSet(f[n]) = Picked(v, n, T)
      /\ Len(f[n]) = n => 1..n \subseteq T
  <2> HIDE DEF T, v, V
  <2>1. Collects(f, n, T, v, V)
    BY <1>1, <1>2, <1>3, <1>4 DEF Collects
  <2> QED BY <2>1, Collected
<1>6. ToSet(f[n]) = {SubSeq(a, 1, 2) : a \in {x \in ToSet(as) : IsFilter(x)}}
  <2> DEFINE W == {SubSeq(a, 1, 2) : a \in {x \in ToSet(as) : IsFilter(x)}}
  <2>1. ASSUME NEW x \in ToSet(f[n])
        PROVE  x \in W
    <3>1. PICK i \in 1..n : i \in T /\ x = v[i]
      BY <1>5 DEF Picked
    <3>2. as[i] \in ToSet(as) /\ IsFilter(as[i]) /\ x = SubSeq(as[i], 1, 2)
      BY <1>2, <1>4, <3>1
    <3> QED BY <3>2
  <2>2. ASSUME NEW a \in ToSet(as), IsFilter(a)
        PROVE  SubSeq(a, 1, 2) \in ToSet(f[n])
    <3>1. PICK i \in 1..n : a = as[i]
      BY <1>2
    <3>2. i \in T /\ v[i] = SubSeq(a, 1, 2)
      BY <1>4, <2>2, <3>1
    <3> QED BY <1>5, <3>2 DEF Picked
  <2> QED BY <2>1, <2>2
<1>7. Len(f[n]) = n => \A a \in ToSet(as) : IsFilter(a)
  BY <1>2, <1>5
<1> HIDE DEF v, T
<1> QED BY <1>1, <1>5, <1>6, <1>7

-----------------------------------------------------------------------------
\* What look-ups find.

LEMMA FindIs ==
  ASSUME NEW S, NEW rs \in Seq(S), NEW name, NEW kind
  PROVE  LET fits == {r \in ToSet(rs) : r.kind = kind /\ r.name = name}
         IN  /\ Find(rs, name, kind) \subseteq fits
             /\ Find(rs, name, kind) = {} => fits = {}
             /\ \A x, y \in Find(rs, name, kind) : x = y
<1> DEFINE n == Len(rs)
           I == {i \in 1..n : rs[i].kind = kind /\ rs[i].name = name}
<1>1. /\ n \in Nat /\ \A i \in 1..n : rs[i] \in ToSet(rs)
      /\ \A r \in ToSet(rs) : \E i \in 1..n : r = rs[i]
  BY Listed
<1>2. Find(rs, name, kind) = Hit(rs, IF I # {} THEN Min(I) ELSE 0)
  BY DEF Find, SelectInSeq
<1>3. CASE I = {}
  <2>1. Find(rs, name, kind) = {}
    BY <1>2, <1>3 DEF Hit
  <2>2. \A r \in ToSet(rs) : ~(r.kind = kind /\ r.name = name)
    BY <1>1, <1>3
  <2> QED BY <2>1, <2>2
<1>4. CASE I # {}
  <2>1. Min(I) \in I
    BY <1>1, <1>4, FirstIndex
  <2> DEFINE i == Min(I)
  <2>2. i \in 1..n /\ rs[i].kind = kind /\ rs[i].name = name /\ i # 0
    BY <1>1, <2>1
  <2>3. Find(rs, name, kind) = {rs[i]}
    BY <1>2, <1>4, <2>2 DEF Hit
  <2> HIDE DEF i
  <2> QED BY <1>1, <2>2, <2>3
<1> QED BY <1>3, <1>4

LEMMA FindWorkloadIs ==
  ASSUME NEW S, NEW rs \in Seq(S), NEW name
  PROVE  LET fits == {r \in ToSet(rs) : r.name = name /\ IsWorkload(r)}
         IN  /\ FindWorkload(rs, name) \subseteq fits
             /\ FindWorkload(rs, name) = {} => fits = {}
             /\ \A x, y \in FindWorkload(rs, name) : x = y
<1> DEFINE n == Len(rs)
           I == {i \in 1..n : rs[i].name = name /\ IsWorkload(rs[i])}
<1>1. /\ n \in Nat /\ \A i \in 1..n : rs[i] \in ToSet(rs)
      /\ \A r \in ToSet(rs) : \E i \in 1..n : r = rs[i]
  BY Listed
<1>2. FindWorkload(rs, name) = Hit(rs, IF I # {} THEN Min(I) ELSE 0)
  BY DEF FindWorkload, SelectInSeq
<1>3. CASE I = {}
  <2>1. FindWorkload(rs, name) = {}
    BY <1>2, <1>3 DEF Hit
  <2>2. \A r \in ToSet(rs) : ~(r.name = name /\ IsWorkload(r))
    BY <1>1, <1>3
  <2> QED BY <2>1, <2>2
<1>4. CASE I # {}
  <2>1. Min(I) \in I
    BY <1>1, <1>4, FirstIndex
  <2> DEFINE i == Min(I)
  <2>2. i \in 1..n /\ rs[i].name = name /\ IsWorkload(rs[i]) /\ i # 0
    BY <1>1, <2>1
  <2>3. FindWorkload(rs, name) = {rs[i]}
    BY <1>2, <1>4, <2>2 DEF Hit
  <2> HIDE DEF i
  <2> QED BY <1>1, <2>2, <2>3
<1> QED BY <1>3, <1>4

\* A sequence of stages goes through if and only if each stage does.
LEMMA FaultFree ==
  ASSUME NEW S, NEW faults \in Seq(S)
  PROVE  FirstFault(faults) = "none" <=> \A i \in 1..Len(faults) : faults[i] = "none"
<1> DEFINE n == Len(faults)
           I == {i \in 1..n : faults[i] # "none"}
<1>1. n \in Nat
  BY LenProperties
<1>2. FirstFault(faults) = LET i == IF I # {} THEN Min(I) ELSE 0
                           IN  IF i = 0 THEN "none" ELSE faults[i]
  BY DEF FirstFault, SelectInSeq
<1>3. CASE I = {}
  BY <1>2, <1>3
<1>4. CASE I # {}
  <2>1. Min(I) \in I
    BY <1>1, <1>4, FirstIndex
  <2>2. Min(I) \in 1..n /\ faults[Min(I)] # "none" /\ Min(I) # 0
    BY <1>1, <2>1
  <2> QED BY <1>2, <1>4, <2>2
<1> QED BY <1>3, <1>4

LEMMA FaultFreeBoth ==
  ASSUME NEW S, NEW s \in Seq(S), NEW t \in Seq(S)
  PROVE  FirstFault(s \o t) = "none" <=> FirstFault(s) = "none" /\ FirstFault(t) = "none"
<1> DEFINE u == s \o t
           n == Len(s)
           k == Len(t)
<1>1. /\ u \in Seq(S) /\ Len(u) = n + k
      /\ \A i \in 1..(n + k) : u[i] = IF i <= n THEN s[i] ELSE t[i - n]
  BY ConcatProperties
<1>2. n \in Nat /\ k \in Nat
  BY LenProperties
<1>3. /\ FirstFault(u) = "none" <=> \A i \in 1..(n + k) : u[i] = "none"
      /\ FirstFault(s) = "none" <=> \A i \in 1..n : s[i] = "none"
      /\ FirstFault(t) = "none" <=> \A i \in 1..k : t[i] = "none"
  BY <1>1, FaultFree
<1> HIDE DEF u, n, k
<1>4. ASSUME \A i \in 1..(n + k) : u[i] = "none"
      PROVE  (\A i \in 1..n : s[i] = "none") /\ (\A i \in 1..k : t[i] = "none")
  <2>1. ASSUME NEW i \in 1..n PROVE s[i] = "none"
    <3>1. i \in 1..(n + k) /\ i <= n
      BY <1>2
    <3> QED BY <1>1, <1>4, <3>1
  <2>2. ASSUME NEW i \in 1..k PROVE t[i] = "none"
    <3>1. n + i \in 1..(n + k) /\ ~(n + i <= n) /\ (n + i) - n = i
      BY <1>2
    <3> QED BY <1>1, <1>4, <3>1
  <2> QED BY <2>1, <2>2
<1>5. ASSUME \A i \in 1..n : s[i] = "none", \A i \in 1..k : t[i] = "none"
      PROVE  \A i \in 1..(n + k) : u[i] = "none"
  <2>1. SUFFICES ASSUME NEW i \in 1..(n + k) PROVE u[i] = "none"
    OBVIOUS
  <2>2. CASE i <= n
    <3>1. i \in 1..n
      BY <1>2, <2>2
    <3> QED BY <1>1, <1>5, <2>2, <3>1
  <2>3. CASE ~(i <= n)
    <3>1. i - n \in 1..k
      BY <1>2, <2>3
    <3> QED BY <1>1, <1>5, <2>3, <3>1
  <2> QED BY <2>2, <2>3
<1> QED BY <1>3, <1>4, <1>5 DEF u

-----------------------------------------------------------------------------
\* What a manifest comes to.

Resource(m) == ToSet(m.manifests)
Kept(m)     == ToSet(BulkConvertToResourceSet(m.manifests))

LEMMA ListsAre ==
  ASSUME NEW m, IsManifest(m)
  PROVE  /\ BulkConvertToResourceSet(m.manifests) \in Seq(Resource(m))
         /\ ListedWorkloads(m) \in Seq(Resource(m))
         /\ Ancillaries(m) \in Seq(Resource(m))
         /\ Kept(m) \subseteq Resource(m)
         /\ \A r \in Resource(m) : \E x \in Kept(m) : Equals(x, r)
         /\ ToSet(ListedWorkloads(m)) = {r \in Kept(m) : IsWorkload(r)}
         /\ ToSet(Ancillaries(m)) = {r \in Kept(m) : ~IsWorkload(r)}
<1>1. m.manifests \in Seq(Resource(m))
  BY DEF IsManifest, Resource
<1>2. /\ BulkConvertToResourceSet(m.manifests) \in Seq(Resource(m))
      /\ Kept(m) \subseteq Resource(m)
      /\ \A r \in Resource(m) : \E x \in Kept(m) : Equals(x, r)
  BY <1>1, BulkIs DEF Kept, Resource
<1>3. /\ ListedWorkloads(m) \in Seq(Resource(m))
      /\ ToSet(ListedWorkloads(m)) = {r \in Kept(m) : IsWorkload(r)}
  BY <1>2, WorkloadsAre DEF ListedWorkloads, Kept
<1>4. /\ Ancillaries(m) \in Seq(Resource(m))
      /\ ToSet(Ancillaries(m)) = {r \in Kept(m) : ~IsWorkload(r)}
  BY <1>2, AncillariesAre DEF Ancillaries, Kept
<1> QED BY <1>2, <1>3, <1>4

Faults == {"none", "retry", "misconfigured"}

\* Every stage that the code passes.
EntryPassed(m) ==
  /\ AnnotationsSupported(m.global, m.perWorkload)
  /\ ~TargetPanics(m.global)
  /\ TargetClusterSet(m.global) # ""
  /\ \A r \in Resource(m) : ManifestFault(r) = "none"

AssignmentPassed(m) ==
  /\ ~RulesPanic(m.global)
  /\ \A e \in ToSet(m.perWorkload) :
       WorkloadAnnotationFault(e, FindWorkload(ListedWorkloads(m), e.name) # {}) = "none"

AnalysisPassed(m) ==
  m.perWorkload # <<>>
    => \A w \in ToSet(ListedWorkloads(m)) : AnalysisFault(w, Ancillaries(m)) = "none"

LEMMA ManifestFaultType ==
  ASSUME NEW r
  PROVE  ManifestFault(r) \in Faults
BY DEF ManifestFault, Faults

LEMMA AssignmentFaultType ==
  ASSUME NEW e, NEW b
  PROVE  WorkloadAnnotationFault(e, b) \in Faults
BY DEF WorkloadAnnotationFault, Faults

LEMMA AnalysisFaultType ==
  ASSUME NEW w, NEW as
  PROVE  AnalysisFault(w, as) \in Faults
BY DEF AnalysisFault, Faults

LEMMA ConversionIs ==
  ASSUME NEW m, IsManifest(m)
  PROVE  /\ ConversionFaults(m) \in Seq(Faults)
         /\ FirstFault(ConversionFaults(m)) = "none"
              <=> \A r \in Resource(m) : ManifestFault(r) = "none"
<1> DEFINE n == Len(m.manifests)
           faults == [i \in 1..n |-> ManifestFault(m.manifests[i])]
<1>1. /\ n \in Nat /\ DOMAIN m.manifests = 1..n
      /\ \A i \in 1..n : m.manifests[i] \in Resource(m)
      /\ \A r \in Resource(m) : \E i \in 1..n : r = m.manifests[i]
  BY Listed DEF IsManifest, Resource
<1>2. ConversionFaults(m) = faults
  BY <1>1 DEF ConversionFaults
<1>3. \A i \in 1..n : faults[i] = ManifestFault(m.manifests[i]) /\ faults[i] \in Faults
  BY ManifestFaultType
<1>4. faults = [i \in 1..n |-> faults[i]]
  OBVIOUS
<1> HIDE DEF faults
<1>5. faults \in Seq(Faults) /\ Len(faults) = n
  BY <1>1, <1>3, <1>4, Tabled
<1>6. FirstFault(faults) = "none" <=> \A i \in 1..n : faults[i] = "none"
  BY <1>5, FaultFree
<1> QED BY <1>1, <1>2, <1>3, <1>5, <1>6

LEMMA AssignmentIs ==
  ASSUME NEW m, IsManifest(m)
  PROVE  /\ AssignmentFaults(m) \in Seq(Faults)
         /\ FirstFault(AssignmentFaults(m)) = "none"
              <=> \A e \in ToSet(m.perWorkload) :
                    WorkloadAnnotationFault(e, FindWorkload(ListedWorkloads(m), e.name) # {})
                      = "none"
<1> DEFINE n == Len(m.perWorkload)
           fault(e) == WorkloadAnnotationFault(e, FindWorkload(ListedWorkloads(m), e.name) # {})
           faults == [i \in 1..n |-> fault(m.perWorkload[i])]
<1>1. /\ n \in Nat /\ DOMAIN m.perWorkload = 1..n
      /\ \A i \in 1..n : m.perWorkload[i] \in ToSet(m.perWorkload)
      /\ \A e \in ToSet(m.perWorkload) : \E i \in 1..n : e = m.perWorkload[i]
  BY Listed DEF IsManifest
<1>2. AssignmentFaults(m) = faults
  BY <1>1 DEF AssignmentFaults
<1>3. \A i \in 1..n : faults[i] = fault(m.perWorkload[i]) /\ faults[i] \in Faults
  BY AssignmentFaultType
<1>4. faults = [i \in 1..n |-> faults[i]]
  OBVIOUS
<1> HIDE DEF faults
<1>5. faults \in Seq(Faults) /\ Len(faults) = n
  BY <1>1, <1>3, <1>4, Tabled
<1>6. FirstFault(faults) = "none" <=> \A i \in 1..n : faults[i] = "none"
  BY <1>5, FaultFree
<1>7. (\A i \in 1..n : faults[i] = "none") <=> \A e \in ToSet(m.perWorkload) : fault(e) = "none"
  BY <1>1, <1>3
<1> QED BY <1>2, <1>5, <1>6, <1>7

LEMMA AnalysisIs ==
  ASSUME NEW m, IsManifest(m)
  PROVE  /\ AnalysisFaults(m) \in Seq(Faults)
         /\ FirstFault(AnalysisFaults(m)) = "none"
              <=> \A w \in ToSet(ListedWorkloads(m)) : AnalysisFault(w, Ancillaries(m)) = "none"
<1> DEFINE ws == ListedWorkloads(m)
           n == Len(ws)
           fault(w) == AnalysisFault(w, Ancillaries(m))
           faults == [i \in 1..n |-> fault(ws[i])]
<1>1. /\ n \in Nat /\ DOMAIN ws = 1..n
      /\ \A i \in 1..n : ws[i] \in ToSet(ws)
      /\ \A w \in ToSet(ws) : \E i \in 1..n : w = ws[i]
  BY Listed, ListsAre
<1>2. AnalysisFaults(m) = faults
  BY <1>1 DEF AnalysisFaults
<1>3. \A i \in 1..n : faults[i] = fault(ws[i]) /\ faults[i] \in Faults
  BY AnalysisFaultType
<1>4. faults = [i \in 1..n |-> faults[i]]
  OBVIOUS
<1> HIDE DEF faults
<1>5. faults \in Seq(Faults) /\ Len(faults) = n
  BY <1>1, <1>3, <1>4, Tabled
<1>6. FirstFault(faults) = "none" <=> \A i \in 1..n : faults[i] = "none"
  BY <1>5, FaultFree
<1>7. (\A i \in 1..n : faults[i] = "none") <=> \A w \in ToSet(ws) : fault(w) = "none"
  BY <1>1, <1>3
<1> QED BY <1>2, <1>5, <1>6, <1>7

\* A manifest is scheduled if and only if it passes every stage.
LEMMA OutcomeIs ==
  ASSUME NEW m, IsManifest(m)
  PROVE  Outcome(m) = "none"
           <=> EntryPassed(m) /\ (IsTargeted(m) \/ (AssignmentPassed(m) /\ AnalysisPassed(m)))
<1> DEFINE entry == FirstFault(AnnotationFaults(m) \o ConversionFaults(m))
           analysis == IF m.perWorkload = <<>> THEN <<>> ELSE AnalysisFaults(m)
           rest == FirstFault(GlobalRulesFault(m) \o AssignmentFaults(m) \o analysis)
<1>1. entry = "none" <=> EntryPassed(m)
  <2> DEFINE fs == AnnotationFaults(m)
  <2>1. fs \in Seq(Faults) /\ Len(fs) = 2
    BY DEF AnnotationFaults, Faults
  <2>2. FirstFault(fs) = "none" <=> fs[1] = "none" /\ fs[2] = "none"
    <3>1. FirstFault(fs) = "none" <=> \A i \in 1..2 : fs[i] = "none"
      BY <2>1, FaultFree
    <3>2. 1 \in 1..2 /\ 2 \in 1..2 /\ \A i \in 1..2 : i = 1 \/ i = 2
      OBVIOUS
    <3> HIDE DEF fs
    <3> QED BY <3>1, <3>2
  <2>3. /\ fs[1] = "none" <=> AnnotationsSupported(m.global, m.perWorkload)
        /\ fs[2] = "none" <=> ~TargetPanics(m.global) /\ TargetClusterSet(m.global) # ""
    BY DEF AnnotationFaults
  <2>4. entry = "none" <=> FirstFault(fs) = "none" /\ FirstFault(ConversionFaults(m)) = "none"
    <3> HIDE DEF fs
    <3> QED BY <2>1, ConversionIs, FaultFreeBoth DEF fs
  <2> HIDE DEF entry, fs
  <2> QED BY <2>2, <2>3, <2>4, ConversionIs DEF EntryPassed
<1>2. rest = "none" <=> AssignmentPassed(m) /\ AnalysisPassed(m)
  <2> DEFINE gs == GlobalRulesFault(m)
             fs == AssignmentFaults(m)
  <2>1. gs \in Seq(Faults) /\ Len(gs) = 1 /\ (gs[1] = "none" <=> ~RulesPanic(m.global))
    BY DEF GlobalRulesFault, Faults
  <2>2. FirstFault(gs) = "none" <=> ~RulesPanic(m.global)
    <3>1. FirstFault(gs) = "none" <=> \A i \in 1..1 : gs[i] = "none"
      BY <2>1, FaultFree
    <3>2. 1 \in 1..1 /\ \A i \in 1..1 : i = 1
      OBVIOUS
    <3> HIDE DEF gs
    <3> QED BY <2>1, <3>1, <3>2
  <2>3. fs \in Seq(Faults)
    BY AssignmentIs
  <2>4. analysis \in Seq(Faults) /\ (FirstFault(analysis) = "none" <=> AnalysisPassed(m))
    <3>1. CASE m.perWorkload = <<>>
      <4>1. <<>> \in Seq(Faults) /\ Len(<<>>) = 0 /\ 1..0 = {}
        OBVIOUS
      <4>2. FirstFault(<<>>) = "none"
        BY <4>1, FaultFree
      <4> QED BY <3>1, <4>1, <4>2 DEF AnalysisPassed
    <3>2. CASE m.perWorkload # <<>>
      BY <3>2, AnalysisIs DEF AnalysisPassed
    <3> QED BY <3>1, <3>2
  <2> HIDE DEF gs, fs, analysis
  <2>5. gs \o fs \in Seq(Faults)
    BY <2>1, <2>3, ConcatProperties
  <2>6. /\ FirstFault(gs \o fs \o analysis) = "none"
             <=> FirstFault(gs \o fs) = "none" /\ FirstFault(analysis) = "none"
        /\ FirstFault(gs \o fs) = "none" <=> FirstFault(gs) = "none" /\ FirstFault(fs) = "none"
    BY <2>1, <2>3, <2>4, <2>5, FaultFreeBoth
  <2>7. FirstFault(fs) = "none"
          <=> \A e \in ToSet(m.perWorkload) :
                WorkloadAnnotationFault(e, FindWorkload(ListedWorkloads(m), e.name) # {}) = "none"
    BY AssignmentIs DEF fs
  <2> QED BY <2>2, <2>4, <2>6, <2>7 DEF AssignmentPassed, gs, fs
<1>3. Outcome(m) = IF entry # "none" \/ IsTargeted(m) THEN entry ELSE rest
  BY DEF Outcome
<1> HIDE DEF entry, rest
<1> QED BY <1>1, <1>2, <1>3

-----------------------------------------------------------------------------
\* The bundles.

LEMMA PutIs ==
  ASSUME NEW S, NEW bs \in Seq(S), NEW b \in S
  PROVE  LET cs == PutBundle(bs, b)
         IN  /\ cs \in Seq(S)
             /\ ToSet(cs) \subseteq ToSet(bs) \cup {b}
             /\ \E c \in ToSet(cs) : c.name = b.name
             /\ \A x \in ToSet(bs) : \E c \in ToSet(cs) : c.name = x.name
<1> DEFINE cs == PutBundle(bs, b)
           n == Len(bs)
<1>1. /\ n \in Nat /\ DOMAIN bs = 1..n
      /\ \A i \in 1..n : bs[i] \in S /\ bs[i] \in ToSet(bs)
      /\ \A x \in ToSet(bs) : \E i \in 1..n : x = bs[i]
  BY Listed
<1>2. CASE \E i \in 1..n : bs[i].name = b.name
  <2>1. PICK k \in 1..n : bs[k].name = b.name
    BY <1>2
  <2>2. cs = [i \in 1..n |-> IF bs[i].name = b.name THEN b ELSE bs[i]]
    BY <1>1, <1>2 DEF PutBundle
  <2>3. /\ cs = [i \in 1..n |-> cs[i]]
        /\ \A i \in 1..n : cs[i] = (IF bs[i].name = b.name THEN b ELSE bs[i]) /\ cs[i] \in S
    BY <1>1, <2>2
  <2> HIDE DEF cs
  <2>4. cs \in Seq(S) /\ Len(cs) = n
    BY <1>1, <2>3, Tabled
  <2>5. /\ \A i \in 1..n : cs[i] \in ToSet(cs)
        /\ \A x \in ToSet(cs) : \E i \in 1..n : x = cs[i]
    <3> HIDE DEF n
    <3>1. ToSet(cs) = {cs[i] : i \in 1..n}
      <4>1. DOMAIN cs = 1..n
        BY ONLY <2>3
      <4> QED BY ONLY <4>1, Zenon DEF ToSet
    <3> QED BY ONLY <3>1, Zenon
  <2>6. ToSet(cs) \subseteq ToSet(bs) \cup {b}
    <3> HIDE DEF n
    <3>1. \A i \in 1..n : cs[i] = b \/ cs[i] \in ToSet(bs)
      BY ONLY <1>1, <2>3
    <3> QED BY ONLY <2>5, <3>1
  <2>7. cs[k] = b
    BY <2>1, <2>3
  <2>8. ASSUME NEW x \in ToSet(bs)
        PROVE  \E c \in ToSet(cs) : c.name = x.name
    <3>1. PICK i \in 1..n : x = bs[i]
      BY <1>1
    <3>2. cs[i].name = x.name
      BY <2>3, <3>1
    <3> QED BY <2>5, <3>2
  <2> QED BY <2>4, <2>5, <2>6, <2>7, <2>8 DEF cs
<1>3. CASE ~ \E i \in 1..n : bs[i].name = b.name
  <2>1. cs = Append(bs, b)
    BY <1>1, <1>3 DEF PutBundle
  <2>2. cs \in Seq(S) /\ ToSet(cs) = ToSet(bs) \cup {b}
    BY <2>1, Appended
  <2> HIDE DEF cs
  <2> QED BY <2>2 DEF cs
<1> QED BY <1>2, <1>3

LEMMA PuttingIs ==
  ASSUME NEW S, NEW bs \in Seq(S)
  PROVE  LET cs == FoldLeft(PutBundle, <<>>, bs)
         IN  /\ cs \in Seq(S)
             /\ ToSet(cs) \subseteq ToSet(bs)
             /\ \A b \in ToSet(bs) : \E c \in ToSet(cs) : c.name = b.name
<1> DEFINE n == Len(bs)
           cs == FoldLeft(PutBundle, <<>>, bs)
<1>1. PICK f : /\ f[0] = <<>>
               /\ \A i \in 1..n : f[i] = PutBundle(f[i - 1], bs[i])
               /\ f[n] = cs
  BY Putting!Turns
     DEF FoldLeft, MapThenFoldSet, Max, Putting!FoldLeft, Putting!MapThenFoldSet, Putting!Max
<1> HIDE DEF cs
<1> DEFINE P(k) == /\ f[k] \in Seq(S) /\ ToSet(f[k]) \subseteq ToSet(bs)
                   /\ \A j \in 1..k : \E c \in ToSet(f[k]) : c.name = bs[j].name
           T == {k \in 0..n : P(k)}
<1>2. /\ n \in Nat /\ \A i \in 1..n : bs[i] \in S /\ bs[i] \in ToSet(bs)
      /\ \A b \in ToSet(bs) : \E i \in 1..n : b = bs[i]
  BY Listed
<1>3. 0 \in T
  <2>1. 1..0 = {} /\ 0 \in 0..n
    BY <1>2
  <2>2. P(0)
    BY <1>1, <2>1, NothingListed
  <2> QED BY <2>1, <2>2
<1>4. ASSUME NEW i \in 1..n, i - 1 \in T
      PROVE  i \in T
  <2>1. i \in 0..n /\ P(i - 1) /\ 1..i = (1..(i - 1)) \cup {i}
    BY <1>2, <1>4
  <2> DEFINE old == f[i - 1]
  <2>2. /\ f[i] = PutBundle(old, bs[i]) /\ bs[i] \in S /\ bs[i] \in ToSet(bs) /\ old \in Seq(S)
    BY <1>1, <1>2, <2>1
  <2>3. /\ f[i] \in Seq(S) /\ ToSet(f[i]) \subseteq ToSet(old) \cup {bs[i]}
        /\ \E c \in ToSet(f[i]) : c.name = bs[i].name
        /\ \A x \in ToSet(old) : \E c \in ToSet(f[i]) : c.name = x.name
    <3> DEFINE new == PutBundle(old, bs[i])
    <3>1. /\ new \in Seq(S) /\ ToSet(new) \subseteq ToSet(old) \cup {bs[i]}
          /\ \E c \in ToSet(new) : c.name = bs[i].name
          /\ \A x \in ToSet(old) : \E c \in ToSet(new) : c.name = x.name
      <4> HIDE DEF old, P, T, n
      <4> QED BY <2>2, PutIs
    <3> HIDE DEF old, new
    <3> QED BY <2>2, <3>1 DEF new
  <2>4. ASSUME NEW j \in 1..(i - 1)
        PROVE  \E c \in ToSet(f[i]) : c.name = bs[j].name
    <3>1. PICK x \in ToSet(old) : x.name = bs[j].name
      BY <2>1
    <3> QED BY <2>3, <3>1
  <2>5. P(i)
    BY <2>1, <2>2, <2>3, <2>4
  <2> QED BY <2>1, <2>5
<1> HIDE DEF T
<1>5. n \in T
  <2>1. 0..n \subseteq T
    BY <1>2, <1>3, <1>4, Adding!UpTo
  <2> QED BY <1>2, <2>1
<1>6. P(n)
  BY <1>5 DEF T
<1>7. ASSUME NEW b \in ToSet(bs)
      PROVE  \E c \in ToSet(cs) : c.name = b.name
  <2>1. PICK i \in 1..n : b = bs[i]
    BY <1>2
  <2> QED BY <1>1, <1>6, <2>1
<1> QED BY <1>1, <1>6, <1>7 DEF cs

Workloads(m) == {r \in Kept(m) : IsWorkload(r)}

\* With annotations for workloads, the bundles are those of the workloads; one
\* is lost only to another of the same name.
LEMMA BundlesAre ==
  ASSUME NEW m, IsManifest(m), ~IsTargeted(m), m.perWorkload # <<>>
  PROVE  LET bs == BuildBundles(m)
         IN  /\ bs \in Seq({WorkloadBundleOf(w, m) : w \in Workloads(m)})
             /\ ToSet(bs) \subseteq {WorkloadBundleOf(w, m) : w \in Workloads(m)}
             /\ \A w \in Workloads(m) : \E b \in ToSet(bs) : b.name = w.name
             /\ (\A x, y \in Workloads(m) : x.name = y.name => x = y)
                  => ToSet(bs) = {WorkloadBundleOf(w, m) : w \in Workloads(m)}
<1> DEFINE ws == ListedWorkloads(m)
           n == Len(ws)
           all == WorkloadBundles(m)
           B(w) == WorkloadBundleOf(w, m)
           S == {B(w) : w \in Workloads(m)}
           bs == BuildBundles(m)
<1>1. /\ n \in Nat /\ DOMAIN ws = 1..n
      /\ \A i \in 1..n : ws[i] \in Workloads(m)
      /\ \A w \in Workloads(m) : \E i \in 1..n : w = ws[i]
  BY Listed, ListsAre DEF Workloads
<1>2. /\ all = [i \in 1..n |-> all[i]]
      /\ \A i \in 1..n : all[i] = B(ws[i]) /\ all[i] \in S
  BY <1>1 DEF WorkloadBundles
<1>3. all \in Seq(S) /\ Len(all) = n
  <2> HIDE DEF all, S
  <2> QED BY <1>1, <1>2, Tabled
<1>4. /\ \A i \in 1..n : all[i] \in ToSet(all)
      /\ ToSet(all) \subseteq S
  <2> HIDE DEF all, S
  <2> QED BY <1>3, Listed
<1>5. bs = FoldLeft(PutBundle, <<>>, all)
  BY DEF BuildBundles
<1>6. /\ bs \in Seq(S) /\ ToSet(bs) \subseteq ToSet(all)
      /\ \A b \in ToSet(all) : \E c \in ToSet(bs) : c.name = b.name
  <2> HIDE DEF all, S, bs
  <2> QED BY <1>3, <1>5, PuttingIs
<1>7. ToSet(bs) \subseteq S
  BY <1>4, <1>6
<1>8. \A w \in Workloads(m) : B(w).name = w.name
  BY DEF WorkloadBundleOf
<1>9. ASSUME NEW w \in Workloads(m)
      PROVE  \E b \in ToSet(bs) : b.name = w.name
  <2>1. PICK i \in 1..n : w = ws[i]
    BY <1>1
  <2>2. all[i] \in ToSet(all) /\ all[i].name = w.name
    BY <1>2, <1>4, <1>8, <2>1
  <2> QED BY <1>6, <2>2
<1>10. ASSUME \A x, y \in Workloads(m) : x.name = y.name => x = y,
              NEW w \in Workloads(m)
       PROVE  B(w) \in ToSet(bs)
  <2>1. PICK b \in ToSet(bs) : b.name = w.name
    BY <1>9
  <2>2. PICK v \in Workloads(m) : b = B(v)
    BY <1>7, <2>1
  <2>3. v = w
    BY <1>8, <1>10, <2>1, <2>2
  <2> QED BY <2>1, <2>2, <2>3
<1>11. (\A x, y \in Workloads(m) : x.name = y.name => x = y) => ToSet(bs) = S
  <2> HIDE DEF bs
  <2> SUFFICES ASSUME \A x, y \in Workloads(m) : x.name = y.name => x = y
               PROVE  S \subseteq ToSet(bs)
    BY <1>7
  <2>1. \A w \in Workloads(m) : B(w) \in ToSet(bs)
    BY <1>10
  <2> HIDE DEF B
  <2> QED BY <2>1
<1>12. bs = BuildBundles(m)
  OBVIOUS
<1> HIDE DEF bs
<1> QED BY <1>6, <1>7, <1>9, <1>11, <1>12

-----------------------------------------------------------------------------
\* What is written remains of the form that Kubernetes accepts.

MInv == IsManifest(manifest) /\ next \in Nat \ {0}

LEMMA Rewritten ==
  ASSUME NEW m, IsManifest(m),
         NEW rs, rs \in Seq(ToSet(rs)), \A r \in ToSet(rs) : IsResource(r)
  PROVE  IsManifest([m EXCEPT !.manifests = rs])
<1> DEFINE new == [m EXCEPT !.manifests = rs]
<1>1. m = [name |-> m.name, manifests |-> m.manifests, global |-> m.global,
           perWorkload |-> m.perWorkload]
  BY DEF IsManifest
<1>2. new = [name |-> m.name, manifests |-> rs, global |-> m.global,
             perWorkload |-> m.perWorkload]
  BY <1>1
<1>3. /\ new.name = m.name /\ new.manifests = rs /\ new.global = m.global
      /\ new.perWorkload = m.perWorkload
  BY <1>2
<1> HIDE DEF new
<1>4. new = [name |-> new.name, manifests |-> new.manifests, global |-> new.global,
             perWorkload |-> new.perWorkload]
  BY <1>2, <1>3
<1>5. IsManifest(new)
  BY <1>3, <1>4 DEF IsManifest
<1> QED BY <1>5 DEF new

LEMMA MInvStarts == Init => MInv
BY WritingAssumption DEF Init, MInv

LEMMA MInvSteps == MInv /\ [Next]_vars => MInv'
<1> SUFFICES ASSUME MInv, [Next]_vars PROVE MInv'
  OBVIOUS
<1>1. CASE UNCHANGED vars
  BY <1>1 DEF MInv, vars
<1>2. CASE Next
  <2> DEFINE ms == manifest.manifests
  <2>1. PICK i \in next..Len(Stock) :
          \/ Write(i, <<Stock[i]>> \o ms)
          \/ Write(i, Append(ms, Stock[i]))
    BY <1>2 DEF Next
  <2>2. Len(Stock) \in Nat /\ \A k \in 1..Len(Stock) : Stock[k] \in ToSet(Stock)
    BY WritingAssumption, Listed
  <2>3. i \in Nat \ {0} /\ i \in 1..Len(Stock)
    BY <2>1, <2>2 DEF MInv
  <2>4. IsResource(Stock[i])
    BY <2>2, <2>3, WritingAssumption
  <2>5. ms \in Seq(ToSet(ms)) /\ \A r \in ToSet(ms) : IsResource(r)
    BY DEF MInv, IsManifest
  <2> DEFINE S == ToSet(ms) \cup {Stock[i]}
  <2>6. ms \in Seq(S)
    <3>1. \A k \in 1..Len(ms) : ms[k] \in S
      BY <2>5, Listed
    <3>2. ms = [k \in 1..Len(ms) |-> ms[k]] /\ Len(ms) \in Nat
      BY <2>5, LenProperties
    <3> HIDE DEF ms, S
    <3> QED BY <3>1, <3>2, Tabled
  <2>7. ASSUME NEW rs \in Seq(S), Write(i, rs)
        PROVE  MInv'
    <3>1. rs \in Seq(ToSet(rs)) /\ ToSet(rs) \subseteq S
      BY Listed
    <3>2. \A r \in ToSet(rs) : IsResource(r)
      BY <2>4, <2>5, <3>1
    <3>3. IsManifest([manifest EXCEPT !.manifests = rs])
      BY <3>1, <3>2, Rewritten DEF MInv
    <3> QED BY <2>3, <2>7, <3>3 DEF Write, MInv
  <2>8. Append(ms, Stock[i]) \in Seq(S)
    BY <2>6, Appended
  <2>9. <<Stock[i]>> \o ms \in Seq(S)
    <3>1. <<Stock[i]>> \in Seq(S)
      OBVIOUS
    <3> QED BY <2>6, <3>1, Joined
  <2> QED BY <2>1, <2>7, <2>8, <2>9
<1> QED BY <1>1, <1>2

LEMMA MInvHolds == Spec => []MInv
BY MInvStarts, MInvSteps, PTL DEF Spec

-----------------------------------------------------------------------------
\* Filters reach their bundles.

LEMMA Wider ==
  ASSUME NEW S, NEW T, S \subseteq T, NEW s \in Seq(S)
  PROVE  s \in Seq(T)
<1>1. Len(s) \in Nat /\ \A i \in 1..Len(s) : s[i] \in T
  BY Listed
<1>2. s = [i \in 1..Len(s) |-> s[i]]
  BY LenProperties
<1> QED BY <1>1, <1>2, Tabled

\* The annotations a workload is given are those of the one entry for it.
LEMMA EntryCounts ==
  ASSUME NEW m, IsManifest(m), NEW e \in ToSet(m.perWorkload), NEW w,
         w \in FindWorkload(ListedWorkloads(m), e.name),
         \A i, j \in DOMAIN m.perWorkload : m.perWorkload[i].name = m.perWorkload[j].name => i = j
  PROVE  AnnotationsOf(w, m) = e.annotations
<1> DEFINE pw == m.perWorkload
           n == Len(pw)
           found(x) == FindWorkload(ListedWorkloads(m), x.name)
           I == {i \in 1..n : found(pw[i]) = {w}}
<1>1. /\ n \in Nat /\ DOMAIN pw = 1..n
      /\ \E i \in 1..n : e = pw[i]
  BY Listed DEF IsManifest
<1>2. AnnotationsOf(w, m) = LET i == IF I # {} THEN Max(I) ELSE 0
                            IN  IF i = 0 THEN <<>> ELSE pw[i].annotations
  BY DEF AnnotationsOf, SelectLastInSeq
<1>3. PICK k \in 1..n : e = pw[k]
  BY <1>1
<1>4. ListedWorkloads(m) \in Seq(Resource(m))
  BY ListsAre
<1>5. \A x : /\ \A v \in found(x) : v.name = x.name
             /\ \A u, v \in found(x) : u = v
  <2> TAKE x
  <2> DEFINE ws == ListedWorkloads(m)
  <2> HIDE DEF ws
  <2>1. ws \in Seq(Resource(m))
    BY <1>4 DEF ws
  <2>2. /\ \A v \in FindWorkload(ws, x.name) : v.name = x.name
        /\ \A u, v \in FindWorkload(ws, x.name) : u = v
    BY <2>1, FindWorkloadIs
  <2> QED BY <2>2 DEF ws
<1>6. found(e) = {w}
  <2>1. w \in found(e) /\ \A u, v \in found(e) : u = v
    BY <1>5
  <2> HIDE DEF found
  <2> QED BY ONLY <2>1
<1>7. k \in I
  BY <1>3, <1>6
<1>8. Max(I) \in I
  BY <1>1, <1>7, LastIndex
<1>9. pw[Max(I)].name = w.name /\ w.name = e.name /\ Max(I) \in 1..n
  <2>1. Max(I) \in 1..n /\ found(pw[Max(I)]) = {w}
    BY <1>8
  <2> DEFINE x == pw[Max(I)]
  <2> HIDE DEF x, I
  <2>2. x.name = w.name
    <3>1. found(x) = {w}
      BY <2>1 DEF x
    <3> HIDE DEF found
    <3> QED BY <1>5, <3>1
  <2> QED BY <1>5, <2>1, <2>2 DEF x
<1>10. Max(I) = k
  BY <1>1, <1>3, <1>9
<1> HIDE DEF I
<1> QED BY <1>1, <1>2, <1>3, <1>7, <1>10

LEMMA RuledBy ==
  ASSUME NEW as, IsAnnotationList(as), ~RulesPanic(as)
  PROVE  /\ ExtractPlacementRules(as) \in Seq(ToSet(ExtractPlacementRules(as)))
         /\ \A a \in ToSet(as) :
              IsFilter(a) => Len(a) > 1 /\ SubSeq(a, 1, 2) \in ToSet(ExtractPlacementRules(as))
<1>1. as \in Seq(ToSet(as))
  BY DEF IsAnnotationList
<1>2. /\ ExtractPlacementRules(as) \in Seq({SubSeq(a, 1, 2) : a \in ToSet(as)})
      /\ ToSet(ExtractPlacementRules(as))
           = {SubSeq(a, 1, 2) : a \in {x \in ToSet(as) : IsFilter(x)}}
  BY <1>1, RulesAre
<1>3. ExtractPlacementRules(as) \in Seq(ToSet(ExtractPlacementRules(as)))
  BY <1>2, Listed
<1>4. ASSUME NEW a \in ToSet(as), IsFilter(a)
      PROVE  Len(a) > 1
  <2>1. a \in Seq(ToSet(a)) /\ a # <<>>
    BY DEF IsAnnotationList
  <2>2. Len(a) \in Nat /\ Len(a) # 0
    BY <2>1, EmptySeq, LenProperties
  <2>3. Len(a) # 1
    BY <1>4 DEF RulesPanic
  <2> QED BY <2>2, <2>3
<1> QED BY <1>2, <1>3, <1>4

LEMMA EntryIsOne ==
  ASSUME NEW m, IsManifest(m), NEW w
  PROVE  AnnotationsOf(w, m) \in Seq(ToSet(AnnotationsOf(w, m)))
<1> DEFINE pw == m.perWorkload
           n == Len(pw)
           I == {i \in 1..n : FindWorkload(ListedWorkloads(m), pw[i].name) = {w}}
<1>1. /\ n \in Nat
      /\ \A i \in 1..n : pw[i].annotations \in Seq(ToSet(pw[i].annotations))
  <2>1. pw \in Seq(ToSet(pw)) /\ \A e \in ToSet(pw) : IsAnnotationList(e.annotations)
    BY DEF IsManifest
  <2>2. n \in Nat /\ \A i \in 1..n : pw[i] \in ToSet(pw)
    <3> HIDE DEF pw
    <3> QED BY <2>1, Listed
  <2>3. \A e \in ToSet(pw) : e.annotations \in Seq(ToSet(e.annotations))
    BY <2>1 DEF IsAnnotationList
  <2> HIDE DEF pw
  <2> QED BY <2>2, <2>3
<1>2. AnnotationsOf(w, m) = LET i == IF I # {} THEN Max(I) ELSE 0
                            IN  IF i = 0 THEN <<>> ELSE pw[i].annotations
  BY DEF AnnotationsOf, SelectLastInSeq
<1>3. I # {} => Max(I) \in 1..n
  BY <1>1, LastIndex
<1>4. <<>> \in Seq(ToSet(<<>>))
  OBVIOUS
<1> HIDE DEF I, n, pw
<1>5. CASE I = {}
  BY <1>2, <1>4, <1>5
<1>6. CASE I # {} /\ Max(I) # 0
  BY <1>1, <1>2, <1>3, <1>6
<1>7. CASE I # {} /\ Max(I) = 0
  BY <1>2, <1>4, <1>7
<1> QED BY <1>5, <1>6, <1>7

LEMMA FiltersHold == MInv => FiltersReachBundles
<1> SUFFICES ASSUME MInv, Accepted, ~IsTargeted(manifest), OneEntryEach, DistinctWorkloads
             PROVE  /\ \A a \in ToSet(manifest.global) :
                         IsFilter(a) => \A i \in DOMAIN Bundles : Ruled(Bundles[i], a)
                    /\ \A e \in ToSet(manifest.perWorkload) : \A a \in ToSet(e.annotations) :
                         \E i \in DOMAIN Bundles :
                           Bundles[i].name = e.name /\ Ruled(Bundles[i], a)
  BY DEF FiltersReachBundles
<1> DEFINE m == manifest
           global == ExtractPlacementRules(m.global)
<1>1. IsManifest(m)
  BY DEF MInv
<1>2. AssignmentPassed(m)
  BY <1>1, OutcomeIs DEF Accepted
<1>3. /\ global \in Seq(ToSet(global))
      /\ \A a \in ToSet(m.global) :
           IsFilter(a) => Len(a) > 1 /\ SubSeq(a, 1, 2) \in ToSet(global)
  <2> HIDE DEF m
  <2> QED BY <1>1, <1>2, RuledBy DEF IsManifest, AssignmentPassed
<1>4. ASSUME NEW w
      PROVE  LET own == ExtractPlacementRules(AnnotationsOf(w, m))
             IN  ToSet(WorkloadBundleOf(w, m).rules) = ToSet(global) \cup ToSet(own)
  <2> DEFINE own == ExtractPlacementRules(AnnotationsOf(w, m))
             S == ToSet(global) \cup ToSet(own)
  <2>1. WorkloadBundleOf(w, m).rules = global \o own
    BY DEF WorkloadBundleOf
  <2> HIDE DEF global
  <2>2. own \in Seq(ToSet(own))
    <3> HIDE DEF m
    <3>1. AnnotationsOf(w, m) \in Seq(ToSet(AnnotationsOf(w, m)))
      BY <1>1, EntryIsOne
    <3> DEFINE as == AnnotationsOf(w, m)
    <3> HIDE DEF as
    <3>2. ExtractPlacementRules(as) \in Seq({SubSeq(a, 1, 2) : a \in ToSet(as)})
      BY <3>1, RulesAre DEF as
    <3> QED BY <3>2, Listed DEF as
  <2> HIDE DEF own
  <2>3. global \in Seq(S) /\ own \in Seq(S)
    BY <1>3, <2>2, Wider
  <2>4. ToSet(global \o own) = S
    <3> HIDE DEF S
    <3> QED BY <2>3, Joined DEF S
  <2> QED BY <2>1, <2>4 DEF own
<1>5. ASSUME m.perWorkload # <<>>
      PROVE  /\ DOMAIN Bundles = 1..Len(Bundles)
             /\ \A i \in 1..Len(Bundles) : \E w \in Workloads(m) :
                  Bundles[i] = WorkloadBundleOf(w, m)
             /\ \A w \in Workloads(m) : \E i \in 1..Len(Bundles) :
                  Bundles[i] = WorkloadBundleOf(w, m)
  <2> DEFINE bs == BuildBundles(m)
             B == {WorkloadBundleOf(w, m) : w \in Workloads(m)}
  <2>1. \A x, y \in Workloads(m) : x.name = y.name => x = y
    <3>1. Workloads(m) \subseteq {r \in Given : IsWorkload(r)}
      BY <1>1, ListsAre DEF Workloads, Resource, Given
    <3> QED BY <3>1 DEF DistinctWorkloads
  <2>2. bs \in Seq(B) /\ ToSet(bs) = B
    <3>1. ~IsTargeted(m)
      OBVIOUS
    <3> HIDE DEF m
    <3> QED BY <1>1, <1>5, <2>1, <3>1, BundlesAre
  <2>3. /\ DOMAIN bs = 1..Len(bs)
        /\ \A i \in 1..Len(bs) : bs[i] \in B
        /\ \A b \in B : \E i \in 1..Len(bs) : b = bs[i]
    <3> HIDE DEF B, bs
    <3> QED BY <2>2, Listed
  <2> QED BY <2>3 DEF Bundles
<1>6. ASSUME NEW a \in ToSet(m.global), IsFilter(a), NEW i \in DOMAIN Bundles
      PROVE  Ruled(Bundles[i], a)
  <2>1. Len(a) > 1 /\ SubSeq(a, 1, 2) \in ToSet(global)
    BY <1>3, <1>6
  <2>2. ToSet(global) \subseteq ToSet(Bundles[i].rules)
    <3>1. CASE m.perWorkload # <<>>
      <4>1. PICK w \in Workloads(m) : Bundles[i] = WorkloadBundleOf(w, m)
        BY <1>5, <3>1
      <4> HIDE DEF m, global
      <4> QED BY <1>4, <4>1
    <3>2. CASE m.perWorkload = <<>>
      <4>1. Bundles = <<BundleOfAll(IF global = <<>> THEN "default" ELSE "global", global, m)>>
        BY <3>2 DEF Bundles, BuildBundles
      <4>2. Bundles[i].rules = global
        <5>1. i = 1
          BY <4>1
        <5> QED BY <4>1, <5>1 DEF BundleOfAll
      <4> QED BY <4>2
    <3> QED BY <3>1, <3>2
  <2> QED BY <2>1, <2>2 DEF Ruled
<1>7. ASSUME NEW e \in ToSet(m.perWorkload), NEW a \in ToSet(e.annotations)
      PROVE  \E i \in DOMAIN Bundles : Bundles[i].name = e.name /\ Ruled(Bundles[i], a)
  <2>1. m.perWorkload # <<>> /\ IsAnnotationList(e.annotations)
    <3>1. m.perWorkload \in Seq(ToSet(m.perWorkload)) /\ IsAnnotationList(e.annotations)
      BY <1>1 DEF IsManifest
    <3> HIDE DEF m
    <3> QED BY <3>1, Listed
  <2>2. /\ ~RulesPanic(e.annotations)
        /\ Len(ExtractPlacementRules(e.annotations)) = Len(e.annotations)
        /\ FindWorkload(ListedWorkloads(m), e.name) # {}
    BY <1>2 DEF AssignmentPassed, WorkloadAnnotationFault
  <2>3. IsFilter(a)
    <3>1. e.annotations \in Seq(ToSet(e.annotations))
      BY <2>1 DEF IsAnnotationList
    <3> QED BY <2>2, <3>1, RulesAre
  <2>4. PICK w : w \in FindWorkload(ListedWorkloads(m), e.name)
    BY <2>2
  <2>5. w \in Workloads(m) /\ w.name = e.name
    <3>1. ListedWorkloads(m) \in Seq(Resource(m)) /\ ToSet(ListedWorkloads(m)) = Workloads(m)
      BY <1>1, ListsAre DEF Workloads
    <3> QED BY <2>4, <3>1, FindWorkloadIs
  <2>6. AnnotationsOf(w, m) = e.annotations
    <3>1. \A i, j \in DOMAIN m.perWorkload :
            m.perWorkload[i].name = m.perWorkload[j].name => i = j
      BY DEF OneEntryEach
    <3> HIDE DEF m
    <3> QED BY <1>1, <2>4, <3>1, EntryCounts
  <2>7. /\ Len(a) > 1
        /\ SubSeq(a, 1, 2) \in ToSet(ExtractPlacementRules(AnnotationsOf(w, m)))
    BY <2>1, <2>2, <2>3, <2>6, RuledBy
  <2>8. PICK i \in DOMAIN Bundles : Bundles[i] = WorkloadBundleOf(w, m)
    BY <1>5, <2>1, <2>5
  <2>9. Bundles[i].name = e.name
    BY <2>5, <2>8 DEF WorkloadBundleOf
  <2>10. Ruled(Bundles[i], a)
    BY <1>4, <2>7, <2>8 DEF Ruled
  <2> QED BY <2>9, <2>10
<1> QED BY <1>6, <1>7

\* In an accepted manifest that is scheduled by its annotations every filter has
\* a value, and its rule is in each bundle it is meant for: the panic in
\* ExtractPlacementRules comes first, and AssignWorkloadAnnotations leads every
\* entry to the one workload of its name.
THEOREM FiltersArrive == Spec => []FiltersReachBundles
BY MInvHolds, FiltersHold, PTL

-----------------------------------------------------------------------------
\* Without two resources of one kind and name, nothing but the set of them
\* counts.

Told(X) == /\ \A x, y \in X : x.kind = y.kind /\ x.name = y.name => x = y
Apart(X) == \A x, y \in {r \in X : IsWorkload(r)} : x.name = y.name => x = y

LEMMA KeptAll ==
  ASSUME NEW m, IsManifest(m), Told(Resource(m))
  PROVE  Kept(m) = Resource(m)
<1>1. Kept(m) \subseteq Resource(m) /\ \A r \in Resource(m) : \E x \in Kept(m) : Equals(x, r)
  BY ListsAre
<1>2. ASSUME NEW r \in Resource(m)
      PROVE  r \in Kept(m)
  <2>1. PICK x \in Kept(m) : Equals(x, r)
    BY <1>1
  <2>2. x \in Resource(m) /\ x.kind = r.kind /\ x.name = r.name
    BY <1>1, <2>1 DEF Equals
  <2> QED BY <2>1, <2>2 DEF Told
<1> QED BY <1>1, <1>2

LEMMA Looked ==
  ASSUME NEW m, IsManifest(m), Told(Resource(m)), NEW name, NEW kind
  PROVE  Find(Ancillaries(m), name, kind)
           = {r \in Resource(m) : ~IsWorkload(r) /\ r.kind = kind /\ r.name = name}
<1> DEFINE anc == Ancillaries(m)
           found == Find(anc, name, kind)
           fits == {r \in ToSet(anc) : r.kind = kind /\ r.name = name}
<1>1. anc \in Seq(Resource(m)) /\ ToSet(anc) = {r \in Resource(m) : ~IsWorkload(r)}
  BY ListsAre, KeptAll
<1>2. found \subseteq fits /\ (found = {} => fits = {})
  <2> HIDE DEF anc
  <2> QED BY <1>1, FindIs
<1>3. \A x, y \in fits : x = y
  BY <1>1 DEF Told
<1> HIDE DEF found, anc
<1> QED BY <1>1, <1>2, <1>3 DEF found, anc

LEMMA LookedWorkload ==
  ASSUME NEW m, IsManifest(m), Told(Resource(m)), Apart(Resource(m)), NEW name
  PROVE  FindWorkload(ListedWorkloads(m), name)
           = {r \in Resource(m) : IsWorkload(r) /\ r.name = name}
<1> DEFINE ws == ListedWorkloads(m)
           found == FindWorkload(ws, name)
           fits == {r \in ToSet(ws) : r.name = name /\ IsWorkload(r)}
<1>1. ws \in Seq(Resource(m)) /\ ToSet(ws) = {r \in Resource(m) : IsWorkload(r)}
  BY ListsAre, KeptAll
<1>2. found \subseteq fits /\ (found = {} => fits = {})
  <2> HIDE DEF ws
  <2> QED BY <1>1, FindWorkloadIs
<1>3. \A x, y \in fits : x = y
  BY <1>1 DEF Apart
<1> HIDE DEF found, ws
<1> QED BY <1>1, <1>2, <1>3 DEF found, ws

\* Lists in which look-ups find the same.
Alike(as, bs) ==
  /\ ToSet(as) = ToSet(bs)
  /\ \A name, kind : Find(as, name, kind) = Find(bs, name, kind)

LEMMA AlikeLookUp ==
  ASSUME NEW as, NEW bs, Alike(as, bs), NEW refs
  PROVE  LookUp(refs, as) = LookUp(refs, bs)
<1>1. \A ref : Find(as, ref[1], ref[2]) = Find(bs, ref[1], ref[2])
  BY DEF Alike
<1>2. {Find(as, ref[1], ref[2]) : ref \in refs} = {Find(bs, ref[1], ref[2]) : ref \in refs}
  BY <1>1
<1>3. {ref \in refs : Find(as, ref[1], ref[2]) = {}} = {ref \in refs : Find(bs, ref[1], ref[2]) = {}}
  BY <1>1
<1> QED BY <1>2, <1>3 DEF LookUp

LEMMA AlikeKinds ==
  ASSUME NEW as, NEW bs, Alike(as, bs)
  PROVE  /\ \A kind : FilterByKind(as, kind) = FilterByKind(bs, kind)
         /\ \A kinds : Unsound(as, kinds) = Unsound(bs, kinds)
         /\ \A w : SelectedBy(w, as) = SelectedBy(w, bs)
<1>1. \A kind : FilterByKind(as, kind) = FilterByKind(bs, kind)
  BY DEF Alike, FilterByKind
<1>2. \A kinds : Unsound(as, kinds) = Unsound(bs, kinds)
  BY DEF Alike, Unsound
<1>3. \A w : SelectedBy(w, as) = SelectedBy(w, bs)
  BY <1>1 DEF SelectedBy
<1> QED BY <1>1, <1>2, <1>3

LEMMA AlikeAnalysis ==
  ASSUME NEW as, NEW bs, Alike(as, bs), NEW w
  PROVE  /\ AnalyseWorkload(w, as) = AnalyseWorkload(w, bs)
         /\ AnalysisFault(w, as) = AnalysisFault(w, bs)
<1>1. \A refs : LookUp(refs, as) = LookUp(refs, bs)
  BY AlikeLookUp
<1>2. Bindings(as) = Bindings(bs)
  BY AlikeKinds DEF Bindings
<1>3. \A account : AnalyseServiceAccount(account, as) = AnalyseServiceAccount(account, bs)
  BY <1>1, <1>2 DEF AnalyseServiceAccount
<1>4. AnalysePodSpec(w, as) = AnalysePodSpec(w, bs)
  <2> DEFINE found == LookUp({<<w.account, "ServiceAccount">>}, as)
             account == CHOOSE a \in found.resources : TRUE
             accounts(xs) == IF w.account = "" THEN Nothing
                             ELSE IF found.resources = {} THEN found
                             ELSE Merge(found, AnalyseServiceAccount(account, xs))
  <2>1. found = LookUp({<<w.account, "ServiceAccount">>}, bs)
    BY <1>1
  <2>2. AnalyseAccounts(w, as) = accounts(as)
    BY DEF AnalyseAccounts
  <2>3. AnalyseAccounts(w, bs) = accounts(bs)
    <3> DEFINE other == LookUp({<<w.account, "ServiceAccount">>}, bs)
               owner == CHOOSE a \in other.resources : TRUE
    <3>1. AnalyseAccounts(w, bs) = IF w.account = "" THEN Nothing
                                   ELSE IF other.resources = {} THEN other
                                   ELSE Merge(other, AnalyseServiceAccount(owner, bs))
      BY DEF AnalyseAccounts
    <3>2. other = found
      BY <2>1
    <3> HIDE DEF other, found
    <3>3. owner = account
      BY <3>2, Zenon
    <3> HIDE DEF owner, account
    <3> QED BY <3>1, <3>2, <3>3
  <2>4. accounts(as) = accounts(bs)
    <3> HIDE DEF found, account
    <3> QED BY <1>3
  <2> HIDE DEF accounts
  <2> QED BY <1>1, <2>2, <2>3, <2>4 DEF AnalysePodSpec
<1>5. \A svc : ExternalAccess(svc, as) = ExternalAccess(svc, bs)
  BY AlikeKinds DEF ExternalAccess
<1>6. \A pairs : Monitors(pairs, as) = Monitors(pairs, bs)
  BY AlikeKinds DEF Monitors
<1>7. ExtractNetworkResources(w, as) = ExtractNetworkResources(w, bs)
  <2> DEFINE F(s, xs) == ExternalAccess(s, xs) \cup Monitors(Matched(s, w), xs)
  <2>1. \A s : F(s, as) = F(s, bs)
    BY <1>5, <1>6
  <2>2. {F(s, as) : s \in SelectedBy(w, as)} = {F(s, bs) : s \in SelectedBy(w, bs)}
    <3> HIDE DEF F
    <3> QED BY <2>1, AlikeKinds
  <2> DEFINE through(xs) == [resources |-> SelectedBy(w, xs)
                                             \cup UNION {F(s, xs) : s \in SelectedBy(w, xs)},
                             absent    |-> {}]
  <2>3. \A xs : ExtractNetworkResources(w, xs) = Merge(ServiceOfSet(w, xs), through(xs))
    BY DEF ExtractNetworkResources
  <2>4. through(as) = through(bs)
    <3> HIDE DEF F
    <3> QED BY <2>2, AlikeKinds
  <2>5. ServiceOfSet(w, as) = ServiceOfSet(w, bs)
    BY <1>1 DEF ServiceOfSet
  <2> HIDE DEF through
  <2> QED BY <2>3, <2>4, <2>5
<1>8. NamespaceOf(w, as) = NamespaceOf(w, bs) /\ AccountOf(w, as) = AccountOf(w, bs)
  BY DEF Alike, NamespaceOf, AccountOf
<1>9. FindHPADefinition(w, as) = FindHPADefinition(w, bs)
  BY AlikeKinds DEF FindHPADefinition
<1>10. AnalyseWorkload(w, as) = AnalyseWorkload(w, bs)
  <2>1. \A xs : AnalyseWorkload(w, xs)
                 = Merge([resources |-> NamespaceOf(w, xs) \cup FindHPADefinition(w, xs),
                          absent    |-> {}],
                         Merge(AnalysePodSpec(w, xs), ExtractNetworkResources(w, xs)))
    BY DEF AnalyseWorkload
  <2> QED BY <1>4, <1>7, <1>8, <1>9, <2>1
<1>11. AnalysisFault(w, as) = AnalysisFault(w, bs)
  <2> DEFINE always  == {"Service", "HorizontalPodAutoscaler"}
             binding == {"ClusterRoleBinding", "RoleBinding"}
             outside == {"Ingress", "Route", "ServiceMonitor"}
             fault(xs) == \/ w.ns # "default" /\ NamespaceOf(w, xs) = {}
                          \/ w.kind \notin PodKinds
                          \/ ~w.sound
                          \/ \E call \in w.calls : call[2] = TooBig
                          \/ Unsound(xs, always)
                          \/ w.account # "" /\ AccountOf(w, xs) # {} /\ Unsound(xs, binding)
                          \/ /\ SelectedBy(w, xs) # {}
                             /\ \/ Unsound(xs, outside)
                                \/ \E g \in FilterByKind(xs, "Ingress") : ~g.http
  <2>1. \A xs : AnalysisFault(w, xs) = IF fault(xs) THEN "retry" ELSE "none"
    BY DEF AnalysisFault
  <2>2. fault(as) <=> fault(bs)
    <3>1. /\ \A kinds : Unsound(as, kinds) = Unsound(bs, kinds)
          /\ SelectedBy(w, as) = SelectedBy(w, bs)
          /\ FilterByKind(as, "Ingress") = FilterByKind(bs, "Ingress")
      BY AlikeKinds
    <3>2. /\ Unsound(as, always) = Unsound(bs, always)
          /\ Unsound(as, binding) = Unsound(bs, binding)
          /\ Unsound(as, outside) = Unsound(bs, outside)
      BY ONLY <3>1
    <3> HIDE DEF always, binding, outside
    <3> QED BY ONLY <1>8, <3>1, <3>2
  <2> HIDE DEF fault
  <2> QED BY ONLY <2>1, <2>2
<1> QED BY <1>10, <1>11

\* Manifests that differ in the order of their resources.
Rearranged(m, o) ==
  /\ IsManifest(m) /\ IsManifest(o)
  /\ Resource(m) = Resource(o)
  /\ m.name = o.name /\ m.global = o.global /\ m.perWorkload = o.perWorkload
  /\ Told(Resource(m)) /\ Apart(Resource(m))

LEMMA RearrangedAlike ==
  ASSUME NEW m, NEW o, Rearranged(m, o)
  PROVE  /\ Alike(Ancillaries(m), Ancillaries(o))
         /\ \A name : FindWorkload(ListedWorkloads(m), name) = FindWorkload(ListedWorkloads(o), name)
         /\ Kept(m) = Kept(o) /\ Workloads(m) = Workloads(o)
         /\ ToSet(ListedWorkloads(m)) = ToSet(ListedWorkloads(o))
<1>1. /\ IsManifest(m) /\ IsManifest(o) /\ Resource(m) = Resource(o)
      /\ Told(Resource(m)) /\ Apart(Resource(m)) /\ Told(Resource(o)) /\ Apart(Resource(o))
  BY DEF Rearranged
<1>2. Kept(m) = Resource(m) /\ Kept(o) = Resource(m)
  BY <1>1, KeptAll
<1>3. /\ ToSet(ListedWorkloads(m)) = {r \in Kept(m) : IsWorkload(r)}
      /\ ToSet(ListedWorkloads(o)) = {r \in Kept(o) : IsWorkload(r)}
      /\ ToSet(Ancillaries(m)) = {r \in Kept(m) : ~IsWorkload(r)}
      /\ ToSet(Ancillaries(o)) = {r \in Kept(o) : ~IsWorkload(r)}
  BY <1>1, ListsAre
<1>4. ASSUME NEW name, NEW kind
      PROVE  Find(Ancillaries(m), name, kind) = Find(Ancillaries(o), name, kind)
  <2> DEFINE fits(x) == {r \in Resource(x) : ~IsWorkload(r) /\ r.kind = kind /\ r.name = name}
  <2>1. Find(Ancillaries(m), name, kind) = fits(m)
    BY <1>1, Looked
  <2>2. Find(Ancillaries(o), name, kind) = fits(o)
    BY <1>1, Looked
  <2>3. fits(m) = fits(o)
    BY <1>1
  <2> HIDE DEF fits
  <2> QED BY <2>1, <2>2, <2>3
<1>5. ASSUME NEW name
      PROVE  FindWorkload(ListedWorkloads(m), name) = FindWorkload(ListedWorkloads(o), name)
  <2> DEFINE fits(x) == {r \in Resource(x) : IsWorkload(r) /\ r.name = name}
  <2>1. FindWorkload(ListedWorkloads(m), name) = fits(m)
    BY <1>1, LookedWorkload
  <2>2. FindWorkload(ListedWorkloads(o), name) = fits(o)
    BY <1>1, LookedWorkload
  <2>3. fits(m) = fits(o)
    BY <1>1
  <2> HIDE DEF fits
  <2> QED BY <2>1, <2>2, <2>3
<1>6. Alike(Ancillaries(m), Ancillaries(o))
  BY <1>2, <1>3, <1>4 DEF Alike
<1> QED BY <1>2, <1>3, <1>5, <1>6 DEF Workloads

LEMMA RearrangedOutcome ==
  ASSUME NEW m, NEW o, Rearranged(m, o)
  PROVE  Outcome(m) = "none" <=> Outcome(o) = "none"
<1>1. /\ IsManifest(m) /\ IsManifest(o) /\ Resource(m) = Resource(o)
      /\ m.name = o.name /\ m.global = o.global /\ m.perWorkload = o.perWorkload
  BY DEF Rearranged
<1>2. EntryPassed(m) <=> EntryPassed(o)
  BY <1>1 DEF EntryPassed
<1>3. IsTargeted(m) <=> IsTargeted(o)
  BY <1>1 DEF IsTargeted
<1>4. AssignmentPassed(m) <=> AssignmentPassed(o)
  <2>1. \A name : FindWorkload(ListedWorkloads(m), name) = FindWorkload(ListedWorkloads(o), name)
    BY RearrangedAlike
  <2> QED BY <1>1, <2>1 DEF AssignmentPassed
<1>5. AnalysisPassed(m) <=> AnalysisPassed(o)
  <2>1. \A w : AnalysisFault(w, Ancillaries(m)) = AnalysisFault(w, Ancillaries(o))
    BY RearrangedAlike, AlikeAnalysis
  <2> QED BY <1>1, <2>1, RearrangedAlike DEF AnalysisPassed
<1> QED BY <1>1, <1>2, <1>3, <1>4, <1>5, OutcomeIs

LEMMA RearrangedBundles ==
  ASSUME NEW m, NEW o, Rearranged(m, o)
  PROVE  ToSet(BuildBundles(m)) = ToSet(BuildBundles(o))
<1>1. /\ IsManifest(m) /\ IsManifest(o) /\ Resource(m) = Resource(o)
      /\ m.name = o.name /\ m.global = o.global /\ m.perWorkload = o.perWorkload
  BY DEF Rearranged
<1>2. IsTargeted(m) <=> IsTargeted(o)
  BY <1>1 DEF IsTargeted
<1>3. \A name, rules : BundleOfAll(name, rules, m) = BundleOfAll(name, rules, o)
  BY RearrangedAlike DEF BundleOfAll, Kept
<1>4. \A w : WorkloadBundleOf(w, m) = WorkloadBundleOf(w, o)
  <2> TAKE w
  <2>1. AnnotationsOf(w, m) = AnnotationsOf(w, o)
    <3> DEFINE I(x) == {i \in 1..Len(x.perWorkload) :
                          FindWorkload(ListedWorkloads(x), x.perWorkload[i].name) = {w}}
               last(x) == IF I(x) # {} THEN Max(I(x)) ELSE 0
    <3>1. \A x : AnnotationsOf(w, x)
                   = IF last(x) = 0 THEN <<>> ELSE x.perWorkload[last(x)].annotations
      BY DEF AnnotationsOf, SelectLastInSeq
    <3>2. I(m) = I(o)
      <4>1. \A name : FindWorkload(ListedWorkloads(m), name)
                        = FindWorkload(ListedWorkloads(o), name)
        BY RearrangedAlike
      <4> QED BY <1>1, <4>1
    <3> HIDE DEF I
    <3>3. last(m) = last(o)
      BY <3>2
    <3> HIDE DEF last
    <3> QED BY <1>1, <3>1, <3>3
  <2>2. AnalyseWorkload(w, Ancillaries(m)) = AnalyseWorkload(w, Ancillaries(o))
    BY RearrangedAlike, AlikeAnalysis
  <2> QED BY <1>1, <2>1, <2>2 DEF WorkloadBundleOf
<1>5. CASE IsTargeted(m)
  BY <1>1, <1>2, <1>3, <1>5 DEF BuildBundles
<1>6. CASE ~IsTargeted(m) /\ m.perWorkload = <<>>
  <2>1. m.perWorkload = <<>> /\ o.perWorkload = <<>> /\ ~IsTargeted(o) /\ ~IsTargeted(m)
    BY <1>1, <1>2, <1>6
  <2> DEFINE rules == ExtractPlacementRules(m.global)
             name == IF rules = <<>> THEN "default" ELSE "global"
  <2>2. BuildBundles(m) = <<BundleOfAll(name, rules, m)>>
    BY <2>1 DEF BuildBundles
  <2>3. BuildBundles(o) = <<BundleOfAll(name, rules, o)>>
    BY <1>1, <2>1 DEF BuildBundles
  <2> HIDE DEF rules, name
  <2> QED BY <1>3, <2>2, <2>3
<1>7. CASE ~IsTargeted(m) /\ m.perWorkload # <<>>
  <2> DEFINE all(x) == {WorkloadBundleOf(w, x) : w \in Workloads(x)}
  <2>1. /\ ~IsTargeted(m) /\ m.perWorkload # <<>> /\ ~IsTargeted(o) /\ o.perWorkload # <<>>
    BY <1>1, <1>2, <1>7
  <2>2. Workloads(m) = Workloads(o) /\ \A x, y \in Workloads(m) : x.name = y.name => x = y
    <3>1. Kept(m) \subseteq Resource(m)
      BY <1>1, ListsAre
    <3> QED BY <3>1, RearrangedAlike DEF Rearranged, Apart, Workloads
  <2>3. ToSet(BuildBundles(m)) = all(m)
    BY <1>1, <2>1, <2>2, BundlesAre
  <2>4. ToSet(BuildBundles(o)) = all(o)
    BY <1>1, <2>1, <2>2, BundlesAre
  <2>5. all(m) = all(o)
    BY <1>4, <2>2
  <2> HIDE DEF all
  <2> QED BY <2>3, <2>4, <2>5
<1> QED BY <1>5, <1>6, <1>7

LEMMA Reversed ==
  ASSUME NEW S, NEW s \in Seq(S)
  PROVE  Reverse(s) \in Seq(S) /\ ToSet(Reverse(s)) = ToSet(s)
<1> DEFINE n == Len(s)
           t == Reverse(s)
<1>1. /\ n \in Nat
      /\ \A i \in 1..n : s[i] \in S /\ s[i] \in ToSet(s)
      /\ \A x \in ToSet(s) : \E i \in 1..n : x = s[i]
  BY Listed
<1>2. t = [i \in 1..n |-> s[(n - i) + 1]]
  BY DEF Reverse
<1>3. \A i \in 1..n : (n - i) + 1 \in 1..n
  BY <1>1
<1>4. /\ t = [i \in 1..n |-> t[i]]
      /\ \A i \in 1..n : t[i] = s[(n - i) + 1] /\ t[i] \in S
  BY <1>1, <1>2, <1>3
<1> HIDE DEF t, n
<1>5. t \in Seq(S) /\ Len(t) = n
  BY <1>1, <1>4, Tabled
<1>6. /\ \A i \in 1..n : t[i] \in ToSet(t)
      /\ \A x \in ToSet(t) : \E i \in 1..n : x = t[i]
  BY <1>5, Listed
<1>7. ASSUME NEW x \in ToSet(s)
      PROVE  x \in ToSet(t)
  <2>1. PICK i \in 1..n : x = s[i]
    BY <1>1
  <2>2. (n - i) + 1 \in 1..n /\ (n - ((n - i) + 1)) + 1 = i
    BY <1>1
  <2>3. t[(n - i) + 1] = x
    BY <1>4, <2>1, <2>2
  <2> QED BY <1>6, <2>2, <2>3
<1>8. ASSUME NEW x \in ToSet(t)
      PROVE  x \in ToSet(s)
  <2>1. PICK i \in 1..n : x = t[i]
    BY <1>6
  <2>2. x = s[(n - i) + 1]
    BY <1>4, <2>1
  <2> QED BY <1>1, <1>3, <2>2
<1> QED BY <1>5, <1>7, <1>8 DEF t

LEMMA OrderHolds == MInv => OrderIrrelevant
<1> SUFFICES ASSUME MInv, Unambiguous, DistinctWorkloads
             PROVE  /\ Accepted <=> Outcome(Reordered) = "none"
                    /\ ToSet(Bundles) = ToSet(BuildBundles(Reordered))
  BY DEF OrderIrrelevant
<1> DEFINE m == manifest
           rs == Reverse(m.manifests)
<1>1. IsManifest(m)
  BY DEF MInv
<1>2. rs \in Seq(ToSet(m.manifests)) /\ ToSet(rs) = ToSet(m.manifests)
  BY <1>1, Reversed DEF IsManifest
<1>3. Reordered = [m EXCEPT !.manifests = rs]
  BY DEF Reordered
<1>4. IsManifest(Reordered)
  <2>1. \A r \in ToSet(rs) : IsResource(r)
    BY <1>1, <1>2 DEF IsManifest
  <2> HIDE DEF m, rs
  <2> QED BY <1>1, <1>2, <1>3, <2>1, Rewritten
<1>5. /\ Reordered.name = m.name /\ Reordered.global = m.global
      /\ Reordered.perWorkload = m.perWorkload /\ Reordered.manifests = rs
  <2>1. m = [name |-> m.name, manifests |-> m.manifests, global |-> m.global,
             perWorkload |-> m.perWorkload]
    BY <1>1 DEF IsManifest
  <2> HIDE DEF m, rs
  <2> QED BY <1>3, <2>1
<1>6. Told(Resource(m)) /\ Apart(Resource(m))
  BY DEF Told, Apart, Resource, Unambiguous, DistinctWorkloads, Given
<1>7. Rearranged(m, Reordered)
  <2> HIDE DEF m, rs
  <2> QED BY <1>1, <1>2, <1>4, <1>5, <1>6 DEF Rearranged, Resource
<1> QED BY <1>7, RearrangedOutcome, RearrangedBundles DEF Accepted, Bundles

\* A manifest and its reverse are both accepted, with the same bundles, or both
\* not, if kind and name tell one resource: Find and FindWorkload
\* (resourceset.go) take the first that fits, and then only one does.
THEOREM OrderCannotMatter == Spec => []OrderIrrelevant
BY MInvHolds, OrderHolds, PTL

-----------------------------------------------------------------------------
\* Resources in bundles are counted, bundle by bundle.

\* Lists are finite, and as long as they have elements unless one is in twice.
LEMMA ListedFinite ==
  ASSUME NEW S, NEW s \in Seq(S)
  PROVE  /\ IsFiniteSet(ToSet(s)) /\ Cardinality(ToSet(s)) \in Nat
         /\ Cardinality(ToSet(s)) <= Len(s)
         /\ (\A i, j \in 1..Len(s) : s[i] = s[j] => i = j) => Cardinality(ToSet(s)) = Len(s)
<1> DEFINE n == Len(s)
           T == ToSet(s)
<1>1. /\ n \in Nat
      /\ \A i \in 1..n : s[i] \in T
      /\ \A x \in T : \E i \in 1..n : x = s[i]
  BY Listed
<1>2. s = [i \in 1..n |-> s[i]]
  BY LenProperties
<1> HIDE DEF n, T
<1>3. s \in Surjection(1..n, T)
  BY <1>1, <1>2 DEF Surjection
<1>4. IsFiniteSet(1..n) /\ Cardinality(1..n) = n
  BY <1>1, FS_Interval
<1>5. /\ IsFiniteSet(T) /\ Cardinality(T) <= n
      /\ Cardinality(T) = n <=> s \in Injection(1..n, T)
  BY <1>3, <1>4, FS_Surjection
<1>6. (\A i, j \in 1..n : s[i] = s[j] => i = j) => s \in Injection(1..n, T)
  BY <1>1, <1>2 DEF Injection, IsInjective
<1>7. Cardinality(T) \in Nat
  BY <1>5, FS_CardinalityType
<1> QED BY <1>5, <1>6, <1>7 DEF n, T

LEMMA OnlyOne ==
  ASSUME NEW T, IsFiniteSet(T), Cardinality(T) <= 1, NEW x \in T, NEW y \in T
  PROVE  x = y
<1>1. Cardinality(T) \in Nat /\ Cardinality(T) # 0
  BY FS_CardinalityType, FS_EmptySet
<1>2. Cardinality(T) = 1
  BY <1>1
<1>3. PICK z : T = {z}
  BY <1>2, FS_Singleton
<1> QED BY <1>3

\* Nothing is found that is not there.
LEMMA FoundWithin ==
  ASSUME NEW S, NEW anc \in Seq(S), NEW w
  PROVE  AnalyseWorkload(w, anc).resources \subseteq ToSet(anc)
<1> DEFINE A == ToSet(anc)
<1>1. \A name, kind : Find(anc, name, kind) \subseteq A
  BY FindIs
<1>2. \A refs : LookUp(refs, anc).resources \subseteq A
  BY <1>1 DEF LookUp
<1>3. \A kind : FilterByKind(anc, kind) \subseteq A
  BY DEF FilterByKind
<1>4. \A account : AnalyseServiceAccount(account, anc).resources \subseteq A
  <2> TAKE account
  <2> DEFINE bound == {b \in Bindings(anc) : <<"ServiceAccount", account.name, account.ns>> \in b.subjects}
             roles == LookUp({b.role : b \in {x \in bound : ~x.builtin}}, anc)
  <2>1. AnalyseServiceAccount(account, anc).resources
          = roles.resources \cup {b \in bound : b.builtin \/ b.role \notin roles.absent}
    BY DEF AnalyseServiceAccount
  <2>2. bound \subseteq A
    BY <1>3 DEF Bindings
  <2>3. roles.resources \subseteq A
    BY <1>2
  <2> HIDE DEF bound, roles
  <2> QED BY <2>1, <2>2, <2>3
<1>5. AnalyseAccounts(w, anc).resources \subseteq A
  <2> DEFINE first == LookUp({<<w.account, "ServiceAccount">>}, anc)
             second == AnalyseServiceAccount(CHOOSE a \in first.resources : TRUE, anc)
             found == AnalyseAccounts(w, anc)
  <2>1. found = IF w.account = "" THEN Nothing
                ELSE IF first.resources = {} THEN first ELSE Merge(first, second)
    BY DEF AnalyseAccounts
  <2>2. first.resources \subseteq A /\ second.resources \subseteq A
    BY <1>2, <1>4
  <2> HIDE DEF first, second, found
  <2>3. Nothing.resources = {} /\ Merge(first, second).resources = first.resources \cup second.resources
    BY DEF Nothing, Merge
  <2>4. CASE w.account = ""
    BY <2>1, <2>3, <2>4 DEF found
  <2>5. CASE w.account # "" /\ first.resources = {}
    BY <2>1, <2>2, <2>5 DEF found
  <2>6. CASE w.account # "" /\ first.resources # {}
    BY <2>1, <2>2, <2>3, <2>6 DEF found
  <2> QED BY <2>4, <2>5, <2>6
<1>6. ExtractNetworkResources(w, anc).resources \subseteq A
  <2> DEFINE own == ServiceOfSet(w, anc)
             selected == SelectedBy(w, anc)
             through(s) == ExternalAccess(s, anc) \cup Monitors(Matched(s, w), anc)
  <2>1. ExtractNetworkResources(w, anc).resources
          = own.resources \cup selected \cup UNION {through(s) : s \in selected}
    BY DEF ExtractNetworkResources, Merge
  <2>2. own.resources \subseteq A
    <3>1. Nothing.resources = {}
      BY DEF Nothing
    <3>2. LookUp({<<w.service, "Service">>}, anc).resources \subseteq A
      BY <1>2
    <3>3. CASE w.kind = "StatefulSet"
      BY <3>2, <3>3 DEF ServiceOfSet
    <3>4. CASE w.kind # "StatefulSet"
      BY <3>1, <3>4 DEF ServiceOfSet
    <3> QED BY <3>3, <3>4
  <2>3. selected \subseteq A
    BY <1>3 DEF SelectedBy
  <2>4. \A s : through(s) \subseteq A
    BY <1>3 DEF ExternalAccess, Monitors
  <2> HIDE DEF own, selected, through
  <2> QED BY <2>1, <2>2, <2>3, <2>4
<1>7. NamespaceOf(w, anc) \subseteq A
  BY <1>1 DEF NamespaceOf
<1>8. FindHPADefinition(w, anc) \subseteq A
  BY <1>3 DEF FindHPADefinition
<1>9. LookUp(w.refs, anc).resources \subseteq A
  BY <1>2
<1>10. AnalyseWorkload(w, anc).resources
         = NamespaceOf(w, anc) \cup FindHPADefinition(w, anc) \cup LookUp(w.refs, anc).resources
             \cup AnalyseAccounts(w, anc).resources \cup ExtractNetworkResources(w, anc).resources
  BY DEF AnalyseWorkload, AnalysePodSpec, Merge
<1> HIDE DEF A
<1> QED BY <1>5, <1>6, <1>7, <1>8, <1>9, <1>10 DEF A

LEMMA BundlesWithin ==
  ASSUME NEW m, IsManifest(m)
  PROVE  LET bs == BuildBundles(m)
         IN  bs \in Seq(ToSet(bs)) /\ \A b \in ToSet(bs) : b.resources \subseteq Resource(m)
<1> DEFINE bs == BuildBundles(m)
<1>1. \A name, rules : BundleOfAll(name, rules, m).resources \subseteq Resource(m)
  BY ListsAre DEF BundleOfAll, Kept
<1>2. \A b : <<b>> \in Seq({b}) /\ ToSet(<<b>>) = {b}
  <2> TAKE b
  <2> DEFINE s == <<b>>
  <2>1. s \in Seq({b}) /\ Len(s) = 1 /\ s[1] = b
    OBVIOUS
  <2> HIDE DEF s
  <2>2. ToSet(s) \subseteq {b} /\ \A i \in 1..1 : s[i] \in ToSet(s)
    BY <2>1, Listed
  <2>3. ToSet(s) = {b}
    BY <2>1, <2>2
  <2> QED BY <2>1, <2>3 DEF s
<1>3. ASSUME NEW name, NEW rules, bs = <<BundleOfAll(name, rules, m)>>
      PROVE  bs \in Seq(ToSet(bs)) /\ \A b \in ToSet(bs) : b.resources \subseteq Resource(m)
  <2> HIDE DEF bs
  <2> QED BY <1>1, <1>2, <1>3
<1>4. CASE IsTargeted(m)
  BY <1>3, <1>4 DEF BuildBundles
<1>5. CASE ~IsTargeted(m) /\ m.perWorkload = <<>>
  BY <1>3, <1>5 DEF BuildBundles
<1>6. CASE ~IsTargeted(m) /\ m.perWorkload # <<>>
  <2> DEFINE S == {WorkloadBundleOf(w, m) : w \in Workloads(m)}
  <2>1. bs \in Seq(S) /\ ToSet(bs) \subseteq S
    BY <1>6, BundlesAre
  <2>2. bs \in Seq(ToSet(bs))
    <3> HIDE DEF bs, S
    <3> QED BY <2>1, Listed
  <2>3. ASSUME NEW w \in Workloads(m)
        PROVE  WorkloadBundleOf(w, m).resources \subseteq Resource(m)
    <3> DEFINE found == AnalyseWorkload(w, Ancillaries(m))
    <3>1. /\ Ancillaries(m) \in Seq(Resource(m)) /\ ToSet(Ancillaries(m)) \subseteq Resource(m)
          /\ w \in Resource(m)
      BY ListsAre DEF Workloads
    <3>2. found.resources \subseteq Resource(m)
      BY <3>1, FoundWithin
    <3>3. WorkloadBundleOf(w, m).resources = {w} \cup found.resources
      BY DEF WorkloadBundleOf
    <3> HIDE DEF found
    <3> QED BY <3>1, <3>2, <3>3
  <2> HIDE DEF bs
  <2> QED BY <2>1, <2>2, <2>3 DEF bs
<1> QED BY <1>4, <1>5, <1>6

\* The number of resources in bundles, and in all of them together.
LEMMA PlacedIs ==
  ASSUME NEW S, NEW bs \in Seq(S), NEW G, IsFiniteSet(G),
         \A b \in S : b.resources \subseteq G
  PROVE  LET U == {r \in G : \E i \in 1..Len(bs) : r \in bs[i].resources}
         IN  /\ PlacedManifests(bs) \in Nat /\ Cardinality(U) \in Nat
             /\ Cardinality(U) <= PlacedManifests(bs)
             /\ (\A i, j \in 1..Len(bs) : i # j => bs[i].resources \cap bs[j].resources = {})
                  => Cardinality(U) = PlacedManifests(bs)
<1> DEFINE n == Len(bs)
           R(i) == bs[i].resources
           U(k) == {r \in G : \E i \in 1..k : r \in R(i)}
           Disjoint == \A i, j \in 1..n : i # j => R(i) \cap R(j) = {}
           P(k, c) == /\ c \in Nat /\ Cardinality(U(k)) \in Nat /\ Cardinality(U(k)) <= c
                      /\ Disjoint => Cardinality(U(k)) = c
<1>1. PICK f : /\ f[0] = 0
               /\ \A i \in 1..n : f[i] = f[i - 1] + Cardinality(R(i))
               /\ f[n] = PlacedManifests(bs)
  BY Counting!Turns
     DEF PlacedManifests, FoldLeft, MapThenFoldSet, Max,
         Counting!FoldLeft, Counting!MapThenFoldSet, Counting!Max
<1> DEFINE T == {k \in 0..n : P(k, f[k])}
<1>2. n \in Nat /\ \A i \in 1..n : R(i) \subseteq G
  BY Listed
<1>3. 0 \in T
  <2>1. 1..0 = {} /\ 0 \in 0..n
    BY <1>2
  <2>2. U(0) = {}
    BY <2>1
  <2>3. Cardinality(U(0)) = 0
    BY <2>2, FS_EmptySet
  <2> HIDE DEF U, Disjoint
  <2> QED BY <1>1, <2>1, <2>3
<1>4. ASSUME NEW i \in 1..n, i - 1 \in T
      PROVE  i \in T
  <2>1. i \in 0..n /\ P(i - 1, f[i - 1]) /\ 1..i = (1..(i - 1)) \cup {i}
    BY <1>2, <1>4
  <2>2. f[i] = f[i - 1] + Cardinality(R(i)) /\ R(i) \subseteq G
    BY <1>1, <1>2
  <2>3. U(i) = U(i - 1) \cup R(i)
    BY <2>1, <2>2
  <2>4. U(i - 1) \subseteq G
    OBVIOUS
  <2>5. Disjoint => U(i - 1) \cap R(i) = {}
    <3> SUFFICES ASSUME Disjoint, NEW r \in U(i - 1), r \in R(i) PROVE FALSE
      OBVIOUS
    <3>1. PICK j \in 1..(i - 1) : r \in R(j)
      OBVIOUS
    <3>2. j \in 1..n /\ j # i
      BY <1>2
    <3> HIDE DEF R, U
    <3> QED BY <3>1, <3>2
  <2> HIDE DEF U, R, Disjoint
  <2>6. IsFiniteSet(U(i - 1)) /\ IsFiniteSet(R(i))
    BY <2>2, <2>4, FS_Subset
  <2>7. /\ Cardinality(U(i)) = Cardinality(U(i - 1)) + Cardinality(R(i))
                                 - Cardinality(U(i - 1) \cap R(i))
        /\ IsFiniteSet(U(i)) /\ IsFiniteSet(U(i - 1) \cap R(i))
    <3>1. IsFiniteSet(U(i - 1) \cap R(i))
      BY <2>6, FS_Subset
    <3> QED BY <2>3, <2>6, <3>1, FS_Union
  <2>8. /\ Cardinality(U(i)) \in Nat /\ Cardinality(R(i)) \in Nat
        /\ Cardinality(U(i - 1) \cap R(i)) \in Nat
    BY <2>6, <2>7, FS_CardinalityType
  <2>9. Disjoint => Cardinality(U(i - 1) \cap R(i)) = 0
    BY <2>5, FS_EmptySet
  <2>10. P(i, f[i])
    BY <2>1, <2>2, <2>7, <2>8, <2>9
  <2> QED BY <2>1, <2>10
<1> HIDE DEF T
<1>5. n \in T
  <2>1. 0..n \subseteq T
    BY <1>2, <1>3, <1>4, Adding!UpTo
  <2> QED BY <1>2, <2>1
<1>6. P(n, f[n])
  BY <1>5 DEF T
<1> QED BY <1>1, <1>6

LEMMA OrphansHold == MInv => OrphansFlagged
<1> SUFFICES ASSUME MInv
             PROVE  /\ NoDoubles /\ OrphansReported(manifest) => Orphans # {}
                    /\ Unshared /\ Orphans # {} => OrphansReported(manifest)
  BY DEF OrphansFlagged
<1> DEFINE ms == manifest.manifests
           n == Len(Bundles)
           U == {r \in Given : \E i \in 1..n : r \in Bundles[i].resources}
           placed == PlacedManifests(Bundles)
<1>1. IsManifest(manifest) /\ ms \in Seq(ToSet(ms)) /\ Given = ToSet(ms)
  BY DEF MInv, IsManifest, Given
<1>2. /\ IsFiniteSet(Given) /\ Cardinality(Given) \in Nat /\ Cardinality(Given) <= Len(ms)
      /\ (\A i, j \in 1..Len(ms) : ms[i] = ms[j] => i = j) => Cardinality(Given) = Len(ms)
  BY <1>1, ListedFinite
<1>3. /\ Bundles \in Seq(ToSet(Bundles)) /\ DOMAIN Bundles = 1..n
      /\ \A b \in ToSet(Bundles) : b.resources \subseteq Given
  <2>1. /\ Bundles \in Seq(ToSet(Bundles))
        /\ \A b \in ToSet(Bundles) : b.resources \subseteq Resource(manifest)
    BY <1>1, BundlesWithin DEF Bundles
  <2> QED BY <1>1, <2>1, Listed DEF Resource
<1>4. /\ placed \in Nat /\ Cardinality(U) \in Nat /\ Cardinality(U) <= placed
      /\ (\A i, j \in 1..n : i # j => Bundles[i].resources \cap Bundles[j].resources = {})
           => Cardinality(U) = placed
  BY <1>2, <1>3, PlacedIs
<1>5. Len(ms) \in Nat
  BY <1>1, LenProperties
<1>6. OrphansReported(manifest) <=> Len(ms) > placed
  BY DEF OrphansReported, Bundles
<1>7. Orphans = Given \ U
  BY <1>3 DEF Orphans
<1>8. U \subseteq Given
  OBVIOUS
<1> HIDE DEF U, placed
<1>9. ASSUME NoDoubles, OrphansReported(manifest), Orphans = {}
      PROVE  FALSE
  <2>1. \A i, j \in 1..Len(ms) : ms[i] = ms[j] => i = j
    <3>1. DOMAIN ms = 1..Len(ms)
      BY <1>1, LenProperties
    <3> QED BY <1>9, <3>1 DEF NoDoubles, Equals
  <2>2. U = Given
    BY <1>7, <1>8, <1>9
  <2> QED BY <1>2, <1>4, <1>5, <1>6, <1>9, <2>1, <2>2
<1>10. ASSUME Unshared, Orphans # {}
       PROVE  OrphansReported(manifest)
  <2>1. Cardinality(U) = placed
    BY <1>3, <1>4, <1>10 DEF Unshared
  <2>2. U # Given /\ Cardinality(U) <= Cardinality(Given)
        /\ (Cardinality(Given) = Cardinality(U) => Given = U)
    BY <1>2, <1>7, <1>8, <1>10, FS_Subset
  <2> QED BY <1>2, <1>4, <1>5, <1>6, <2>1, <2>2
<1> QED BY <1>9, <1>10

\* Where Reconcile warns of manifests in no bundle there is one, unless a manifest
\* is doubled, and where there is one it warns, unless bundles share a resource:
\* it compares two numbers, and not what is in the bundles.
THEOREM OrphansCounted == Spec => []OrphansFlagged
BY MInvHolds, OrphansHold, PTL
=============================================================================
