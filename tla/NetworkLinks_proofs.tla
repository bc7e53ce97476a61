------------------------- MODULE NetworkLinks_proofs --------------------------
(***************************************************************************)
(* What module NetworkLinks says, for any manifests, lists of connections  *)
(* and number of changes and faults: the list of links stays in order, it  *)
(* keeps what was written for each manifest, and it implements a set.      *)
(***************************************************************************)
EXTENDS NetworkLinks, SequenceTheorems, WellFoundedInduction, TLAPS

Services == {c.service : c \in Conns}

\* All connections between the locations there are.
Entries ==
  [src : {c.src : c \in Conns}, tgt : {c.tgt : c \in Conns}, service : Services]

-----------------------------------------------------------------------------
\* Sequences.

(* A set of numbers has a least one: what a search of a list returns.      *)
LEMMA LeastOne ==
  ASSUME NEW T \in SUBSET Nat, T # {}
  PROVE  Min(T) \in T
<1> DEFINE R == {p \in Nat \X Nat : p[1] < p[2]}
<1>1. IsWellFoundedOn(R, Nat)
  BY NatLessThanWellFounded DEF OpToRel
<1> HIDE DEF R
<1>2. PICK x \in T : \A y \in T : ~ (<<y, x>> \in R)
  BY <1>1, WFMin
<1>3. ASSUME NEW y \in T
      PROVE  x =< y
  <2>1. x \in Nat /\ y \in Nat
    OBVIOUS
  <2>2. y < x => <<y, x>> \in R
    BY <2>1 DEF R
  <2> QED BY <1>2, <2>1, <2>2
<1> QED BY <1>3 DEF Min

(* getLink (network-connectivity.go:208) returns the place of a link with  *)
(* the path of the connection, or none if there is no such link.           *)
LEMMA GetLinkFinds ==
  ASSUME NEW ls \in Seq(Links), NEW c
  PROVE  \/ /\ GetLink(ls, c) = 0
            /\ \A i \in 1..Len(ls) : Path(ls[i]) # Path(c)
         \/ /\ GetLink(ls, c) \in 1..Len(ls)
            /\ Path(ls[GetLink(ls, c)]) = Path(c)
<1> DEFINE T == {i \in 1..Len(ls) : Path(ls[i]) = Path(c)}
<1>1. GetLink(ls, c) = IF T # {} THEN Min(T) ELSE 0
  BY DEF GetLink, SelectInSeq
<1>2. CASE T = {}
  BY <1>1, <1>2
<1>3. CASE T # {}
  <2>1. T \in SUBSET Nat
    BY LenProperties
  <2>2. Min(T) \in T
    BY <2>1, <1>3, LeastOne
  <2> QED BY <1>1, <1>3, <2>2
<1> QED BY <1>2, <1>3

(* The same for the services of a link (network-connectivity.go:101).      *)
LEMMA GetServiceFinds ==
  ASSUME NEW S, NEW l, l.services \in Seq(S), NEW s
  PROVE  \/ /\ GetService(l, s) = 0
            /\ \A i \in 1..Len(l.services) : l.services[i] # s
         \/ /\ GetService(l, s) \in 1..Len(l.services)
            /\ l.services[GetService(l, s)] = s
<1> DEFINE T == {i \in 1..Len(l.services) : l.services[i] = s}
<1>1. GetService(l, s) = IF T # {} THEN Min(T) ELSE 0
  BY DEF GetService, SelectInSeq
<1>2. CASE T = {}
  BY <1>1, <1>2
<1>3. CASE T # {}
  <2>1. T \in SUBSET Nat
    BY LenProperties
  <2>2. Min(T) \in T
    BY <2>1, <1>3, LeastOne
  <2> QED BY <1>1, <1>3, <2>2
<1> QED BY <1>2, <1>3

(* A list without its i-th element, as append(s[:i], s[i+1:]...) makes it. *)
LEMMA RemoveAtIs ==
  ASSUME NEW S, NEW s \in Seq(S), NEW i \in 1..Len(s)
  PROVE  /\ RemoveAt(s, i) \in Seq(S)
         /\ Len(RemoveAt(s, i)) = Len(s) - 1
         /\ \A j \in 1..(Len(s) - 1) :
              RemoveAt(s, i)[j] = IF j < i THEN s[j] ELSE s[j + 1]
<1> DEFINE a == SubSeq(s, 1, i - 1)
           b == SubSeq(s, i + 1, Len(s))
<1>1. Len(s) \in Nat /\ \A j \in 1..Len(s) : s[j] \in S
  BY LenProperties, ElementOfSeq
<1>2. /\ a \in Seq(S) /\ Len(a) = i - 1
      /\ \A j \in 1..(i - 1) : a[j] = s[j]
  <2>1. \A j \in 1..(i - 1) : s[j] \in S
    BY <1>1
  <2>2. /\ a \in Seq(S)
        /\ Len(a) = IF 1 <= i - 1 THEN (i - 1) - 1 + 1 ELSE 0
        /\ \A j \in 1..((i - 1) - 1 + 1) : a[j] = s[1 + j - 1]
    BY <2>1, <1>1, SubSeqProperties
  <2> QED BY <2>2
<1>3. /\ b \in Seq(S) /\ Len(b) = Len(s) - i
      /\ \A j \in 1..(Len(s) - i) : b[j] = s[i + j]
  <2>1. \A j \in (i + 1)..Len(s) : s[j] \in S
    BY <1>1
  <2>2. /\ b \in Seq(S)
        /\ Len(b) = IF i + 1 <= Len(s) THEN Len(s) - (i + 1) + 1 ELSE 0
        /\ \A j \in 1..(Len(s) - (i + 1) + 1) : b[j] = s[(i + 1) + j - 1]
    BY <2>1, <1>1, SubSeqProperties
  <2> QED BY <2>2, <1>1
<1>4. RemoveAt(s, i) = a \o b
  BY DEF RemoveAt
<1> HIDE DEF a, b
<1>5. /\ a \o b \in Seq(S)
      /\ Len(a \o b) = Len(a) + Len(b)
      /\ \A j \in 1..(Len(a) + Len(b)) :
           (a \o b)[j] = IF j <= Len(a) THEN a[j] ELSE b[j - Len(a)]
  BY <1>2, <1>3, ConcatProperties
<1>6. ASSUME NEW j \in 1..(Len(s) - 1)
      PROVE  (a \o b)[j] = IF j < i THEN s[j] ELSE s[j + 1]
  <2>1. (a \o b)[j] = IF j <= i - 1 THEN a[j] ELSE b[j - (i - 1)]
    BY <1>1, <1>2, <1>3, <1>5
  <2>2. CASE j < i
    BY <2>1, <2>2, <1>1, <1>2
  <2>3. CASE ~ (j < i)
    <3>1. j - (i - 1) \in 1..(Len(s) - i) /\ i + (j - (i - 1)) = j + 1
      BY <2>3, <1>1
    <3>2. (a \o b)[j] = b[j - (i - 1)]
      BY <2>1, <2>3, <1>1
    <3>3. b[j - (i - 1)] = s[i + (j - (i - 1))]
      BY <3>1, <1>3
    <3> QED BY <2>3, <3>1, <3>2, <3>3
  <2> QED BY <2>2, <2>3
<1>7. Len(a \o b) = Len(s) - 1
  BY <1>1, <1>2, <1>3, <1>5
<1> QED BY <1>4, <1>5, <1>6, <1>7

-----------------------------------------------------------------------------
\* Links.

(* A connection has the three parts that a list of links is made of.       *)
LEMMA ConnsAreEntries == Conns \subseteq Entries
BY WantedAssumption DEF Entries, Services

(* Entries are the same if path and service are: what getLink and          *)
(* GetService compare (network-connectivity.go:101, 208) is all there is.  *)
LEMMA EntryIs ==
  ASSUME NEW c \in Entries, NEW d \in Entries
  PROVE  c = d <=> Path(c) = Path(d) /\ c.service = d.service
<1>1. ASSUME Path(c) = Path(d), c.service = d.service PROVE c = d
  <2>1. c.src = d.src /\ c.tgt = d.tgt
    BY <1>1 DEF Path
  <2> QED BY <1>1, <2>1 DEF Entries
<1> QED BY <1>1 DEF Path

(* What a list of links connects: a service goes between two locations if  *)
(* it is in the list of a link of that path.                               *)
LEMMA FlattenIs ==
  ASSUME NEW ls \in Seq(Links)
  PROVE  /\ Flatten(ls) \subseteq Entries
         /\ \A d \in Entries :
              d \in Flatten(ls) <=>
                \E i \in 1..Len(ls) : /\ Path(ls[i]) = Path(d)
                                      /\ d.service \in ToSet(ls[i].services)
<1>1. /\ DOMAIN ls = 1..Len(ls)
      /\ \A i \in 1..Len(ls) : ls[i] \in Links
  BY LenProperties, ElementOfSeq
<1>2. ASSUME NEW i \in 1..Len(ls)
      PROVE  /\ ls[i].src \in {c.src : c \in Conns}
             /\ ls[i].tgt \in {c.tgt : c \in Conns}
             /\ ls[i].services \in Seq(Services)
  BY <1>1 DEF Links, Services
<1>3. ASSUME NEW i \in 1..Len(ls)
      PROVE  ToSet(ls[i].services) \subseteq Services
  BY <1>2, LenProperties DEF ToSet
<1>4. ASSUME NEW i \in 1..Len(ls), NEW s \in ToSet(ls[i].services)
      PROVE  [src |-> ls[i].src, tgt |-> ls[i].tgt, service |-> s] \in Entries
  BY <1>2, <1>3 DEF Entries
<1>5. Flatten(ls) \subseteq Entries
  BY <1>1, <1>4 DEF Flatten
<1>6. ASSUME NEW d \in Entries, d \in Flatten(ls)
      PROVE  \E i \in 1..Len(ls) : /\ Path(ls[i]) = Path(d)
                                   /\ d.service \in ToSet(ls[i].services)
  <2>1. PICK i \in 1..Len(ls) : \E s \in ToSet(ls[i].services) :
          d = [src |-> ls[i].src, tgt |-> ls[i].tgt, service |-> s]
    BY <1>1, <1>6 DEF Flatten
  <2> QED BY <2>1 DEF Path
<1>7. ASSUME NEW d \in Entries, NEW i \in 1..Len(ls),
             Path(ls[i]) = Path(d), d.service \in ToSet(ls[i].services)
      PROVE  d \in Flatten(ls)
  <2>1. ls[i].src = d.src /\ ls[i].tgt = d.tgt
    BY <1>7 DEF Path
  <2>2. d = [src |-> ls[i].src, tgt |-> ls[i].tgt, service |-> d.service]
    BY <2>1 DEF Entries
  <2> QED BY <1>1, <1>7, <2>2 DEF Flatten
<1> QED BY <1>5, <1>6, <1>7

(* In a list in order only one link can hold a connection.                 *)
LEMMA AtPath ==
  ASSUME NEW ls \in Seq(Links), InOrder(ls), NEW i \in 1..Len(ls),
         NEW d \in Entries, Path(d) = Path(ls[i])
  PROVE  d \in Flatten(ls) <=> d.service \in ToSet(ls[i].services)
<1>1. \A j \in 1..Len(ls) : Path(ls[j]) = Path(ls[i]) => j = i
  BY LenProperties DEF InOrder
<1> QED BY <1>1, FlattenIs

(* A link that is changed in its services only, as the code changes it     *)
(* through the pointer getLink returns (network-connectivity.go:65, 107).  *)
LEMMA ReplaceIs ==
  ASSUME NEW ls \in Seq(Links), InOrder(ls), NEW i \in 1..Len(ls),
         NEW l \in Links, Path(l) = Path(ls[i]),
         l.services # <<>>, IsInjective(l.services)
  PROVE  LET r == [ls EXCEPT ![i] = l]
         IN  /\ r \in Seq(Links) /\ InOrder(r)
             /\ \A d \in Entries :
                  d \in Flatten(r) <=> IF Path(d) = Path(l)
                                       THEN d.service \in ToSet(l.services)
                                       ELSE d \in Flatten(ls)
<1> DEFINE r == [ls EXCEPT ![i] = l]
<1>1. /\ r \in Seq(Links) /\ Len(r) = Len(ls)
      /\ \A j \in 1..Len(ls) : r[j] = IF j = i THEN l ELSE ls[j]
  BY ExceptSeq
<1>2. DOMAIN r = 1..Len(ls) /\ DOMAIN ls = 1..Len(ls)
  BY <1>1, LenProperties
<1> HIDE DEF r
<1>3. \A j \in 1..Len(ls) : Path(r[j]) = Path(ls[j])
  BY <1>1
<1>4. InOrder(r)
  <2>1. \A j, k \in 1..Len(ls) : Path(r[j]) = Path(r[k]) => j = k
    BY <1>2, <1>3 DEF InOrder
  <2>2. \A j \in 1..Len(ls) : r[j].services # <<>> /\ IsInjective(r[j].services)
    BY <1>1, <1>2 DEF InOrder
  <2> QED BY <1>2, <2>1, <2>2 DEF InOrder
<1>5. ASSUME NEW d \in Entries, Path(d) = Path(l)
      PROVE  d \in Flatten(r) <=> d.service \in ToSet(l.services)
  <2>1. Path(d) = Path(r[i]) /\ r[i] = l
    BY <1>1, <1>5
  <2> QED BY <1>1, <1>4, <2>1, AtPath
<1>6. ASSUME NEW d \in Entries, Path(d) # Path(l)
      PROVE  d \in Flatten(r) <=> d \in Flatten(ls)
  <2>1. \A j \in 1..Len(ls) : Path(r[j]) = Path(d) => r[j] = ls[j]
    BY <1>1, <1>6
  <2> QED BY <1>1, <1>3, <2>1, FlattenIs
<1>7. \A d \in Entries :
        d \in Flatten(r) <=> IF Path(d) = Path(l)
                             THEN d.service \in ToSet(l.services)
                             ELSE d \in Flatten(ls)
  BY <1>5, <1>6
<1> QED BY <1>1, <1>4, <1>7 DEF r

(* AddService of the network operator, as the code relies on it.           *)
LEMMA AddServiceIs ==
  ASSUME NEW l \in Links, NEW s \in Services, IsInjective(l.services)
  PROVE  LET k == AddService(l, s)
         IN  /\ k \in Links /\ Path(k) = Path(l)
             /\ ToSet(k.services) = ToSet(l.services) \cup {s}
             /\ k.services # <<>> /\ IsInjective(k.services)
<1> DEFINE n == Len(l.services)
<1>1. /\ l.services \in Seq(Services) /\ n \in Nat /\ DOMAIN l.services = 1..n
      /\ \A i \in 1..n : l.services[i] \in Services
  BY LenProperties, ElementOfSeq DEF Links, Services
<1>2. CASE s \in ToSet(l.services)
  <2>1. AddService(l, s) = l
    BY <1>2 DEF AddService
  <2>2. l.services # <<>>
    BY <1>2, EmptySeq DEF ToSet
  <2> QED BY <1>2, <2>1, <2>2
<1>3. CASE s \notin ToSet(l.services)
  <2> DEFINE t == Append(l.services, s)
             k == [l EXCEPT !.services = t]
  <2>1. AddService(l, s) = k
    BY <1>3 DEF AddService
  <2>2. /\ t \in Seq(Services) /\ Len(t) = n + 1 /\ DOMAIN t = 1..(n + 1)
        /\ \A i \in 1..n : t[i] = l.services[i]
        /\ t[n + 1] = s
    BY <1>1
  <2>3. k \in Links /\ k.services = t /\ Path(k) = Path(l)
    BY <2>2 DEF Links, Services, Path
  <2> HIDE DEF t, k
  <2>4. ToSet(t) = ToSet(l.services) \cup {s}
    <3>1. \A i \in 1..(n + 1) : i \in 1..n \/ i = n + 1
      BY <1>1
    <3>2. 1..n \subseteq 1..(n + 1) /\ n + 1 \in 1..(n + 1)
      BY <1>1
    <3> QED BY <1>1, <2>2, <3>1, <3>2 DEF ToSet
  <2>5. t # <<>>
    BY <1>1, <2>2
  <2>6. IsInjective(t)
    <3>1. \A i \in 1..n : t[i] # s
      BY <1>1, <1>3, <2>2 DEF ToSet
    <3>2. \A i, j \in 1..n : t[i] = t[j] => i = j
      BY <1>1, <2>2 DEF IsInjective
    <3>3. \A i \in 1..(n + 1) : i \in 1..n \/ i = n + 1
      BY <1>1
    <3>4. ASSUME NEW i \in 1..(n + 1), NEW j \in 1..(n + 1), t[i] = t[j]
          PROVE  i = j
      <4>1. CASE i \in 1..n /\ j \in 1..n
        BY <4>1, <3>4, <3>2
      <4>2. CASE i \in 1..n /\ j = n + 1
        <5>1. t[i] # s /\ t[j] = s
          BY <4>2, <3>1, <2>2
        <5> QED BY <5>1, <3>4
      <4>3. CASE i = n + 1 /\ j \in 1..n
        <5>1. t[j] # s /\ t[i] = s
          BY <4>3, <3>1, <2>2
        <5> QED BY <5>1, <3>4
      <4>4. CASE i = n + 1 /\ j = n + 1
        BY <4>4
      <4> QED BY <4>1, <4>2, <4>3, <4>4, <3>3
    <3>5. \A i, j \in DOMAIN t : t[i] = t[j] => i = j
      BY <3>4, <2>2
    <3> QED BY <3>5 DEF IsInjective
  <2> QED BY <2>1, <2>3, <2>4, <2>5, <2>6
<1> QED BY <1>2, <1>3

(* A list without repetitions, without its j-th element, has all the       *)
(* others.                                                                 *)
LEMMA RestIs ==
  ASSUME NEW S, NEW s \in Seq(S), NEW j \in 1..Len(s), IsInjective(s)
  PROVE  /\ ToSet(RemoveAt(s, j)) = ToSet(s) \ {s[j]}
         /\ IsInjective(RemoveAt(s, j))
<1> DEFINE t == RemoveAt(s, j)
           n == Len(s)
<1>1. n \in Nat /\ DOMAIN s = 1..n
  BY LenProperties
<1>2. /\ t \in Seq(S) /\ Len(t) = n - 1
      /\ \A i \in 1..(n - 1) : t[i] = IF i < j THEN s[i] ELSE s[i + 1]
  BY RemoveAtIs
<1>3. DOMAIN t = 1..(n - 1)
  BY <1>2, LenProperties
<1>4. \A i, k \in 1..n : s[i] = s[k] => i = k
  BY <1>1 DEF IsInjective
<1> HIDE DEF t, n
<1>5. IsInjective(t)
  <2>1. ASSUME NEW i \in 1..(n - 1), NEW k \in 1..(n - 1), t[i] = t[k]
        PROVE  i = k
    <3> DEFINE a == IF i < j THEN i ELSE i + 1
               b == IF k < j THEN k ELSE k + 1
    <3>1. a \in 1..n /\ b \in 1..n
      BY <1>1
    <3>2. t[i] = s[a] /\ t[k] = s[b]
      BY <1>2
    <3>3. a = b
      BY <1>4, <2>1, <3>1, <3>2
    <3> QED BY <3>3, <1>1
  <2> QED BY <1>3, <2>1 DEF IsInjective
<1>6. ASSUME NEW x \in ToSet(t)
      PROVE  x \in ToSet(s) /\ x # s[j]
  <2>1. PICK i \in 1..(n - 1) : x = t[i]
    BY <1>3 DEF ToSet
  <2> DEFINE a == IF i < j THEN i ELSE i + 1
  <2>2. a \in 1..n /\ a # j
    BY <1>1
  <2>3. x = s[a]
    BY <1>2, <2>1
  <2>4. j \in 1..n
    BY DEF n
  <2> QED BY <1>1, <1>4, <2>2, <2>3, <2>4 DEF ToSet
<1>7. ASSUME NEW x \in ToSet(s), x # s[j]
      PROVE  x \in ToSet(t)
  <2>1. PICK i \in 1..n : x = s[i]
    BY <1>1 DEF ToSet
  <2> DEFINE a == IF i < j THEN i ELSE i - 1
  <2>2. j \in 1..n /\ i # j
    BY <1>7, <2>1 DEF n
  <2>3. a \in 1..(n - 1) /\ (IF a < j THEN a ELSE a + 1) = i
    BY <1>1, <2>2
  <2>4. t[a] = s[i]
    BY <1>2, <2>3
  <2> QED BY <1>3, <2>1, <2>3, <2>4 DEF ToSet
<1> QED BY <1>5, <1>6, <1>7 DEF t

(* A service is taken out of a link that has others                        *)
(* (network-connectivity.go:105-107).                                      *)
LEMMA DropServiceIs ==
  ASSUME NEW l \in Links, IsInjective(l.services), Len(l.services) # 1,
         NEW j \in 1..Len(l.services)
  PROVE  LET k == [l EXCEPT !.services = RemoveAt(@, j)]
         IN  /\ k \in Links /\ Path(k) = Path(l)
             /\ ToSet(k.services) = ToSet(l.services) \ {l.services[j]}
             /\ k.services # <<>> /\ IsInjective(k.services)
<1> DEFINE t == RemoveAt(l.services, j)
           k == [l EXCEPT !.services = t]
<1>1. l.services \in Seq(Services)
  BY DEF Links, Services
<1>2. /\ t \in Seq(Services) /\ Len(t) = Len(l.services) - 1
      /\ ToSet(t) = ToSet(l.services) \ {l.services[j]} /\ IsInjective(t)
  BY <1>1, RemoveAtIs, RestIs
<1>3. t # <<>>
  <2>1. Len(l.services) \in Nat
    BY <1>1, LenProperties
  <2>2. Len(t) # 0
    BY <1>2, <2>1
  <2> QED BY <2>2, Len(<<>>) = 0
<1>4. k \in Links /\ k.services = t /\ Path(k) = Path(l)
  BY <1>2 DEF Links, Services, Path
<1> QED BY <1>2, <1>3, <1>4

(* A link is taken out of the list (network-connectivity.go:103-104).      *)
LEMMA DropLinkIs ==
  ASSUME NEW ls \in Seq(Links), InOrder(ls), NEW i \in 1..Len(ls)
  PROVE  LET r == RemoveAt(ls, i)
         IN  /\ r \in Seq(Links) /\ InOrder(r)
             /\ \A d \in Entries :
                  d \in Flatten(r) <=> Path(d) # Path(ls[i]) /\ d \in Flatten(ls)
<1> DEFINE r == RemoveAt(ls, i)
           n == Len(ls)
           at(j) == IF j < i THEN j ELSE j + 1
<1>1. n \in Nat /\ DOMAIN ls = 1..n
  BY LenProperties
<1>2. /\ r \in Seq(Links) /\ Len(r) = n - 1
      /\ \A j \in 1..(n - 1) : r[j] = ls[at(j)]
  BY RemoveAtIs
<1>3. DOMAIN r = 1..(n - 1)
  BY <1>2, LenProperties
<1>4. \A j \in 1..(n - 1) : at(j) \in 1..n /\ at(j) # i
  BY <1>1
<1>5. \A j, k \in 1..(n - 1) : at(j) = at(k) => j = k
  BY <1>1
<1>6. \A k \in 1..n : k # i => \E j \in 1..(n - 1) : at(j) = k
  <2>1. ASSUME NEW k \in 1..n, k # i
        PROVE  \E j \in 1..(n - 1) : at(j) = k
    <3> DEFINE j == IF k < i THEN k ELSE k - 1
    <3>1. j \in 1..(n - 1)
      BY <1>1, <2>1
    <3>2. (IF j < i THEN j ELSE j + 1) = k
      BY <1>1, <2>1
    <3> QED BY <3>1, <3>2
  <2> QED BY <2>1
<1> i \in 1..n
  OBVIOUS
<1>7. \A j, k \in 1..n : Path(ls[j]) = Path(ls[k]) => j = k
  BY <1>1 DEF InOrder
<1>8. \A j \in 1..n : ls[j].services # <<>> /\ IsInjective(ls[j].services)
  BY <1>1 DEF InOrder
<1> HIDE DEF r, n, at
<1>9. InOrder(r)
  <2>1. \A j, k \in 1..(n - 1) : Path(r[j]) = Path(r[k]) => j = k
    BY <1>2, <1>4, <1>5, <1>7
  <2>2. \A j \in 1..(n - 1) : r[j].services # <<>> /\ IsInjective(r[j].services)
    BY <1>2, <1>4, <1>8
  <2> QED BY <1>3, <2>1, <2>2 DEF InOrder
<1>10. \A d \in Entries :
         d \in Flatten(ls) <=> \E k \in 1..n : /\ Path(ls[k]) = Path(d)
                                               /\ d.service \in ToSet(ls[k].services)
  BY FlattenIs DEF n
<1>11. \A d \in Entries :
         d \in Flatten(r) <=> \E j \in 1..(n - 1) : /\ Path(r[j]) = Path(d)
                                                    /\ d.service \in ToSet(r[j].services)
  BY <1>2, FlattenIs
<1>12. ASSUME NEW d \in Entries, d \in Flatten(r)
       PROVE  Path(d) # Path(ls[i]) /\ d \in Flatten(ls)
  <2>1. PICK j \in 1..(n - 1) : /\ Path(r[j]) = Path(d)
                                /\ d.service \in ToSet(r[j].services)
    BY <1>11, <1>12
  <2>2. r[j] = ls[at(j)] /\ at(j) \in 1..n /\ at(j) # i
    BY <1>2, <1>4
  <2> QED BY <1>7, <1>10, <2>1, <2>2
<1>13. ASSUME NEW d \in Entries, Path(d) # Path(ls[i]), d \in Flatten(ls)
       PROVE  d \in Flatten(r)
  <2>1. PICK k \in 1..n : /\ Path(ls[k]) = Path(d)
                          /\ d.service \in ToSet(ls[k].services)
    BY <1>10, <1>13
  <2>2. PICK j \in 1..(n - 1) : at(j) = k
    BY <1>6, <1>13, <2>1
  <2> QED BY <1>2, <1>11, <2>1, <2>2
<1> QED BY <1>2, <1>9, <1>12, <1>13 DEF r

(* A step of the loop of registerNetworkLinks (network-connectivity.go:58) *)
(* keeps the list in order and adds exactly the connection.                *)
LEMMA AddConnectionIs ==
  ASSUME NEW ls \in Seq(Links), InOrder(ls), NEW c \in Conns
  PROVE  LET r == AddConnection(ls, c)
         IN  /\ r \in Seq(Links) /\ InOrder(r)
             /\ Flatten(r) = Flatten(ls) \cup {c}
<1> DEFINE i == GetLink(ls, c)
           r == AddConnection(ls, c)
<1>1. c \in Entries /\ c.service \in Services
  BY ConnsAreEntries DEF Services
<1>2. /\ DOMAIN ls = 1..Len(ls)
      /\ \A j \in 1..Len(ls) : ls[j] \in Links
  BY LenProperties, ElementOfSeq
<1>3. CASE i # 0
  <2> DEFINE l == AddService(ls[i], c.service)
  <2>1. i \in 1..Len(ls) /\ Path(ls[i]) = Path(c)
    BY <1>3, GetLinkFinds
  <2>2. ls[i] \in Links /\ IsInjective(ls[i].services)
    BY <1>2, <2>1 DEF InOrder
  <2>3. /\ l \in Links /\ Path(l) = Path(ls[i])
        /\ ToSet(l.services) = ToSet(ls[i].services) \cup {c.service}
        /\ l.services # <<>> /\ IsInjective(l.services)
    BY <1>1, <2>2, AddServiceIs
  <2>4. r = [ls EXCEPT ![i] = l]
    BY <1>3 DEF AddConnection
  <2> HIDE DEF i, l, r
  <2>5. /\ r \in Seq(Links) /\ InOrder(r)
        /\ \A d \in Entries :
             d \in Flatten(r) <=> IF Path(d) = Path(l)
                                  THEN d.service \in ToSet(l.services)
                                  ELSE d \in Flatten(ls)
    BY <2>1, <2>3, <2>4, ReplaceIs
  <2>6. \A d \in Entries : d \in Flatten(r) <=> d \in Flatten(ls) \/ d = c
    BY <1>1, <2>1, <2>3, <2>5, AtPath, EntryIs
  <2>7. Flatten(r) = Flatten(ls) \cup {c}
    BY <1>1, <2>5, <2>6, FlattenIs
  <2> QED BY <2>5, <2>7 DEF r
<1>4. CASE i = 0
  <2> DEFINE l == [src |-> c.src, tgt |-> c.tgt, services |-> <<c.service>>]
             n == Len(ls)
  <2>1. \A j \in 1..n : Path(ls[j]) # Path(c)
    BY <1>4, GetLinkFinds
  <2>2. r = Append(ls, l)
    BY <1>4 DEF AddConnection
  <2>3. l \in Links
    BY DEF Links
  <2>4. /\ Path(l) = Path(c) /\ l.services # <<>> /\ IsInjective(l.services)
        /\ ToSet(l.services) = {c.service}
    BY DEF Path, IsInjective, ToSet
  <2> HIDE DEF l
  <2>5. /\ r \in Seq(Links) /\ Len(r) = n + 1 /\ n \in Nat
        /\ DOMAIN r = 1..(n + 1)
        /\ \A j \in 1..n : r[j] = ls[j]
        /\ r[n + 1] = l
    BY <2>2, <2>3, LenProperties
  <2> HIDE DEF i, r
  <2>6. InOrder(r)
    <3>1. \A j \in 1..(n + 1) : j \in 1..n \/ j = n + 1
      BY <2>5
    <3>2. \A j, k \in 1..n : Path(ls[j]) = Path(ls[k]) => j = k
      BY <1>2 DEF InOrder
    <3>3. \A j, k \in 1..(n + 1) : Path(r[j]) = Path(r[k]) => j = k
      BY <2>1, <2>4, <2>5, <3>1, <3>2
    <3>4. \A j \in 1..n : ls[j].services # <<>> /\ IsInjective(ls[j].services)
      BY <1>2 DEF InOrder
    <3>5. \A j \in 1..(n + 1) : r[j].services # <<>> /\ IsInjective(r[j].services)
      BY <2>4, <2>5, <3>1, <3>4
    <3> QED BY <2>5, <3>3, <3>5 DEF InOrder
  <2>7. \A d \in Entries : d \in Flatten(r) <=> d \in Flatten(ls) \/ d = c
    <3>1. \A d \in Entries :
            d \in Flatten(r) <=> \E j \in 1..(n + 1) :
              Path(r[j]) = Path(d) /\ d.service \in ToSet(r[j].services)
      BY <2>5, FlattenIs
    <3>2. \A d \in Entries :
            d \in Flatten(ls) <=> \E j \in 1..n :
              Path(ls[j]) = Path(d) /\ d.service \in ToSet(ls[j].services)
      BY FlattenIs
    <3>3. \A d \in Entries : d = c <=> Path(d) = Path(c) /\ d.service = c.service
      BY <1>1, EntryIs
    <3>4. \A j : j \in 1..(n + 1) <=> j \in 1..n \/ j = n + 1
      BY <2>5
    <3> QED BY <2>4, <2>5, <3>1, <3>2, <3>3, <3>4
  <2>8. Flatten(r) = Flatten(ls) \cup {c}
    BY <1>1, <2>5, <2>7, FlattenIs
  <2> QED BY <2>5, <2>6, <2>8 DEF r
<1> QED BY <1>3, <1>4

(* A step of the loop of deleteNetworkLinks (network-connectivity.go:98)   *)
(* keeps the list in order and removes exactly the connection.             *)
LEMMA RemoveConnectionIs ==
  ASSUME NEW ls \in Seq(Links), InOrder(ls), NEW c \in Conns
  PROVE  LET r == RemoveConnection(ls, c)
         IN  /\ r \in Seq(Links) /\ InOrder(r)
             /\ Flatten(r) = Flatten(ls) \ {c}
<1> DEFINE i == GetLink(ls, c)
           r == RemoveConnection(ls, c)
<1>1. c \in Entries
  BY ConnsAreEntries
<1>2. /\ DOMAIN ls = 1..Len(ls)
      /\ \A k \in 1..Len(ls) : ls[k] \in Links
  BY LenProperties, ElementOfSeq
<1>3. CASE i = 0
  <2>1. \A k \in 1..Len(ls) : Path(ls[k]) # Path(c)
    BY <1>3, GetLinkFinds
  <2>2. r = ls
    BY <1>3 DEF RemoveConnection
  <2>3. c \notin Flatten(ls)
    BY <1>1, <2>1, FlattenIs
  <2> QED BY <2>2, <2>3
<1>4. CASE i # 0
  <2> DEFINE l == ls[i]
             j == GetService(l, c.service)
  <2>1. i \in 1..Len(ls) /\ Path(l) = Path(c)
    BY <1>4, GetLinkFinds
  <2>2. /\ l \in Links /\ IsInjective(l.services)
        /\ l.services \in Seq(Services)
    BY <1>2, <2>1 DEF InOrder, Links, Services
  <2>3. DOMAIN l.services = 1..Len(l.services)
    BY <2>2, LenProperties
  <2>4. c \in Flatten(ls) <=> c.service \in ToSet(l.services)
    BY <1>1, <2>1, AtPath
  <2>5. \A d \in Entries : d = c <=> Path(d) = Path(c) /\ d.service = c.service
    BY <1>1, EntryIs
  <2>6. \A d \in Entries :
          Path(d) = Path(l) =>
            (d \in Flatten(ls) <=> d.service \in ToSet(l.services))
    BY <2>1, AtPath
  <2>7. r = IF j = 0 THEN ls
            ELSE IF Len(l.services) = 1 THEN RemoveAt(ls, i)
            ELSE [ls EXCEPT ![i] = [l EXCEPT !.services = RemoveAt(@, j)]]
    BY <1>4 DEF RemoveConnection
  <2>8. \/ /\ j = 0
           /\ \A k \in 1..Len(l.services) : l.services[k] # c.service
        \/ /\ j \in 1..Len(l.services)
           /\ l.services[j] = c.service
    BY <2>2, GetServiceFinds
  <2> HIDE DEF i, j, l, r
  <2>9. CASE j = 0
    <3>1. c.service \notin ToSet(l.services)
      BY <2>3, <2>8, <2>9 DEF ToSet
    <3> QED BY <2>4, <2>7, <2>9, <3>1 DEF r
  <2>10. CASE j # 0 /\ Len(l.services) = 1
    <3>1. r = RemoveAt(ls, i)
      BY <2>7, <2>10
    <3>2. /\ r \in Seq(Links) /\ InOrder(r)
          /\ \A d \in Entries :
               d \in Flatten(r) <=> Path(d) # Path(ls[i]) /\ d \in Flatten(ls)
      BY <2>1, <3>1, DropLinkIs
    <3>3. ToSet(l.services) = {c.service}
      BY <2>3, <2>8, <2>10 DEF ToSet
    <3>4. \A d \in Entries : d \in Flatten(r) <=> d \in Flatten(ls) /\ d # c
      BY <2>1, <2>5, <2>6, <3>2, <3>3 DEF l
    <3>5. Flatten(r) = Flatten(ls) \ {c}
      BY <3>2, <3>4, FlattenIs
    <3> QED BY <3>2, <3>5 DEF r
  <2>11. CASE j # 0 /\ Len(l.services) # 1
    <3> DEFINE k == [l EXCEPT !.services = RemoveAt(@, j)]
    <3>1. r = [ls EXCEPT ![i] = k]
      BY <2>7, <2>11
    <3>2. /\ k \in Links /\ Path(k) = Path(l)
          /\ ToSet(k.services) = ToSet(l.services) \ {c.service}
          /\ k.services # <<>> /\ IsInjective(k.services)
      BY <2>2, <2>8, <2>11, DropServiceIs
    <3> HIDE DEF k
    <3>3. /\ r \in Seq(Links) /\ InOrder(r)
          /\ \A d \in Entries :
               d \in Flatten(r) <=> IF Path(d) = Path(k)
                                    THEN d.service \in ToSet(k.services)
                                    ELSE d \in Flatten(ls)
      BY <2>1, <3>1, <3>2, ReplaceIs DEF l
    <3>4. \A d \in Entries : d \in Flatten(r) <=> d \in Flatten(ls) /\ d # c
      BY <2>1, <2>5, <2>6, <3>2, <3>3
    <3>5. Flatten(r) = Flatten(ls) \ {c}
      BY <3>3, <3>4, FlattenIs
    <3> QED BY <3>3, <3>5 DEF r
  <2> QED BY <2>9, <2>10, <2>11
<1> QED BY <1>3, <1>4

-----------------------------------------------------------------------------
\* The invariant.

\* What a manifest may call for.
Calls(m) == Wanted[m] \cup {<<>>}

\* The list, what the cache shows of it and the copy being changed.
Lists ==
  /\ net # Nil => net \in Seq(Links) /\ InOrder(net)
  /\ cached # Nil => cached \in Seq(Links) /\ InOrder(cached)
  /\ copy # Nil => copy \in Seq(Links) /\ InOrder(copy)

\* What the manifests call for, and what is remembered of them.
Known ==
  /\ DOMAIN wish = Manifests /\ DOMAIN memory = Manifests
  /\ \A m \in Manifests : wish[m] \in Calls(m) /\ memory[m] \in Calls(m)
  /\ pending \subseteq Manifests

\* What the reconciliation is about.
Going ==
  /\ pc \in {"idle", "decide", "fetch", "update"} /\ op \in {"remove", "add"}
  /\ pc # "idle" => cur \in Manifests /\ new \in Calls(cur)
  /\ pc = "update" => copy # Nil /\ todo \in Seq(Conns)

\* With the changes that are left, the copy amounts to the list with all of
\* them, if the list is still the one that was copied.
Versions ==
  /\ "cached" \notin stale => cached = net
  /\ pc = "update" /\ "copy" \notin stale =>
       /\ net # Nil
       /\ op = "add" =>
            Flatten(copy) \cup ToSet(todo) = Flatten(net) \cup ToSet(Asked)
       /\ op # "add" =>
            Flatten(copy) \ ToSet(todo) = Flatten(net) \ ToSet(Asked)

LInv == Lists /\ Known /\ Going /\ Versions

(* A list that a manifest calls for is one of connections.                 *)
LEMMA CallsAreConns ==
  ASSUME NEW m \in Manifests, NEW list \in Calls(m)
  PROVE  list \in Seq(Conns) /\ ToSet(list) \subseteq Conns
<1>1. list \in Seq(Conns)
  BY WantedAssumption, EmptySeq DEF Calls
<1> QED BY <1>1, LenProperties, ElementOfSeq DEF ToSet

(* A list that is gone through is its first element and the rest.          *)
LEMMA HeadAndTail ==
  ASSUME NEW S, NEW s \in Seq(S), s # <<>>
  PROVE  /\ Head(s) \in S /\ Tail(s) \in Seq(S)
         /\ ToSet(s) = {Head(s)} \cup ToSet(Tail(s))
<1> DEFINE n == Len(s)
           t == Tail(s)
<1>1. n \in Nat \ {0} /\ DOMAIN s = 1..n
  BY EmptySeq, LenProperties
<1>2. /\ Head(s) \in S /\ t \in Seq(S) /\ Len(t) = n - 1
      /\ \A i \in 1..(n - 1) : t[i] = s[i + 1]
  BY HeadTailProperties
<1>3. Head(s) = s[1] /\ DOMAIN t = 1..(n - 1)
  BY <1>2, LenProperties
<1> HIDE DEF n, t
<1>4. ASSUME NEW x \in ToSet(s)
      PROVE  x \in {s[1]} \cup ToSet(t)
  <2>1. PICK i \in 1..n : x = s[i]
    BY <1>1 DEF ToSet
  <2>2. CASE i = 1
    BY <2>1, <2>2
  <2>3. CASE i # 1
    <3>1. i - 1 \in 1..(n - 1) /\ (i - 1) + 1 = i
      BY <1>1, <2>3
    <3>2. t[i - 1] = s[i]
      BY <1>2, <3>1
    <3> QED BY <1>3, <2>1, <3>1, <3>2 DEF ToSet
  <2> QED BY <2>2, <2>3
<1>5. ASSUME NEW x \in {s[1]} \cup ToSet(t)
      PROVE  x \in ToSet(s)
  <2>1. CASE x = s[1]
    BY <1>1, <2>1 DEF ToSet
  <2>2. CASE x \in ToSet(t)
    <3>1. PICK i \in 1..(n - 1) : x = t[i]
      BY <1>3, <2>2 DEF ToSet
    <3>2. i + 1 \in 1..n
      BY <1>1
    <3> QED BY <1>1, <1>2, <3>1, <3>2 DEF ToSet
  <2> QED BY <1>5, <2>1, <2>2
<1> QED BY <1>2, <1>3, <1>4, <1>5 DEF t

(* What the reconciliation asks for are connections.                       *)
LEMMA AskedIs ==
  ASSUME LInv, pc # "idle"
  PROVE  Asked \in Seq(Conns) /\ ToSet(Asked) \subseteq Conns
<1>1. cur \in Manifests /\ new \in Calls(cur) /\ memory[cur] \in Calls(cur)
  BY DEF LInv, Going, Known
<1> QED BY <1>1, CallsAreConns DEF Asked

(* A write that is taken adds exactly what is asked for, or removes it     *)
(* (network-connectivity.go:81-87, 113-117).                               *)
LEMMA WriteIs ==
  ASSUME LInv, Write
  PROVE  /\ net \in Seq(Links) /\ net' \in Seq(Links) /\ InOrder(net')
         /\ net # Nil /\ net' # Nil /\ cur \in Manifests /\ pc = "update"
         /\ cached' = cached /\ wish' = wish
         /\ op = "add" => Flatten(net') = Flatten(net) \cup ToSet(Asked)
         /\ op # "add" => Flatten(net') = Flatten(net) \ ToSet(Asked)
<1>1. /\ pc = "update" /\ todo = <<>> /\ "copy" \notin stale /\ net' = copy
      /\ cached' = cached /\ wish' = wish
  BY DEF Write, UpToDate, users
<1>2. copy # Nil /\ cur \in Manifests /\ net # Nil
  BY <1>1 DEF LInv, Going, Versions
<1>3. copy \in Seq(Links) /\ InOrder(copy) /\ net \in Seq(Links)
  BY <1>2 DEF LInv, Lists
<1>4. ToSet(todo) = {}
  BY <1>1 DEF ToSet
<1>5. /\ op = "add" => Flatten(copy) = Flatten(net) \cup ToSet(Asked)
      /\ op # "add" => Flatten(copy) = Flatten(net) \ ToSet(Asked)
  BY <1>1, <1>4 DEF LInv, Versions
<1> QED BY <1>1, <1>2, <1>3, <1>5

(* No list of links is taken for a missing resource.                       *)
LEMMA NilIsNoList == \A ls \in Seq(Links) : ls # Nil
BY NilAssumption

(* A resource that is made has no links, in order.                         *)
LEMMA EmptyList == <<>> \in Seq(Links) /\ InOrder(<<>>) /\ <<>> # Nil
<1>1. <<>> \in Seq(Links)
  BY EmptySeq
<1>2. InOrder(<<>>)
  BY DEF InOrder
<1> QED BY <1>1, <1>2, NilIsNoList

(* The invariant holds when the controller starts: no links, nothing       *)
(* remembered, nothing asked for.                                          *)
LEMMA LInit == Init => LInv
<1> SUFFICES ASSUME Init PROVE LInv
  OBVIOUS
<1>1. Lists /\ Going /\ Versions
  BY DEF Init, Lists, Going, Versions
<1>2. Known
  BY DEF Init, Known, Calls
<1> QED BY <1>1, <1>2 DEF LInv

(* The end of a reconciliation leaves no call to be made.                  *)
LEMMA IdleStep ==
  ASSUME Lists, Idle, net' = net, cached' = cached
  PROVE  Lists' /\ Going'
BY DEF Idle, Lists, Going

(* What manifests call for and what is remembered stay as they are.        *)
LEMMA KnownKept ==
  ASSUME Known, wish' = wish, memory' = memory, pending' \subseteq Manifests
  PROVE  Known'
BY DEF Known, Calls

(* Every step of the reconciler, the users, the cache and the API server   *)
(* keeps the invariant.                                                    *)
LEMMA LStep == LInv /\ [Next]_vars => LInv'
<1> SUFFICES ASSUME LInv, [Next]_vars PROVE LInv'
  OBVIOUS
<1> USE DEF store, users, locals, budgets
<1>1. ASSUME NEW m \in Manifests, Begin(m) PROVE LInv'
  <2>1. /\ pc = "idle" /\ cur' = m /\ new' = wish[m] /\ op' = "remove"
        /\ pc' \in {"fetch", "decide"}
        /\ UNCHANGED <<net, cached, stale, wish, copy, todo, memory>>
        /\ pending' = pending \ {m}
    BY <1>1 DEF Begin, Call
  <2>2. Lists'
    BY <2>1 DEF LInv, Lists
  <2>3. Known'
    BY <2>1 DEF LInv, Known, Calls
  <2>4. Going' /\ Versions'
    BY <2>1 DEF LInv, Known, Going, Versions, Calls
  <2> QED BY <2>2, <2>3, <2>4 DEF LInv
<1>2. ASSUME NEW m \in Manifests, NEW list \in Calls(m),
             wish' \in {wish, [wish EXCEPT ![m] = list]},
             pending' \subseteq pending \cup {m},
             UNCHANGED <<net, cached, stale, pc, op, cur, new, copy, todo, memory>>
      PROVE  LInv'
  <2>1. Lists' /\ Going'
    BY <1>2 DEF LInv, Lists, Going, Calls
  <2>2. Known'
    BY <1>2 DEF LInv, Known, Calls
  <2>3. Asked' = Asked
    BY <1>2 DEF Asked
  <2>4. Versions'
    BY <1>2, <2>3 DEF LInv, Versions, Flatten, ToSet
  <2> QED BY <2>1, <2>2, <2>4 DEF LInv
<1>3. ASSUME GoOn PROVE LInv'
  <2>1. /\ pc = "decide" /\ op' = "add" /\ pc' = "fetch"
        /\ UNCHANGED <<net, cached, stale, wish, pending, cur, new, copy, todo, memory>>
    BY <1>3 DEF GoOn, Call
  <2>2. Lists' /\ Known'
    BY <2>1 DEF LInv, Lists, Known, Calls
  <2>3. Going' /\ Versions'
    BY <2>1 DEF LInv, Going, Versions, Calls
  <2> QED BY <2>2, <2>3 DEF LInv
<1>4. ASSUME Conclude \/ Release PROVE LInv'
  <2>1. /\ pc = "decide" /\ Idle
        /\ memory' \in {memory, [memory EXCEPT ![cur] = new]}
        /\ UNCHANGED <<net, cached, stale, wish, pending>>
    BY <1>4 DEF Conclude, Release
  <2>2. Lists' /\ Going'
    BY <2>1, IdleStep DEF LInv
  <2>3. cur \in Manifests /\ new \in Calls(cur)
    BY <2>1 DEF LInv, Going
  <2>4. Known'
    BY <2>1, <2>3 DEF LInv, Known, Calls
  <2>5. Versions'
    BY <2>1 DEF LInv, Versions, Idle
  <2> QED BY <2>2, <2>4, <2>5 DEF LInv
<1>5. ASSUME FetchNetwork PROVE LInv'
  <2>1. /\ pc = "fetch" /\ cached # Nil /\ copy' = cached /\ todo' = Asked
        /\ pc' = "update"
        /\ stale' = IF "cached" \in stale THEN {"cached", "copy"} ELSE {}
        /\ UNCHANGED <<net, cached, wish, pending, op, cur, new, memory>>
    BY <1>5 DEF FetchNetwork
  <2>2. Lists' /\ Known'
    BY <2>1 DEF LInv, Lists, Known, Calls
  <2>3. Asked' = Asked /\ Asked \in Seq(Conns)
    BY <2>1, AskedIs DEF Asked
  <2>4. Going'
    BY <2>1, <2>3 DEF LInv, Going, Calls
  <2>5. "copy" \notin stale' => copy' = net' /\ net' # Nil
    BY <2>1 DEF LInv, Versions
  <2>6. "cached" \notin stale' => cached' = net'
    BY <2>1 DEF LInv, Versions
  <2>7. ToSet(todo') = ToSet(Asked')
    BY <2>1, <2>3
  <2>8. copy' = net' => Flatten(copy') = Flatten(net')
    OBVIOUS
  <2>9. Versions'
    BY <2>5, <2>6, <2>7, <2>8 DEF Versions
  <2> QED BY <2>2, <2>4, <2>9 DEF LInv
<1>6. ASSUME CreateNetwork PROVE LInv'
  <2>1. /\ pc = "fetch" /\ net' = <<>> /\ copy' = net' /\ todo' = Asked
        /\ pc' = "update" /\ stale' = {"cached"}
        /\ UNCHANGED <<cached, wish, pending, op, cur, new, memory>>
    BY <1>6 DEF CreateNetwork, Make
  <2>2. <<>> \in Seq(Links) /\ InOrder(<<>>) /\ <<>> # Nil
    BY EmptyList
  <2>3. Lists' /\ Known'
    BY <2>1, <2>2 DEF LInv, Lists, Known, Calls
  <2>4. Asked' = Asked /\ Asked \in Seq(Conns)
    BY <2>1, AskedIs DEF Asked
  <2>5. Going'
    BY <2>1, <2>2, <2>4 DEF LInv, Going, Calls
  <2>6. ToSet(todo') = ToSet(Asked') /\ Flatten(copy') = Flatten(net')
    BY <2>1, <2>4
  <2>7. Versions'
    BY <2>1, <2>2, <2>6 DEF Versions
  <2> QED BY <2>3, <2>5, <2>7 DEF LInv
<1>7. ASSUME EditLink PROVE LInv'
  <2> DEFINE c == Head(todo)
  <2>1. /\ pc = "update" /\ todo # <<>> /\ todo' = Tail(todo)
        /\ copy' = IF op = "add" THEN AddConnection(copy, c)
                   ELSE RemoveConnection(copy, c)
        /\ UNCHANGED <<net, cached, stale, wish, pending, pc, op, cur, new, memory>>
    BY <1>7 DEF EditLink
  <2>2. /\ copy # Nil /\ copy \in Seq(Links) /\ InOrder(copy) /\ todo \in Seq(Conns)
    BY <2>1 DEF LInv, Lists, Going
  <2>3. /\ c \in Conns /\ todo' \in Seq(Conns)
        /\ ToSet(todo) = {c} \cup ToSet(todo')
    BY <2>1, <2>2, HeadAndTail
  <2> HIDE DEF c
  <2>4. /\ copy' \in Seq(Links) /\ InOrder(copy') /\ copy' # Nil
        /\ op = "add" => Flatten(copy') = Flatten(copy) \cup {c}
        /\ op # "add" => Flatten(copy') = Flatten(copy) \ {c}
    <3>1. CASE op = "add"
      BY <2>1, <2>2, <2>3, <3>1, AddConnectionIs, NilIsNoList
    <3>2. CASE op # "add"
      BY <2>1, <2>2, <2>3, <3>2, RemoveConnectionIs, NilIsNoList
    <3> QED BY <3>1, <3>2
  <2>5. Lists' /\ Known'
    BY <2>1, <2>4 DEF LInv, Lists, Known, Calls
  <2>6. Going'
    BY <2>1, <2>3, <2>4 DEF LInv, Going, Calls
  <2>7. ToSet(Asked') = ToSet(Asked) /\ Flatten(net') = Flatten(net)
    BY <2>1 DEF Asked
  <2>8. /\ op = "add" => Flatten(copy') \cup ToSet(todo') =
                           Flatten(copy) \cup ToSet(todo)
        /\ op # "add" => Flatten(copy') \ ToSet(todo') =
                           Flatten(copy) \ ToSet(todo)
    BY <2>3, <2>4
  <2>9. Versions'
    BY <2>1, <2>7, <2>8 DEF LInv, Versions
  <2> QED BY <2>5, <2>6, <2>9 DEF LInv
<1>8. ASSUME Write, cached' = cached
      PROVE  /\ "cached" \notin stale' => cached' = net'
             /\ net' \in Seq(Links) /\ InOrder(net')
  <2>1. stale' = IF net' = net THEN stale ELSE {"cached"}
    BY <1>8 DEF Write
  <2> QED BY <1>8, <2>1, WriteIs DEF LInv, Versions
<1>9. ASSUME UpdateNetwork PROVE LInv'
  <2>1. /\ Write /\ pc' = "decide" /\ copy' = Nil
        /\ memory' \in {memory, [memory EXCEPT ![cur] = <<>>]}
        /\ UNCHANGED <<pending, op, cur, new>>
    BY <1>9 DEF UpdateNetwork
  <2>2. /\ cur \in Manifests /\ pc = "update"
        /\ cached' = cached /\ wish' = wish
    BY <2>1, WriteIs
  <2>3. Lists' /\ Known'
    BY <1>8, <2>1, <2>2 DEF LInv, Lists, Known, Calls
  <2>4. Going' /\ Versions'
    BY <1>8, <2>1, <2>2 DEF LInv, Going, Versions, Calls
  <2> QED BY <2>3, <2>4 DEF LInv
<1>10. ASSUME Err, pc # "idle", wish' = wish, memory' = memory PROVE Known'
  <2>1. cur \in Manifests
    BY <1>10 DEF LInv, Going
  <2>2. pending' \subseteq Manifests
    BY <1>10, <2>1 DEF LInv, Known, Err
  <2> QED BY <1>10, <2>2, KnownKept DEF LInv
<1>11. ASSUME Err, pc # "idle", stale' = stale \ {"copy"},
              UNCHANGED <<net, cached, wish, memory>>
       PROVE  LInv'
  <2>1. Lists' /\ Going'
    BY <1>11, IdleStep DEF LInv, Err
  <2>2. Known'
    BY <1>10, <1>11
  <2>3. Versions'
    BY <1>11 DEF LInv, Versions, Err, Idle
  <2> QED BY <2>1, <2>2, <2>3 DEF LInv
<1>12. ASSUME Refused PROVE LInv'
  BY <1>11, <1>12 DEF Refused
<1>13. ASSUME CallFails PROVE LInv'
  <2>1. CASE Write /\ memory' = memory
    <3>1. /\ Err /\ Idle /\ wish' = wish /\ memory' = memory /\ cached' = cached
          /\ pc # "idle"
      BY <1>13, <2>1, WriteIs DEF CallFails, Err
    <3>2. Known'
      BY <1>10, <3>1
    <3>3. Lists' /\ Going' /\ Versions'
      BY <1>8, <2>1, <3>1 DEF LInv, Lists, Going, Versions, Idle
    <3> QED BY <3>2, <3>3 DEF LInv
  <2>2. CASE Make
    <3>1. /\ Err /\ Idle /\ pc # "idle" /\ net' = <<>> /\ stale' = {"cached"}
          /\ UNCHANGED <<cached, wish, memory>>
      BY <1>13, <2>2 DEF CallFails, Err, Make
    <3>2. Known'
      BY <1>10, <3>1
    <3>3. Lists' /\ Going' /\ Versions'
      BY <3>1, EmptyList DEF LInv, Lists, Going, Versions, Idle
    <3> QED BY <3>2, <3>3 DEF LInv
  <2>3. CASE ~(Write /\ memory' = memory) /\ ~Make
    BY <1>11, <1>13, <2>3 DEF CallFails
  <2> QED BY <2>1, <2>2, <2>3
<1>14. ASSUME Restart PROVE LInv'
  <2>1. /\ memory' = [m \in Manifests |-> <<>>] /\ pending' \subseteq Manifests /\ Idle
        /\ cached' = net /\ stale' = {} /\ net' = net /\ wish' = wish
    BY <1>14 DEF Restart
  <2>2. Known'
    BY <2>1 DEF LInv, Known, Calls
  <2>3. Lists' /\ Going' /\ Versions'
    BY <2>1 DEF LInv, Lists, Going, Versions, Idle
  <2> QED BY <2>2, <2>3 DEF LInv
<1>15. ASSUME CacheSync PROVE LInv'
  <2>1. /\ cached' = net /\ stale' = stale \ {"cached"}
        /\ UNCHANGED <<net, wish, pending, pc, op, cur, new, copy, todo, memory>>
    BY <1>15 DEF CacheSync
  <2>2. Lists' /\ Known'
    BY <2>1 DEF LInv, Lists, Known, Calls
  <2>3. Going'
    BY <2>1 DEF LInv, Going, Calls
  <2>4. Asked' = Asked
    BY <2>1 DEF Asked
  <2>5. Versions'
    BY <2>1, <2>4 DEF LInv, Versions
  <2> QED BY <2>2, <2>3, <2>5 DEF LInv
<1>16. ASSUME UNCHANGED vars PROVE LInv'
  <2>1. UNCHANGED <<net, cached, stale, wish, pending, pc, op, cur, new, copy,
                    todo, memory>>
    BY <1>16 DEF vars
  <2>2. Lists' /\ Known'
    BY <2>1 DEF LInv, Lists, Known, Calls
  <2>3. Going'
    BY <2>1 DEF LInv, Going, Calls
  <2>4. Asked' = Asked
    BY <2>1 DEF Asked
  <2>5. Versions'
    BY <2>1, <2>4 DEF LInv, Versions
  <2> QED BY <2>2, <2>3, <2>5 DEF LInv
<1>17. ASSUME NEW m \in Manifests, NEW list \in Wanted[m], Change(m, list) PROVE LInv'
  <2>1. /\ list \in Calls(m) /\ wish' = [wish EXCEPT ![m] = list]
        /\ pending' = pending \cup {m}
        /\ UNCHANGED <<net, cached, stale, pc, op, cur, new, copy, todo, memory>>
    BY <1>17 DEF Change, UserStep, Calls
  <2> QED BY <1>2, <2>1
<1>18. ASSUME NEW m \in Manifests, Delete(m) \/ NothingThere(m) PROVE LInv'
  <2>1. /\ <<>> \in Calls(m) /\ wish' \in {wish, [wish EXCEPT ![m] = <<>>]}
        /\ pending' \subseteq pending \cup {m}
        /\ UNCHANGED <<net, cached, stale, pc, op, cur, new, copy, todo, memory>>
    BY <1>18 DEF Delete, NothingThere, UserStep, Calls
  <2> QED BY <1>2, <2>1
<1> QED BY <1>1, <1>3, <1>4, <1>5, <1>6, <1>7, <1>9, <1>12, <1>13,
           <1>14, <1>15, <1>16, <1>17, <1>18 DEF Next, Work

LEMMA LInvariant == Spec => []LInv
<1>1. Init => LInv
  BY LInit
<1>2. LInv /\ [Next]_vars => LInv'
  BY LStep
<1> QED BY <1>1, <1>2, PTL DEF Spec

-----------------------------------------------------------------------------
\* What the invariant gives.

(* The list of links is in order: one link for a pair of locations, none   *)
(* that is empty, no service twice.  The code looks for the first link of  *)
(* a path and changes that one (network-connectivity.go:208-215).          *)
THEOREM LinksInOrder == Spec => []WellFormed
<1>1. LInv => WellFormed
  <2>1. InOrder(<<>>)
    BY DEF InOrder
  <2> QED BY <2>1 DEF LInv, Lists, WellFormed, Listed
<1> QED BY <1>1, LInvariant, PTL

(* What a write that is taken does to what the links connect.              *)
LEMMA WrittenIs ==
  ASSUME LInv, Write
  PROVE  /\ op = "add" => Flatten(Listed') = Flatten(Listed) \cup ToSet(Asked)
         /\ op # "add" => Flatten(Listed') = Flatten(Listed) \ ToSet(Asked)
<1>1. Listed' = net' /\ Listed = net
  BY WriteIs DEF Listed
<1> QED BY <1>1, WriteIs

(* All other steps leave it alone.                                         *)
LEMMA OthersKeep ==
  ASSUME LInv, [Next]_vars, ~ Write
  PROVE  Flatten(Listed') = Flatten(Listed)
<1> USE DEF store
<1>1. CASE Make
  BY <1>1 DEF Make, Listed
<1>2. CASE net' = net
  BY <1>2 DEF Listed
<1>3. Make \/ net' = net
  BY DEF Next, Work, Begin, NothingThere, Change, Delete, GoOn, Conclude, Release,
         FetchNetwork, CreateNetwork, EditLink, UpdateNetwork, Refused, CallFails,
         Restart, CacheSync, vars
<1> QED BY <1>1, <1>2, <1>3

(* The record of what was written changes with a write only.               *)
LEMMA DueKept ==
  ASSUME [Next]_vars, ~ Write
  PROVE  due' = due
BY DEF Next, Work, Begin, NothingThere, Change, Delete, GoOn, Conclude, Release,
       FetchNetwork, CreateNetwork, Make, EditLink, UpdateNetwork, Refused, CallFails,
       Restart, CacheSync, vars

(* Whatever other manifests write, and from however old a copy, what was   *)
(* written for a manifest stays until it is deleted for it, unless another *)
(* manifest calls for the same connection (network-connectivity.go:81-87,  *)
(* 98-110).                                                                *)
THEOREM OwnLinksStay == Spec => []OwnLinksServe
<1> DEFINE Typed == DOMAIN due = Manifests
<1>1. Init => OwnLinksServe /\ Typed
  BY DEF Init, OwnLinksServe
<1>2. LInv /\ OwnLinksServe /\ Typed /\ [Next]_vars => (OwnLinksServe /\ Typed)'
  <2> SUFFICES ASSUME LInv, OwnLinksServe, Typed, [Next]_vars
               PROVE  (OwnLinksServe /\ Typed)'
    OBVIOUS
  <2>1. CASE ~ Write
    BY <2>1, OthersKeep, DueKept DEF OwnLinksServe, Private
  <2>2. CASE Write
    <3>1. /\ due' = [due EXCEPT ![cur] = IF op = "add" THEN @ \cup ToSet(Asked)
                                          ELSE @ \ ToSet(Asked)]
          /\ cur \in Manifests /\ pc # "idle"
      BY <2>2, WriteIs DEF Write
    <3>2. memory[cur] \in Calls(cur)
      BY <3>1 DEF LInv, Known
    <3>3. ASSUME NEW m \in Manifests, NEW c \in due'[m], Private(m, c)
          PROVE  c \in Flatten(Listed')
      <4>1. CASE op = "add"
        <5>1. Flatten(Listed') = Flatten(Listed) \cup ToSet(Asked)
          BY <2>2, <4>1, WrittenIs
        <5>2. c \in due[m] \/ c \in ToSet(Asked)
          BY <3>1, <3>3, <4>1
        <5> QED BY <3>3, <5>1, <5>2 DEF OwnLinksServe
      <4>2. CASE op # "add"
        <5>1. /\ Flatten(Listed') = Flatten(Listed) \ ToSet(Asked)
              /\ Asked = memory[cur]
          BY <2>2, <4>2, WrittenIs DEF Asked
        <5>2. c \in due[m] /\ (m = cur => c \notin ToSet(Asked))
          BY <3>1, <3>3, <4>2
        <5>3. c \in Flatten(Listed)
          BY <3>3, <5>2 DEF OwnLinksServe
        <5>4. c \notin ToSet(Asked)
          <6>1. CASE memory[cur] = <<>>
            BY <5>1, <6>1 DEF ToSet
          <6>2. CASE memory[cur] \in Wanted[cur]
            BY <3>1, <3>3, <5>1, <5>2, <6>2 DEF Private
          <6> QED BY <3>2, <6>1, <6>2 DEF Calls
        <5> QED BY <5>1, <5>3, <5>4
      <4> QED BY <4>1, <4>2
    <3>4. OwnLinksServe'
      BY <3>3 DEF OwnLinksServe, Private
    <3> QED BY <3>1, <3>4
  <2> QED BY <2>1, <2>2
<1> QED BY <1>1, <1>2, LInvariant, PTL DEF Spec

-----------------------------------------------------------------------------
\* The list implements a set of connections.

(* A request is never taken for none.                                      *)
LEMMA RequestIs ==
  ASSUME LInv, pc \in {"fetch", "update"}
  PROVE  /\ Request = [op |-> op, set |-> ToSet(Asked)]
         /\ op \in {"add", "remove"} /\ ToSet(Asked) \in SUBSET Conns
         /\ Request # Nil
<1>1. Request = [op |-> op, set |-> ToSet(Asked)]
  BY DEF Request
<1>2. op \in {"add", "remove"} /\ ToSet(Asked) \in SUBSET Conns
  BY AskedIs DEF LInv, Going
<1>3. Request \in Requests
  BY <1>1, <1>2 DEF Requests
<1> QED BY <1>1, <1>2, <1>3, NilAssumption

(* A reconciliation that turns to the list asks, one that makes no call    *)
(* leaves everything as it is.                                             *)
LEMMA AskStep ==
  ASSUME LInv, LInv', Flatten(Listed') = Flatten(Listed),
         pc \notin {"fetch", "update"}
  PROVE  AsSet!Next \/ UNCHANGED AsSet!linkSetVars
<1>1. Request = Nil
  BY DEF Request
<1>2. CASE pc' \in {"fetch", "update"}
  <2>1. /\ Request' = [op |-> op', set |-> ToSet(Asked')]
        /\ op' \in {"add", "remove"} /\ ToSet(Asked') \in SUBSET Conns
    <3>1. Request' = [op |-> op', set |-> ToSet(Asked')]
      BY <1>2 DEF Request
    <3>2. /\ op' \in {"add", "remove"} /\ cur' \in Manifests
          /\ new' \in Calls(cur') /\ memory'[cur'] \in Calls(cur')
      BY <1>2 DEF LInv, Going, Known, Calls
    <3>3. ToSet(Asked') \subseteq Conns
      BY <3>2, CallsAreConns DEF Asked
    <3> QED BY <3>1, <3>2, <3>3
  <2> QED BY <1>1, <2>1 DEF AsSet!Next, AsSet!Ask
<1>3. CASE pc' \notin {"fetch", "update"}
  <2>1. Request' = Nil
    BY <1>3 DEF Request
  <2> QED BY <1>1, <2>1 DEF AsSet!linkSetVars
<1> QED BY <1>2, <1>3

(* A step on the way to the write is none of the set, and a request that   *)
(* ends in an error without a write is withdrawn.                          *)
LEMMA WithdrawStep ==
  ASSUME LInv, Flatten(Listed') = Flatten(Listed),
         pc \in {"fetch", "update"},
         \/ pc' \notin {"fetch", "update"}
         \/ pc' \in {"fetch", "update"} /\ op' = op /\ Asked' = Asked
  PROVE  AsSet!Next \/ UNCHANGED AsSet!linkSetVars
<1>1. Request # Nil
  BY RequestIs
<1>2. CASE pc' \notin {"fetch", "update"}
  <2>1. Request' = Nil
    BY <1>2 DEF Request
  <2> QED BY <1>1, <2>1 DEF AsSet!Next, AsSet!Withdraw
<1>3. CASE pc' \in {"fetch", "update"} /\ op' = op /\ Asked' = Asked
  <2>1. Request' = Request
    BY <1>3 DEF Request
  <2> QED BY <2>1 DEF AsSet!linkSetVars
<1> QED BY <1>2, <1>3

(* A write serves the request.                                             *)
LEMMA ServeStep ==
  ASSUME LInv, Write, pc' \notin {"fetch", "update"}
  PROVE  AsSet!Next
<1>1. pc = "update"
  BY WriteIs
<1>2. Request = [op |-> op, set |-> ToSet(Asked)] /\ Request # Nil
  BY <1>1, RequestIs
<1>3. Request' = Nil
  BY DEF Request
<1>4. Flatten(Listed') = IF Request.op = "add"
                         THEN Flatten(Listed) \cup Request.set
                         ELSE Flatten(Listed) \ Request.set
  BY <1>2, WrittenIs
<1> QED BY <1>2, <1>3, <1>4 DEF AsSet!Next, AsSet!Serve

(* With its copies, versions, lost answers and retries the list amounts to *)
(* a set to which all the connections of a request are added, or from      *)
(* which all are taken, in one step and exactly, or to which nothing       *)
(* happens (network-connectivity.go:51-118).                               *)
THEOREM LinkSetImplemented == Spec => ImplementsLinkSet
<1>1. Init => AsSet!Init
  BY DEF Init, AsSet!Init, Listed, Flatten, Request
<1>2. LInv /\ LInv' /\ [Next]_vars => [AsSet!Next]_AsSet!linkSetVars
  <2> SUFFICES ASSUME LInv, LInv', [Next]_vars
               PROVE  AsSet!Next \/ UNCHANGED AsSet!linkSetVars
    OBVIOUS
  <2>1. CASE pc \notin {"fetch", "update"}
    <3>1. ~ Write
      BY <2>1 DEF Write
    <3> QED BY <2>1, <3>1, OthersKeep, AskStep
  <2>2. CASE pc \in {"fetch", "update"} /\ pc' \notin {"fetch", "update"}
    <3>1. CASE Write
      BY <2>2, <3>1, ServeStep
    <3>2. CASE ~ Write
      BY <2>2, <3>2, OthersKeep, WithdrawStep
    <3> QED BY <3>1, <3>2
  <2>3. CASE pc \in {"fetch", "update"} /\ pc' \in {"fetch", "update"}
    <3>1. \/ \E m \in Manifests : Delete(m) \/ \E list \in Wanted[m] : Change(m, list)
          \/ FetchNetwork \/ CreateNetwork \/ EditLink \/ CacheSync
          \/ UNCHANGED vars
      BY <2>3 DEF Next, Work, Begin, NothingThere, GoOn, Conclude, Release,
         UpdateNetwork, Refused, CallFails, Restart, Err, Idle
    <3>2. op' = op /\ Asked' = Asked
      BY <3>1 DEF Change, Delete, FetchNetwork, CreateNetwork, Make, EditLink,
         CacheSync, vars, locals, Asked
    <3>3. Make \/ net' = net
      BY <3>1 DEF Change, Delete, FetchNetwork, CreateNetwork, EditLink, CacheSync,
         vars, store
    <3>4. Flatten(Listed') = Flatten(Listed)
      BY <3>3 DEF Make, Listed
    <3> QED BY <2>3, <3>2, <3>4, WithdrawStep
  <2> QED BY <2>1, <2>2, <2>3
<1> QED BY <1>1, <1>2, LInvariant, PTL DEF Spec, ImplementsLinkSet, AsSet!Spec
=============================================================================
