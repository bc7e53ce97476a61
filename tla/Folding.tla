-------------------------------- MODULE Folding --------------------------------
(***************************************************************************)
(* A loop over a list, for any step.  FoldLeft is how the loops of         *)
(* resourceset.go, annotations.go and bundle.go that build something up    *)
(* are modelled; here is what it computes, index by index.  The step and   *)
(* what the loop starts with are parameters of the module, to be given by  *)
(* instances, as a theorem cannot be about an operator it does not know.   *)
(***************************************************************************)
EXTENDS SequencesExt, SequenceTheorems, WellFoundedInduction, TLAPS

CONSTANTS op(_, _),    \* one turn of the loop: what there is, and an element
          base         \* what there is before the first

\* A set of naturals with 0 in it, and with each index the next, has them all.
LEMMA UpTo ==
  ASSUME NEW n \in Nat, NEW T, 0 \in T, \A i \in 1..n : i - 1 \in T => i \in T
  PROVE  0..n \subseteq T
<1> DEFINE U == {i \in 0..n : i \notin T}
           R == OpToRel(<, Nat)
<1> SUFFICES ASSUME U # {} PROVE FALSE
  OBVIOUS
<1>1. U \subseteq Nat
  OBVIOUS
<1> HIDE DEF U
<1>2. PICK x \in U : \A y \in U : ~(<<y, x>> \in R)
  BY ONLY <1>1, U # {}, WFMin, NatLessThanWellFounded
<1>3. x \in 0..n /\ x \notin T
  BY <1>2 DEF U
<1>4. x \in 1..n /\ x - 1 \in 0..n /\ x - 1 < x
  BY <1>3
<1>5. x - 1 \notin T
  BY <1>3, <1>4
<1>6. x - 1 \in U
  BY <1>4, <1>5 DEF U
<1>7. <<x - 1, x>> \in R
  BY <1>1, <1>2, <1>4, <1>6 DEF OpToRel
<1> QED BY <1>2, <1>6, <1>7

\* The last index is the greatest.
LEMMA MaxIs ==
  ASSUME NEW n \in Nat, NEW X \in SUBSET (1..n), n \in X
  PROVE  Max(X) = n
<1>1. \A y \in X : n >= y
  OBVIOUS
<1>2. \A x \in X : (\A y \in X : x >= y) => x = n
  OBVIOUS
<1> QED BY <1>1, <1>2 DEF Max

\* The function by which FoldLeft is defined, on the sets of indices up to n.
Table(s, n) ==
  CHOOSE it : it = [X \in SUBSET (1..n) |-> IF X = {} THEN base
                                            ELSE op(it[X \ {Max(X)}], s[Max(X)])]

LEMMA TableExists ==
  ASSUME NEW s, NEW n \in Nat
  PROVE  \E it : it = [X \in SUBSET (1..n) |-> IF X = {} THEN base
                                               ELSE op(it[X \ {Max(X)}], s[Max(X)])]
<1> DEFINE Is(it, k) == it = [X \in SUBSET (1..k) |-> IF X = {} THEN base
                                                      ELSE op(it[X \ {Max(X)}], s[Max(X)])]
           T == {k \in 0..n : \E it : Is(it, k)}
<1>1. 0 \in T
  <2> DEFINE it == [X \in SUBSET (1..0) |-> base]
  <2>1. \A X \in SUBSET (1..0) : X = {}
    OBVIOUS
  <2>2. Is(it, 0)
    BY <2>1
  <2> QED BY <2>2
<1>2. ASSUME NEW i \in 1..n, i - 1 \in T
      PROVE  i \in T
  <2>1. PICK it : Is(it, i - 1)
    BY <1>2
  <2> DEFINE new == [X \in SUBSET (1..i) |-> IF i \in X THEN op(it[X \ {i}], s[i]) ELSE it[X]]
  <2>2. ASSUME NEW X \in SUBSET (1..i)
        PROVE  new[X] = IF X = {} THEN base ELSE op(new[X \ {Max(X)}], s[Max(X)])
    <3>1. CASE i \in X
      <4>1. Max(X) = i
        BY <3>1, MaxIs
      <4>2. X \ {i} \in SUBSET (1..i) /\ i \notin X \ {i}
        OBVIOUS
      <4>3. new[X \ {i}] = it[X \ {i}]
        BY <4>2
      <4> QED BY <3>1, <4>1, <4>3
    <3>2. CASE i \notin X
      <4>1. X \in SUBSET (1..(i - 1))
        BY <3>2
      <4>2. it[X] = IF X = {} THEN base ELSE op(it[X \ {Max(X)}], s[Max(X)])
        BY <2>1, <4>1
      <4>3. X \ {Max(X)} \in SUBSET (1..i) /\ i \notin X \ {Max(X)}
        BY <3>2
      <4>4. new[X \ {Max(X)}] = it[X \ {Max(X)}]
        BY <4>3
      <4> QED BY <3>2, <4>2, <4>4
    <3> QED BY <3>1, <3>2
  <2>3. new = [X \in SUBSET (1..i) |-> new[X]]
    OBVIOUS
  <2> HIDE DEF new
  <2>4. Is(new, i)
    BY <2>2, <2>3
  <2> QED BY <2>4
<1> HIDE DEF T
<1>3. n \in T
  <2>1. 0..n \subseteq T
    BY <1>1, <1>2, UpTo
  <2> QED BY <2>1
<1> QED BY <1>3 DEF T

\* A loop over a list goes from the base to its result in one turn for each
\* element, from left to right.
THEOREM Turns ==
  ASSUME NEW S, NEW s \in Seq(S)
  PROVE  \E f : /\ f = [i \in 0..Len(s) |-> f[i]]
                /\ f[0] = base
                /\ \A i \in 1..Len(s) : f[i] = op(f[i - 1], s[i])
                /\ f[Len(s)] = FoldLeft(op, base, s)
<1> DEFINE n == Len(s)
           t == Table(s, n)
           f == [i \in 0..n |-> t[1..i]]
<1>1. n \in Nat /\ DOMAIN s = 1..n
  BY LenProperties
<1>2. t = [X \in SUBSET (1..n) |-> IF X = {} THEN base ELSE op(t[X \ {Max(X)}], s[Max(X)])]
  BY <1>1, TableExists DEF Table
<1>3. FoldLeft(op, base, s) = t[1..n]
  BY <1>1 DEF FoldLeft, MapThenFoldSet, Table
<1> HIDE DEF t
<1>4. f[0] = base
  <2>1. 1..0 = {}
    OBVIOUS
  <2> QED BY <1>1, <1>2, <2>1
<1>5. ASSUME NEW i \in 1..n
      PROVE  f[i] = op(f[i - 1], s[i])
  <2>1. 1..i \in SUBSET (1..n) /\ i \in 1..i /\ (1..i) \ {i} = 1..(i - 1) /\ i \in Nat
    BY <1>1
  <2>2. Max(1..i) = i
    BY <2>1, MaxIs
  <2>3. t[1..i] = op(t[1..(i - 1)], s[i])
    BY <1>2, <2>1, <2>2
  <2> QED BY <1>1, <2>3
<1>6. f[n] = FoldLeft(op, base, s)
  BY <1>1, <1>3
<1>7. f = [i \in 0..n |-> f[i]]
  OBVIOUS
<1> HIDE DEF f
<1> QED BY <1>4, <1>5, <1>6, <1>7
=============================================================================
