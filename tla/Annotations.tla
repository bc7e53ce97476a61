----------------------------- MODULE Annotations -----------------------------
(***************************************************************************)
(* The annotations of a manifest, annotations.go.                          *)
(*                                                                         *)
(* An annotation is what splitting it at each "=" yields: a sequence of at *)
(* least one part.  The first is its key, the second, if there is one, its *)
(* value, and what follows a second "=" is ignored.  An annotation of one  *)
(* part makes the code read past the end where it needs the value; the     *)
(* panic ends the reconciliation like an error and it is tried again.      *)
(***************************************************************************)
EXTENDS SequencesExt

CONSTANT FilterKeys    \* the keys in use that begin with "p2code.filter"

TargetClusterSetKey == "p2code.target.managedClusterSet"
TargetClusterKey    == "p2code.target.cluster"

IsFilter(a) == a[1] \in FilterKeys
IsTarget(a) == a[1] \in {TargetClusterSetKey, TargetClusterKey}

IsAnnotationSupported(a) == IsTarget(a) \/ IsFilter(a)

\* Over all annotations of a manifest, global and per workload.
AnnotationsSupported(global, perWorkload) ==
  /\ \A a \in ToSet(global) : IsAnnotationSupported(a)
  /\ \A e \in ToSet(perWorkload) :
       \A a \in ToSet(e.annotations) : IsAnnotationSupported(a)

\* The rules a list of annotations asks for, and whether that panics.
RulesPanic(as) == \E a \in ToSet(as) : IsFilter(a) /\ Len(a) = 1

ExtractPlacementRules(as) ==
  FoldLeft(LAMBDA rules, a : IF IsFilter(a) THEN Append(rules, SubSeq(a, 1, 2)) ELSE rules,
           <<>>, as)

\* The last target annotation of each kind counts, "" is none.
TargetPanics(as) == \E a \in ToSet(as) : IsTarget(a) /\ Len(a) = 1

LastValue(as, key) ==
  LET i == SelectLastInSeq(as, LAMBDA a : a[1] = key)
  IN  IF i = 0 THEN "" ELSE as[i][2]

TargetClusterSet(as) == LastValue(as, TargetClusterSetKey)
TargetCluster(as)    == LastValue(as, TargetClusterKey)

\* What is wrong with the annotations of one workload: all must be filters and
\* the workload must be there.  The panic comes first.
WorkloadAnnotationFault(e, isWorkload) ==
  IF RulesPanic(e.annotations) THEN "retry"
  ELSE IF Len(ExtractPlacementRules(e.annotations)) # Len(e.annotations)
          \/ ~isWorkload
  THEN "misconfigured" ELSE "none"
=============================================================================
