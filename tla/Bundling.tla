------------------------------- MODULE Bundling -------------------------------
(***************************************************************************)
(* From a manifest as users write it to the bundles that are scheduled:    *)
(* bundle.go and the checks of Reconcile around it.  This is what module   *)
(* Scheduler takes as given with each spec.                                *)
(*                                                                         *)
(* A manifest is [name, manifests, global, perWorkload]: its resources, its *)
(* global annotations and its workload annotations [name, annotations], as *)
(* sequences.  The checks of the target cluster set, which come between    *)
(* the annotations and the resources, are in module Scheduler.             *)
(***************************************************************************)
EXTENDS Analysis, Annotations

\* The first of a sequence of faults is what stops the scheduler.
FirstFault(faults) ==
  LET i == SelectInSeq(faults, LAMBDA f : f # "none")
  IN  IF i = 0 THEN "none" ELSE faults[i]

ListedWorkloads(m) == WorkloadsOf(BulkConvertToResourceSet(m.manifests))
Wrong_Ancillaries(m) ==
  LET rs == BulkConvertToResourceSet(m.manifests)
  IN  AncillariesOf(SubSeq(rs, SelectInSeq(rs, IsWorkload) + 1, Len(rs)))

Ancillaries(m) == AncillariesOf(BulkConvertToResourceSet(m.manifests))

\* Each stage and the faults it can meet, in the order of the code.
AnnotationFaults(m) ==
  <<IF ~AnnotationsSupported(m.global, m.perWorkload) THEN "misconfigured" ELSE "none",
    IF TargetPanics(m.global) THEN "retry"
    ELSE IF TargetClusterSet(m.global) = "" THEN "misconfigured" ELSE "none">>

ConversionFaults(m) == [i \in DOMAIN m.manifests |-> ManifestFault(m.manifests[i])]

GlobalRulesFault(m) == <<IF RulesPanic(m.global) THEN "retry" ELSE "none">>

AssignmentFaults(m) ==
  [i \in DOMAIN m.perWorkload |->
     WorkloadAnnotationFault(m.perWorkload[i],
       FindWorkload(ListedWorkloads(m), m.perWorkload[i].name) # {})]

AnalysisFaults(m) ==
  [i \in DOMAIN ListedWorkloads(m) |-> AnalysisFault(ListedWorkloads(m)[i], Ancillaries(m))]

\* Whether all goes to one cluster the user names.  Nothing but the target is
\* then read of the annotations.
IsTargeted(m) == TargetCluster(m.global) # ""

Outcome(m) ==
  LET entry == FirstFault(AnnotationFaults(m) \o ConversionFaults(m))
  IN  IF entry # "none" \/ IsTargeted(m) THEN entry
      ELSE FirstFault(GlobalRulesFault(m) \o AssignmentFaults(m)
                        \o IF m.perWorkload = <<>> THEN <<>> ELSE AnalysisFaults(m))

-----------------------------------------------------------------------------
\* The bundles of a manifest without faults.

\* The annotations of the last entry that names the workload; of two workloads
\* with one name it is always the first that is meant.
Wrong_AnnotationsOf(w, m) ==
  IF m.perWorkload[1].name = w.name THEN m.perWorkload[1].annotations ELSE <<>>

AnnotationsOf(w, m) ==
  LET i == SelectLastInSeq(m.perWorkload,
             LAMBDA e : FindWorkload(ListedWorkloads(m), e.name) = {w})
  IN  IF i = 0 THEN <<>> ELSE m.perWorkload[i].annotations

WorkloadBundleOf(w, m) ==
  LET found == AnalyseWorkload(w, Ancillaries(m))
  IN  [name      |-> w.name,
       rules     |-> ExtractPlacementRules(m.global)
                       \o ExtractPlacementRules(AnnotationsOf(w, m)),
       resources |-> {w} \cup found.resources,
       absent    |-> found.absent,
       calls     |-> w.calls]

BundleOfAll(name, rules, m) ==
  [name |-> name, rules |-> rules, absent |-> {}, calls |-> {},
   resources |-> ToSet(BulkConvertToResourceSet(m.manifests))]

\* A bundle takes the place of one with its name.
PutBundle(bs, b) ==
  IF \E i \in DOMAIN bs : bs[i].name = b.name
  THEN [i \in DOMAIN bs |-> IF bs[i].name = b.name THEN b ELSE bs[i]]
  ELSE Append(bs, b)

WorkloadBundles(m) ==
  [i \in DOMAIN ListedWorkloads(m) |-> WorkloadBundleOf(ListedWorkloads(m)[i], m)]

BuildBundles(m) ==
  IF IsTargeted(m) THEN <<BundleOfAll(m.name, <<>>, m)>>
  ELSE IF m.perWorkload # <<>> THEN FoldLeft(PutBundle, <<>>, WorkloadBundles(m))
  ELSE LET rules == ExtractPlacementRules(m.global)
       IN  <<BundleOfAll(IF rules = <<>> THEN "default" ELSE "global", rules, m)>>

\* The warning about manifests that are in no bundle: their number against the
\* number of resources in all bundles.
PlacedManifests(bs) == FoldLeft(LAMBDA n, b : n + Cardinality(b.resources), 0, bs)

Wrong_OrphansReported(m) == Len(m.manifests) >= PlacedManifests(BuildBundles(m))

OrphansReported(m) == Len(m.manifests) > PlacedManifests(BuildBundles(m))
=============================================================================
