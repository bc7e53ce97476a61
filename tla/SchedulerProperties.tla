------------------------- MODULE SchedulerProperties -------------------------
(***************************************************************************)
(* What the reconcile loop of module Scheduler is meant to guarantee.      *)
(***************************************************************************)
EXTENDS Scheduler

\* The types of all variables, part by part.
HubOK ==
  /\ cr \in [CRs -> CRRecords \cup {Nil}]
  /\ placements \in [ResourceNames -> PlacementRecords \cup {Nil}]
  /\ works \in [Keys -> WorkRecords \cup {Nil}]
  /\ unseen \subseteq Keys
  /\ links \subseteq Links

QueuesOK == queue \subseteq CRs /\ delayed \subseteq CRs

LocalsOK ==
  /\ pc \in Steps
  /\ cur \in CRs \cup {Nil}
  /\ obj \in CRRecords \cup {Nil}
  /\ bundles \subseteq Bundles
  /\ todo \subseteq IF pc = "deleteWorks" THEN Keys ELSE Bundles
  /\ turn \in Bundles \cup {Nil}
  /\ verdict \in Verdicts \cup {Nil}

TypeOK ==
  /\ HubOK /\ QueuesOK /\ LocalsOK
  /\ memory \in [CRs -> SUBSET Bundles]
  /\ userOps \in 0..MaxUserOps /\ faults \in 0..MaxFaults

-----------------------------------------------------------------------------
\* Safety.

\* A ManifestWork that is not being deleted always has a manifest that will
\* delete it: one with its label that holds the finalizer.  A manifest can
\* then not leave its workloads running when it goes, whatever edits, failed
\* calls and restarts come between.
Protected(k) ==
  \E c \in CRs : /\ cr[c] # Nil /\ cr[c].fin
                 /\ OwnerLabel(c) = works[k].label

FinalizerProtectsWorks ==
  \A k \in Keys : works[k] # Nil /\ ~works[k].terminating => Protected(k)

\* All workloads of a manifest are placed before any is pushed: whenever the
\* content of a ManifestWork appears or changes, every bundle of the running
\* reconciliation has its cluster.
Pushed(k) ==
  works'[k] # Nil /\ (works[k] = Nil \/ works'[k].res # works[k].res)

PushOnlyWhenAllPlaced ==
  [][(\E k \in Keys : Pushed(k)) => \A b \in bundles : b.cluster \in Clusters]_vars

\* A reconciliation creates, changes and deletes only ManifestWorks with the
\* label of its own manifest, and placements that its manifest owns.  (A step
\* of the controller moves pc, the garbage collector's does not.)
Touched(k) ==
  works'[k] # Nil
    /\ \/ works[k] = Nil
       \/ works'[k].res # works[k].res
       \/ works'[k].terminating # works[k].terminating

PlacementTouched(n) ==
  /\ pc' # pc
  /\ \/ placements[n] = Nil /\ placements'[n] # Nil
     \/ placements[n] # Nil /\ placements'[n] = Nil
     \/ placements[n] # Nil /\ placements'[n] # Nil
        /\ placements'[n].rules # placements[n].rules

StaysWithItsOwn ==
  [][/\ \A k \in Keys : Touched(k) =>
          cur # Nil /\ works'[k].label = OwnerLabel(cur)
     /\ \A n \in ResourceNames : PlacementTouched(n) =>
          /\ cur # Nil
          /\ placements[n] # Nil => placements[n].owner = cur
          /\ placements'[n] # Nil => placements'[n].owner = cur]_vars

\* A manifest that began to be finalized shows no other state until it is
\* gone, so a reconciliation that was under way cannot bring it back.
FinalizingIsFinal ==
  [][\A c \in CRs : cr[c] # Nil /\ cr[c].state = Finalizing
       => cr'[c] = Nil \/ cr'[c].state = Finalizing]_vars

\* The controller is done with a manifest for now.
Quiet(c) == cur # c /\ c \notin queue \cup delayed

\* When the controller is done with a manifest and reports it scheduled, what
\* it reports is the current spec: one decision for each bundle, on a cluster
\* that satisfies the bundle's rules, and a ManifestWork there, if there is
\* one, with the bundle's content.  An edit that arrives while an earlier
\* version is being scheduled is not lost.
Current(c, b) ==
  \E x \in Clusters :
    /\ <<b.name, x>> \in cr[c].decisions
    /\ cr[c].spec.cluster = Nil => b.rules \subseteq Claims[x]
    /\ LET w == works[b.resourceName, x] IN w # Nil => w.res = b.res

DeliveredIsCurrent ==
  \A c \in CRs :
    cr[c] # Nil /\ Quiet(c) /\ cr[c].state \in Delivered
      => /\ Cardinality(cr[c].decisions) = Cardinality(BundlesOf(c, cr[c].spec))
         /\ \A b \in BundlesOf(c, cr[c].spec) : Current(c, b)

\* And the ManifestWork is there.
DeliveredIsRunning ==
  \A c \in CRs :
    cr[c] # Nil /\ Quiet(c) /\ cr[c].state \in Delivered
      => \A b \in BundlesOf(c, cr[c].spec) :
           \E x \in Clusters : <<b.name, x>> \in cr[c].decisions
                               /\ works[b.resourceName, x] # Nil

\* At that moment no other ManifestWork of the manifest runs anywhere, unless
\* one of its own has vanished: the completeness of a scheduling is decided by
\* counting, and one that is missing hides one too many.
DeliveredIsAll ==
  \A c \in CRs :
    cr[c] # Nil /\ Quiet(c) /\ cr[c].state \in Delivered
      => LET due == {k \in Keys : \E b \in BundlesOf(c, cr[c].spec) :
                       k[1] = b.resourceName /\ <<b.name, k[2]>> \in cr[c].decisions}
         IN  (\A k \in due : works[k] # Nil)
               => \A k \in Keys \ due :
                    works[k] # Nil /\ ~works[k].terminating
                      => works[k].label # OwnerLabel(c)

\* The links of a manifest last scheduled without reservations are those of
\* the bundles it was scheduled as.
LinksMatchMemory ==
  \A c \in CRs : Quiet(c) /\ cr[c] # Nil /\ cr[c].state = Successful
                   => links = Connections(memory[c])

\* The bundles of a manifest where its decisions say they are.
PlacedBundles(c) ==
  UNION {{[b EXCEPT !.cluster = d[2]] : d \in {e \in cr[c].decisions : e[1] = b.name}} :
           b \in BundlesOf(c, cr[c].spec)}

\* The links that the decisions of a scheduled manifest call for are there,
\* also when the controller has forgotten in a restart what it had registered:
\* what is forgotten can leave a link too many, never one too few.
LinksServeDecisions ==
  \A c \in CRs :
    cr[c] # Nil /\ Quiet(c) /\ cr[c].state \in {Successful, Tentative}
      => Connections(PlacedBundles(c)) \subseteq links

-----------------------------------------------------------------------------
\* The reconcile loop implements the contract of module SchedulingContract.

\* A reconciliation carries out a plan from when the decisions are announced
\* (or a target cluster accepted) to when the links are registered.
Committed == pc \in {"clean", "drop", "push", "check", "unlink", "link"}

lifeOf ==
  [c \in CRs |-> IF cr[c] = Nil THEN "absent"
                 ELSE IF cr[c].state = Finalizing THEN "closing" ELSE "open"]

\* No set of places, as Nil is none.
noPlan == {Nil}

planOf ==
  [c \in CRs |-> IF Committed /\ cur = c THEN {KeyOf(b) : b \in bundles} ELSE noPlan]

runningOf ==
  [c \in CRs |-> {k \in Keys : /\ works[k] # Nil /\ ~works[k].terminating
                               /\ works[k].label = OwnerLabel(c)}]

Contract == INSTANCE SchedulingContract
              WITH Manifests <- CRs, Places <- Keys, NoPlan <- noPlan,
                   life <- lifeOf, plan <- planOf, running <- runningOf

\* Every behaviour of the reconcile loop, with its failed calls, restarts and
\* users, is one the contract allows: a manifest is scheduled by one plan at a
\* time, a step starts nothing outside the plan, stops nothing inside it,
\* starts nothing once the manifest is closing, and lets it go when nothing of
\* it runs.
ImplementsContract == Contract!Spec

-----------------------------------------------------------------------------
\* What the documentation or a comment promises and the code does not keep.

\* features.md: the boundaries of the cluster sets are respected.  What the
\* controller is done with runs on clusters of the set the manifest targets.
RespectsClusterSet ==
  \A c \in CRs :
    cr[c] # Nil /\ Quiet(c) /\ cr[c].state \in Delivered
      => \A d \in cr[c].decisions : d[2] \in Members[cr[c].spec.set]

\* features.md: finalization deregisters the links.  Without a manifest in
\* the hub there is no link.
LinksGoWithManifests ==
  (pc = "idle" /\ \A c \in CRs : cr[c] = Nil) => links = {}

\* If one workload fails to be placed, says a comment in Reconcile, no other
\* manifest should run: a manifest the controller is done with, and that it
\* reports as failed for want of a placement, runs nothing.
FailedRunsNothing ==
  \A c \in CRs :
    cr[c] # Nil /\ Quiet(c) /\ cr[c].state = Failed /\ cr[c].decisions = {}
      => runningOf[c] = {}

\* Reconcile validates that the ManifestWorks are applied before it calls the
\* scheduling successful: every status it relies on is about the content the
\* ManifestWork has now.
SuccessIsObserved ==
  [][pc = "check" /\ pc' = "unlink"
       => \A k \in Owned(cur) : works[k].report.res = works[k].res]_vars

-----------------------------------------------------------------------------
\* Liveness.

\* A manifest that is not deleted reaches a final state: it is scheduled, or
\* refused, or fails to be placed.  The exception is a manifest in which an
\* error or a panic ends every attempt; it is tried again for as long as it
\* stays like that, and its state does not tell.
Settles ==
  \A c \in CRs :
    cr[c] # Nil ~> \/ cr[c] = Nil \/ cr[c].deleting
                   \/ cr[c].state \in Terminal
                   \/ c \in InNamespace /\ TriedAgain(c, cr[c].spec)

\* A deleted manifest goes away, and so do its ManifestWorks.
DeletionCompletes ==
  \A c \in CRs :
    (cr[c] # Nil /\ cr[c].deleting)
      ~> IF cr[c] # Nil THEN ~cr[c].deleting
         ELSE \A k \in Keys : works[k] # Nil => works[k].label # OwnerLabel(c)
=============================================================================
