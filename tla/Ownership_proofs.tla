--------------------------- MODULE Ownership_proofs ---------------------------
(***************************************************************************)
(* A reconciliation touches only what belongs to its manifest: the proof,  *)
(* for manifests whose names do not meet when they are cut (NamesApart).   *)
(*                                                                         *)
(* The code never looks whom a placement or a ManifestWork belongs to      *)
(* before it changes it; it goes by the name.  So the name of everything   *)
(* in the hub, in the memory of the reconciler and in a reconciliation has *)
(* to be one made for the manifest it belongs to.                          *)
(***************************************************************************)
EXTENDS Scheduler_proofs, SequenceTheorems

NamesApart ==
  \A p, q \in Prefixes, c, d \in CRs : ResourceName(p, c) = ResourceName(q, d) => c = d

NamedFor(n, c) == \E p \in Prefixes : n = ResourceName(p, c)

\* A ManifestWork with a name made for a manifest has the label of that one.
WorksNamed ==
  \A k \in Keys : works[k] # Nil =>
    \E c \in CRs : NamedFor(k[1], c) /\ works[k].label = OwnerLabel(c)

PlacementsNamed ==
  \A n \in ResourceNames : placements[n] # Nil => NamedFor(n, placements[n].owner)

MemoryNamed == \A c \in CRs : \A b \in memory[c] : NamedFor(b.resourceName, c)

\* What a reconciliation has in hand; between two of them that is nothing.
LocalsNamed ==
  /\ pc = "idle" => bundles \cup todo = {}
  /\ pc # "idle" =>
    /\ \A b \in bundles : NamedFor(b.resourceName, cur)
    /\ pc # "deleteWorks" => \A b \in todo : NamedFor(b.resourceName, cur)
    /\ pc = "deleteWorks" =>
         \A k \in todo : works[k] # Nil => works[k].label = OwnerLabel(cur)

OInv == TInv /\ WorksNamed /\ PlacementsNamed /\ MemoryNamed /\ LocalsNamed

\* What the property asks of a step.
Mine ==
  /\ \A k \in Keys : Touched(k) => cur # Nil /\ works'[k].label = OwnerLabel(cur)
  /\ \A n \in ResourceNames : PlacementTouched(n) =>
       /\ cur # Nil
       /\ placements[n] # Nil => placements[n].owner = cur
       /\ placements'[n] # Nil => placements'[n].owner = cur

-----------------------------------------------------------------------------
\* Steps that create nothing.

WorksKept ==
  \A k \in Keys : works'[k] # Nil => works[k] # Nil /\ works'[k].label = works[k].label

PlacementsKept ==
  \A n \in ResourceNames : placements'[n] # Nil =>
    placements[n] # Nil /\ placements'[n].owner = placements[n].owner

LEMMA KeptNamed ==
  ASSUME OInv
  PROVE  /\ WorksKept => WorksNamed'
         /\ PlacementsKept => PlacementsNamed'
BY DEF OInv, WorksNamed, PlacementsNamed, WorksKept, PlacementsKept, NamedFor

LEMMA HubSame ==
  ASSUME UNCHANGED <<works, placements>>
  PROVE  WorksKept /\ PlacementsKept /\ Mine
BY DEF WorksKept, PlacementsKept, Mine, Touched, PlacementTouched

LEMMA EndsNamed ==
  ASSUME OInv, TInv', WorksNamed', PlacementsNamed', MemoryNamed', Return
  PROVE  OInv'
BY DEF OInv, LocalsNamed, Return

LEMMA GoesOnNamed ==
  ASSUME OInv, TInv', WorksNamed', PlacementsNamed', memory' = memory,
         cur' = cur, pc' \notin {"idle", "deleteWorks"},
         \A b \in bundles' \cup todo' : NamedFor(b.resourceName, cur)
  PROVE  OInv'
BY DEF OInv, MemoryNamed, LocalsNamed, NamedFor

LEMMA OutsideNamed ==
  ASSUME OInv, TInv', WorksKept, PlacementsKept,
         UNCHANGED <<memory, pc, cur, bundles, todo>>
  PROVE  OInv'
<1>1. pc = "deleteWorks" => todo \subseteq Keys
  BY DEF OInv, TInv, TypeOK, LocalsOK
<1>2. LocalsNamed' /\ MemoryNamed'
  BY <1>1 DEF OInv, MemoryNamed, LocalsNamed, WorksKept, NamedFor
<1>. QED
  BY <1>2, KeptNamed DEF OInv

-----------------------------------------------------------------------------
\* Facts about names.

\* Bundling names every bundle for its manifest.
LEMMA BundlesNamed ==
  ASSUME NEW c \in CRs, NEW s \in Specs, Accepted(s)
  PROVE  \A b \in BundlesOf(c, s) : NamedFor(b.resourceName, c)
<1>1. CASE s.cluster # Nil
  <2>1. s.cluster \in Clusters
    BY <1>1, SchedulerAssumption DEF Accepted, BadTarget, SchedulerAssumption
  <2>2. <<s.cluster>> \in Prefixes
    BY <2>1 DEF Prefixes
  <2>. QED
    BY <1>1, <2>2 DEF BundlesOf, WholeBundle, NamedFor
<1>2. CASE s.cluster = Nil /\ s.annotated
  <2>. SUFFICES ASSUME NEW i \in DOMAIN s.workloads
                PROVE  NamedFor(WorkloadBundle(s.workloads[i], c, s).resourceName, c)
    BY <1>2 DEF BundlesOf
  <2>1. s.workloads[i].name \in Prefixes
    BY DEF Workloads, BundleNames, Prefixes
  <2>. QED
    BY <2>1 DEF WorkloadBundle, NamedFor
<1>3. CASE s.cluster = Nil /\ ~s.annotated
  <2>1. {DefaultName, GlobalName} \subseteq Prefixes
    BY DEF Prefixes, BundleNames
  <2>. QED
    BY <1>3, <2>1 DEF BundlesOf, WholeBundle, NamedFor
<1>. QED
  BY <1>1, <1>2, <1>3

\* A ManifestWork with the name of a bundle in hand is the manifest's.
LEMMA WorkIsMine ==
  ASSUME NamesApart, OInv, cur \in CRs, NEW b, KeyOf(b) \in Keys,
         NamedFor(b.resourceName, cur), works[KeyOf(b)] # Nil
  PROVE  works[KeyOf(b)].label = OwnerLabel(cur)
<1>1. PICK c \in CRs : /\ NamedFor(KeyOf(b)[1], c)
                       /\ works[KeyOf(b)].label = OwnerLabel(c)
  BY DEF OInv, WorksNamed
<1>2. KeyOf(b)[1] = b.resourceName
  BY DEF KeyOf
<1>3. c = cur
  BY <1>1, <1>2 DEF NamesApart, NamedFor
<1>. QED
  BY <1>1, <1>3

LEMMA PlacementIsMine ==
  ASSUME NamesApart, OInv, cur \in CRs, NEW n \in ResourceNames,
         NamedFor(n, cur), placements[n] # Nil
  PROVE  placements[n].owner = cur
<1>1. placements[n].owner \in CRs
  BY DEF OInv, TInv, TypeOK, HubOK, PlacementRecords
<1>2. NamedFor(n, placements[n].owner)
  BY DEF OInv, PlacementsNamed
<1>. QED
  BY <1>1, <1>2 DEF NamesApart, NamedFor

\* The deletion of the ManifestWork of a bundle in hand.
LEMMA DeletionIsMine ==
  ASSUME NamesApart, OInv, cur \in CRs, placements' = placements, NEW b,
         NamedFor(b.resourceName, cur), DeleteManifestWork(KeyOf(b))
  PROVE  WorksKept /\ PlacementsKept /\ Mine
<1>1. CASE ~Visible(KeyOf(b))
  BY <1>1, HubSame DEF DeleteManifestWork
<1>2. CASE Visible(KeyOf(b)) /\ KeyOf(b) \in Keys
  <2>1. /\ works[KeyOf(b)] # Nil
        /\ works[KeyOf(b)].label = OwnerLabel(cur)
    BY <1>2, WorkIsMine DEF Visible
  <2>2. works[KeyOf(b)] \in WorkRecords /\ works \in [Keys -> WorkRecords \cup {Nil}]
    BY <1>2, <2>1 DEF OInv, TInv, TypeOK, HubOK
  <2>3. /\ works'[KeyOf(b)].label = works[KeyOf(b)].label
        /\ \A k \in Keys : k # KeyOf(b) => works'[k] = works[k]
    BY <1>2, <2>2 DEF DeleteManifestWork, WorkRecords
  <2>4. cur # Nil
    BY NilAssumption DEF NilAssumption
  <2>. QED
    BY <2>1, <2>3, <2>4 DEF WorksKept, PlacementsKept, Mine, Touched, PlacementTouched
<1>3. CASE KeyOf(b) \notin Keys
  <2>1. \A k \in Keys : works'[k] = works[k]
    BY <1>3 DEF OInv, TInv, TypeOK, HubOK, DeleteManifestWork
  <2>. QED
    BY <2>1 DEF WorksKept, PlacementsKept, Mine, Touched, PlacementTouched
<1>. QED
  BY <1>1, <1>2, <1>3

-----------------------------------------------------------------------------
\* The reconciliation, stage by stage: each step keeps the invariant and does
\* what the property asks.

\* A reconciliation ends, or goes on, without a look at what is in the hub.
LEMMA EndsSame ==
  ASSUME OInv, TInv', UNCHANGED <<works, placements>>, MemoryNamed', Return
  PROVE  OInv' /\ Mine
BY HubSame, KeptNamed, EndsNamed

LEMMA GoesOnSame ==
  ASSUME OInv, TInv', UNCHANGED <<works, placements>>, memory' = memory,
         cur' = cur, pc' \notin {"idle", "deleteWorks"},
         \A b \in bundles' \cup todo' : NamedFor(b.resourceName, cur)
  PROVE  OInv' /\ Mine
BY HubSame, KeptNamed, GoesOnNamed

\* What a reconciliation has in hand, while it schedules.
LEMMA InHand ==
  ASSUME OInv, pc \notin {"idle", "deleteWorks"}
  PROVE  /\ cur \in CRs
         /\ \A b \in bundles \cup todo : NamedFor(b.resourceName, cur)
         /\ pc \in {"settle", "drop"} => NamedFor(turn.resourceName, cur)
BY DEF OInv, LocalsNamed, TInv, Working, InLoop

LEMMA StaleNamed ==
  ASSUME OInv, cur \in CRs, NEW bs
  PROVE  \A b \in Stale(bs) : NamedFor(b.resourceName, cur)
BY DEF OInv, MemoryNamed, Stale

LEMMA AdmissionMine == OInv /\ TInv' /\ Admission => OInv' /\ Mine
<1>1. ASSUME OInv, TInv', MarkInProgress \/ EnsureFinalizer PROVE OInv' /\ Mine
  <2>1. pc \notin {"idle", "deleteWorks"} /\ pc' \notin {"idle", "deleteWorks"}
    BY <1>1 DEF MarkInProgress, EnsureFinalizer, AfterAdmission
  <2>2. UNCHANGED <<works, placements, memory, cur, bundles, todo>>
    BY <1>1 DEF MarkInProgress, EnsureFinalizer
  <2>. QED
    BY <1>1, <2>1, <2>2, InHand, GoesOnSame
<1>2. ASSUME OInv, TInv', RejectNamespace \/ ObjectGone PROVE OInv' /\ Mine
  <2>1. Return /\ UNCHANGED <<works, placements, memory>>
    BY <1>2 DEF RejectNamespace, ObjectGone, Requeue, hub
  <2>2. MemoryNamed'
    BY <1>2, <2>1 DEF OInv, MemoryNamed, NamedFor
  <2>. QED
    BY <1>2, <2>1, <2>2, EndsSame
<1>. QED
  BY <1>1, <1>2 DEF Admission

LEMMA ValidationMine == OInv /\ TInv' /\ Validation => OInv' /\ Mine
<1>1. ASSUME OInv, TInv', AnalysisFails PROVE OInv' /\ Mine
  <2>1. MemoryNamed'
    BY <1>1 DEF OInv, MemoryNamed, AnalysisFails, NamedFor
  <2>. QED
    BY <1>1, <2>1, EndsSame DEF AnalysisFails, Requeue, hub
<1>2. ASSUME OInv, TInv', Refuse PROVE OInv' /\ Mine
  <2>1. /\ pc = "analyse" /\ pc' = "report"
        /\ UNCHANGED <<works, placements, memory, cur, bundles, todo>>
    BY <1>2 DEF Refuse, Report, hub
  <2>. QED
    BY <1>2, <2>1, InHand, GoesOnSame
<1>3. ASSUME OInv, TInv', BundleForTarget \/ BundleForPlacement PROVE OInv' /\ Mine
  <2>. DEFINE bs == BundlesOf(cur, obj.spec)
  <2>1. /\ pc = "analyse" /\ cur' = cur /\ bundles' = bs
        /\ UNCHANGED <<works, placements, memory>>
        /\ Accepted(obj.spec)
    BY <1>3 DEF BundleForTarget, BundleForPlacement, hub
  <2>2. /\ pc' \in {"clean", "push", "check", "announce", "place"}
        /\ todo' \in {bs, Stale(bs)}
    BY <1>3 DEF BundleForTarget, BundleForPlacement, GoClean, GoPush, GoPlace
  <2>3. cur \in CRs /\ obj.spec \in Specs
    BY <1>3, <2>1 DEF OInv, TInv, Working, CRRecords
  <2>4. \A b \in bs \cup Stale(bs) : NamedFor(b.resourceName, cur)
    BY <1>3, <2>1, <2>3, BundlesNamed, StaleNamed
  <2>. QED
    BY <1>3, <2>1, <2>2, <2>4, GoesOnSame
<1>. QED
  BY <1>1, <1>2, <1>3 DEF Validation

\* A placement is created with its owner, and changed only under a name made
\* for the manifest, which is then its owner.
LEMMA PlacingMine ==
  ASSUME NamesApart
  PROVE  OInv /\ TInv' /\ Placing => OInv' /\ Mine
<1>1. ASSUME OInv, TInv', NEW b \in todo, CreatePlacement(b) PROVE OInv' /\ Mine
  <2>1. cur \in CRs /\ NamedFor(b.resourceName, cur)
    BY <1>1, InHand DEF CreatePlacement
  <2>2. \A n \in ResourceNames : n # b.resourceName => placements'[n] = placements[n]
    BY <1>1 DEF OInv, TInv, TypeOK, HubOK, CreatePlacement
  <2>3. /\ b.resourceName \in ResourceNames => placements'[b.resourceName].owner = cur
        /\ placements[b.resourceName] = Nil
    BY <1>1 DEF OInv, TInv, TypeOK, HubOK, CreatePlacement, NewPlacement
  <2>4. PlacementsNamed'
    BY <1>1, <2>1, <2>2, <2>3 DEF OInv, PlacementsNamed, NamedFor
  <2>5. WorksNamed' /\ MemoryNamed'
    BY <1>1 DEF OInv, WorksNamed, MemoryNamed, CreatePlacement, NamedFor
  <2>6. works' = works /\ cur # Nil
    BY <1>1, <2>1, NilAssumption DEF CreatePlacement, NilAssumption
  <2>7. Mine
    BY <2>2, <2>3, <2>6 DEF Mine, Touched, PlacementTouched
  <2>. QED
    BY <1>1, <2>4, <2>5, <2>7, EndsNamed DEF CreatePlacement, Requeue
<1>2. ASSUME OInv, TInv', NEW b \in todo, UpdatePlacement(b) PROVE OInv' /\ Mine
  <2>1. cur \in CRs /\ NamedFor(b.resourceName, cur) /\ b.resourceName \in ResourceNames
    BY <1>2, InHand DEF UpdatePlacement, OInv, TInv, TypeOK, LocalsOK, Bundles
  <2>2. placements[b.resourceName].owner = cur
    BY <1>2, <2>1, PlacementIsMine DEF UpdatePlacement
  <2>3. placements[b.resourceName] \in PlacementRecords
    BY <1>2, <2>1 DEF OInv, TInv, TypeOK, HubOK, UpdatePlacement
  <2>4. /\ placements'[b.resourceName].owner = placements[b.resourceName].owner
        /\ \A n \in ResourceNames : n # b.resourceName => placements'[n] = placements[n]
    BY <1>2, <2>1, <2>3 DEF OInv, TInv, TypeOK, HubOK, UpdatePlacement, PlacementRecords
  <2>5. PlacementsKept /\ WorksKept /\ Mine
    BY <1>2, <2>1, <2>2, <2>4, NilAssumption
    DEF PlacementsKept, WorksKept, Mine, Touched, PlacementTouched, UpdatePlacement,
        NilAssumption
  <2>6. \A a \in bundles' \cup todo' : NamedFor(a.resourceName, cur)
    BY <1>2, InHand DEF UpdatePlacement
  <2>. QED
    BY <1>2, <2>5, <2>6, KeptNamed, GoesOnNamed DEF UpdatePlacement
<1>3. ASSUME OInv, TInv', PlacementGone \/ DecisionPending PROVE OInv' /\ Mine
  <2>1. Return /\ UNCHANGED <<works, placements, memory>>
    BY <1>3 DEF PlacementGone, DecisionPending, Requeue, hub
  <2>2. MemoryNamed'
    BY <1>3, <2>1 DEF OInv, MemoryNamed, NamedFor
  <2>. QED
    BY <1>3, <2>1, <2>2, EndsSame
<1>4. ASSUME OInv, TInv', PlacementUnsatisfied PROVE OInv' /\ Mine
  <2>1. /\ pc = "settle" /\ pc' = "report"
        /\ UNCHANGED <<works, placements, memory, cur, bundles, todo>>
    BY <1>4 DEF PlacementUnsatisfied, Report, hub
  <2>. QED
    BY <1>4, <2>1, InHand, GoesOnSame
<1>5. ASSUME OInv, TInv', PlacementSatisfied PROVE OInv' /\ Mine
  <2>1. /\ pc = "settle" /\ pc' \in {"announce", "place"} /\ cur' = cur
        /\ todo' \subseteq todo /\ UNCHANGED <<works, placements, memory>>
    BY <1>5 DEF PlacementSatisfied, GoPlace, hub
  <2>2. PICK x : bundles' = (bundles \ {turn}) \cup {[turn EXCEPT !.cluster = x]}
    BY <1>5 DEF PlacementSatisfied
  <2>3. turn \in Bundles
    BY <1>5 DEF PlacementSatisfied, OInv, TInv, TypeOK, LocalsOK, InLoop
  <2>4. [turn EXCEPT !.cluster = x].resourceName = turn.resourceName
    BY <2>3 DEF Bundles
  <2>5. \A b \in bundles' \cup todo' : NamedFor(b.resourceName, cur)
    BY <1>5, <2>1, <2>2, <2>4, InHand
  <2>. QED
    BY <1>5, <2>1, <2>5, GoesOnSame
<1>6. ASSUME OInv, TInv', AnnounceDecisions PROVE OInv' /\ Mine
  <2>1. /\ pc = "announce" /\ pc' \in {"clean", "push", "check"}
        /\ todo' \in {bundles, Stale(bundles)}
        /\ UNCHANGED <<works, placements, memory, cur, bundles>>
    BY <1>6 DEF AnnounceDecisions, GoClean, GoPush
  <2>. QED
    BY <1>6, <2>1, InHand, StaleNamed, GoesOnSame
<1>. QED
  BY <1>1, <1>2, <1>3, <1>4, <1>5, <1>6 DEF Placing

LEMMA CleaningMine ==
  ASSUME NamesApart
  PROVE  OInv /\ TInv' /\ Cleaning => OInv' /\ Mine
<1>1. ASSUME OInv, Cleaning
      PROVE  /\ pc \in {"clean", "drop"} /\ pc' \in {"clean", "drop", "push", "check"}
             /\ UNCHANGED <<cur, memory, bundles>>
             /\ \A b \in bundles' \cup todo' : NamedFor(b.resourceName, cur)
  <2>1. /\ pc \in {"clean", "drop"} /\ pc' \in {"clean", "drop", "push", "check"}
        /\ UNCHANGED <<cur, memory, bundles>>
        /\ todo' \subseteq todo \cup bundles
    BY <1>1 DEF Cleaning, DropWork, MoveBundle, DropPlacement, GoClean, GoPush
  <2>. QED
    BY <1>1, <2>1, InHand
<1>2. ASSUME OInv, NEW b \in todo, DropPlacement(b)
      PROVE  WorksKept /\ PlacementsKept /\ Mine
  <2>. DEFINE m == b.resourceName
  <2>1. cur \in CRs /\ NamedFor(m, cur)
    BY <1>2, InHand DEF DropPlacement
  <2>2. /\ placements'[m] = Nil \/ m \notin ResourceNames
        /\ \A n \in ResourceNames : n # m => placements'[n] = placements[n]
    BY <1>2 DEF OInv, TInv, TypeOK, HubOK, DropPlacement
  <2>3. works' = works
    BY <1>2 DEF DropPlacement
  <2>4. ASSUME NEW n \in ResourceNames, PlacementTouched(n)
        PROVE  placements'[n] = Nil /\ placements[n].owner = cur
    <3>1. n = m /\ placements[n] # Nil /\ placements'[n] = Nil
      BY <2>2, <2>4 DEF PlacementTouched
    <3>. QED
      BY <1>2, <2>1, <3>1, PlacementIsMine
  <2>5. cur # Nil
    BY <2>1, NilAssumption DEF NilAssumption
  <2>. QED
    BY <2>2, <2>3, <2>4, <2>5 DEF WorksKept, PlacementsKept, Mine, Touched
<1>3. ASSUME OInv, NEW b \in todo, MoveBundle(b)
      PROVE  WorksKept /\ PlacementsKept /\ Mine
  BY <1>3, InHand, DeletionIsMine DEF MoveBundle
<1>4. ASSUME OInv, DropWork PROVE WorksKept /\ PlacementsKept /\ Mine
  BY <1>4, InHand, DeletionIsMine DEF DropWork
<1>. QED
  BY <1>1, <1>2, <1>3, <1>4, KeptNamed, GoesOnNamed DEF Cleaning

\* A ManifestWork gets the manifest's label when it is created, and content
\* only under a name made for the manifest.
LEMMA PushingMine ==
  ASSUME NamesApart
  PROVE  OInv /\ TInv' /\ Pushing => OInv' /\ Mine
<1>1. ASSUME OInv, NEW b \in todo, CreateWork(b) \/ UpdateWork(b)
      PROVE  /\ cur \in CRs /\ cur # Nil /\ KeyOf(b) \in Keys
             /\ NamedFor(b.resourceName, cur) /\ NamedFor(KeyOf(b)[1], cur)
             /\ cur' = cur /\ memory' = memory /\ placements' = placements
             /\ pc' \notin {"idle", "deleteWorks"}
             /\ \A a \in bundles' \cup todo' : NamedFor(a.resourceName, cur)
  <2>1. /\ pc = "push" /\ pc' \in {"push", "check"} /\ todo' \subseteq todo
        /\ UNCHANGED <<cur, memory, placements, bundles>>
    BY <1>1 DEF CreateWork, UpdateWork, GoPush
  <2>2. b \in Bundles /\ Placed(b)
    BY <1>1, <2>1 DEF OInv, TInv, TypeOK, LocalsOK, PlacedSoFar
  <2>3. KeyOf(b) \in Keys /\ KeyOf(b)[1] = b.resourceName
    BY <2>2 DEF KeyOf, Keys, Bundles, Placed
  <2>4. cur \in CRs /\ \A a \in bundles \cup todo : NamedFor(a.resourceName, cur)
    BY <1>1, <2>1, InHand
  <2>. QED
    BY <2>1, <2>3, <2>4, NilAssumption DEF NilAssumption
<1>2. ASSUME OInv, TInv', NEW b \in todo, CreateWork(b) PROVE OInv' /\ Mine
  <2>1. /\ works'[KeyOf(b)].label = OwnerLabel(cur)
        /\ \A k \in Keys : k # KeyOf(b) => works'[k] = works[k]
    BY <1>1, <1>2 DEF OInv, TInv, TypeOK, HubOK, CreateWork, NewWork
  <2>2. WorksNamed'
    BY <1>1, <1>2, <2>1 DEF OInv, WorksNamed, NamedFor
  <2>3. PlacementsNamed'
    BY <1>1, <1>2 DEF OInv, PlacementsNamed, NamedFor
  <2>4. Mine
    BY <1>1, <1>2, <2>1 DEF Mine, Touched, PlacementTouched
  <2>. QED
    BY <1>1, <1>2, <2>2, <2>3, <2>4, GoesOnNamed
<1>3. ASSUME OInv, TInv', NEW b \in todo, UpdateWork(b) PROVE OInv' /\ Mine
  <2>1. works[KeyOf(b)] # Nil /\ works[KeyOf(b)].label = OwnerLabel(cur)
    BY <1>1, <1>3, WorkIsMine DEF UpdateWork, Visible
  <2>2. works[KeyOf(b)] \in WorkRecords
    BY <1>1, <1>3, <2>1 DEF OInv, TInv, TypeOK, HubOK
  <2>3. /\ works'[KeyOf(b)].label = works[KeyOf(b)].label
        /\ \A k \in Keys : k # KeyOf(b) => works'[k] = works[k]
    BY <1>1, <1>3, <2>2 DEF OInv, TInv, TypeOK, HubOK, UpdateWork, WorkRecords
  <2>4. WorksKept /\ PlacementsKept /\ Mine
    BY <1>1, <1>3, <2>1, <2>3 DEF WorksKept, PlacementsKept, Mine, Touched, PlacementTouched
  <2>. QED
    BY <1>1, <1>3, <2>4, KeptNamed, GoesOnNamed
<1>4. ASSUME OInv, TInv', WorksNotReady \/ \E b \in todo : WorkAlreadyExists(b)
      PROVE  OInv' /\ Mine
  <2>1. Return /\ UNCHANGED <<works, placements, memory>>
    BY <1>4 DEF WorksNotReady, WorkAlreadyExists, Requeue, hub
  <2>2. MemoryNamed'
    BY <1>4, <2>1 DEF OInv, MemoryNamed, NamedFor
  <2>. QED
    BY <1>4, <2>1, <2>2, EndsSame
<1>5. ASSUME OInv, TInv', WorksFailed \/ WorksApplied PROVE OInv' /\ Mine
  <2>1. /\ pc = "check" /\ pc' \in {"report", "unlink"}
        /\ UNCHANGED <<works, placements, memory, cur, bundles, todo>>
    BY <1>5 DEF WorksFailed, WorksApplied, Report, hub
  <2>. QED
    BY <1>5, <2>1, InHand, GoesOnSame
<1>. QED
  BY <1>2, <1>3, <1>4, <1>5 DEF Pushing

LEMMA ConcludingMine == OInv /\ TInv' /\ Concluding => OInv' /\ Mine
<1>1. ASSUME OInv, TInv', RemoveOldLinks \/ RegisterLinks PROVE OInv' /\ Mine
  <2>1. /\ pc \in {"unlink", "link"} /\ pc' \in {"link", "report"}
        /\ UNCHANGED <<works, placements, memory, cur, bundles, todo>>
    BY <1>1 DEF RemoveOldLinks, RegisterLinks, Report
  <2>. QED
    BY <1>1, <2>1, InHand, GoesOnSame
<1>2. ASSUME OInv, TInv', ReportStatus PROVE OInv' /\ Mine
  <2>1. /\ Return /\ UNCHANGED <<works, placements>>
        /\ memory' \in {memory, [memory EXCEPT ![cur] = bundles]}
    BY <1>2 DEF ReportStatus
  <2>2. \A b \in bundles : NamedFor(b.resourceName, cur)
    BY <1>2, InHand DEF ReportStatus
  <2>3. MemoryNamed'
    BY <1>2, <2>1, <2>2 DEF OInv, TInv, TypeOK, MemoryNamed, NamedFor
  <2>. QED
    BY <1>2, <2>1, <2>3, EndsSame
<1>. QED
  BY <1>1, <1>2 DEF Concluding

\* A finalization deletes what has the manifest's label.
LEMMA DeletingMine == OInv /\ TInv' /\ Deleting => OInv' /\ Mine
<1>1. ASSUME OInv, TInv', BeginFinalizing PROVE OInv' /\ Mine
  <2>1. /\ UNCHANGED <<works, placements, memory, cur, bundles>>
        /\ todo' = Owned(cur) /\ pc = "finalize"
        /\ pc' = IF Owned(cur) = {} THEN "deleteLinks" ELSE "deleteWorks"
    BY <1>1 DEF BeginFinalizing
  <2>2. LocalsNamed'
    BY <1>1, <2>1, InHand DEF LocalsNamed, Owned, NamedFor
  <2>. QED
    BY <1>1, <2>1, <2>2, HubSame, KeptNamed DEF OInv, MemoryNamed, NamedFor
<1>2. ASSUME OInv, TInv', NEW k \in todo, DeleteOwnedWork(k) PROVE OInv' /\ Mine
  <2>1. /\ k \in Keys /\ cur \in CRs /\ works[k] \in WorkRecords
        /\ works[k].label = OwnerLabel(cur)
    BY <1>2 DEF OInv, TInv, TypeOK, HubOK, LocalsOK, Working, LocalsNamed, DeleteOwnedWork
  <2>2. /\ works'[k].label = works[k].label
        /\ \A j \in Keys : j # k => works'[j] = works[j]
    BY <1>2, <2>1 DEF OInv, TInv, TypeOK, HubOK, DeleteOwnedWork, WorkRecords
  <2>3. /\ pc = "deleteWorks" /\ todo' = todo \ {k}
        /\ pc' = IF todo' = {} THEN "deleteLinks" ELSE "deleteWorks"
        /\ UNCHANGED <<placements, memory, cur, bundles>> /\ works[k] # Nil
    BY <1>2 DEF DeleteOwnedWork
  <2>4. WorksKept /\ PlacementsKept /\ Mine
    BY <2>1, <2>2, <2>3, NilAssumption
    DEF WorksKept, PlacementsKept, Mine, Touched, PlacementTouched,
        NilAssumption
  <2>5. todo \subseteq Keys
    BY <1>2, <2>3 DEF OInv, TInv, TypeOK, LocalsOK
  <2>6. LocalsNamed'
    BY <1>2, <2>3, <2>4, <2>5 DEF OInv, LocalsNamed, WorksKept, NamedFor
  <2>. QED
    BY <1>2, <2>3, <2>4, <2>6, KeptNamed DEF OInv, MemoryNamed, NamedFor
<1>3. ASSUME OInv, TInv', DeleteLinks PROVE OInv' /\ Mine
  <2>1. /\ UNCHANGED <<works, placements, cur, bundles, todo>>
        /\ pc = "deleteLinks" /\ pc' = "release"
        /\ memory' = [memory EXCEPT ![cur] = {}]
    BY <1>3 DEF DeleteLinks
  <2>2. MemoryNamed'
    BY <1>3, <2>1 DEF OInv, TInv, TypeOK, MemoryNamed, NamedFor
  <2>3. LocalsNamed'
    BY <1>3, <2>1, InHand DEF LocalsNamed, NamedFor
  <2>. QED
    BY <1>3, <2>1, <2>2, <2>3, HubSame, KeptNamed DEF OInv
<1>4. ASSUME OInv, TInv', RemoveFinalizer PROVE OInv' /\ Mine
  <2>1. ASSUME NEW n \in ResourceNames, placements'[n] # Nil
        PROVE  /\ placements[n] # Nil /\ placements'[n].owner = placements[n].owner
               /\ placements'[n].rules = placements[n].rules
    <3>1. placements[n] # Nil
      BY <1>4, <2>1 DEF RemoveFinalizer
    <3>2. placements[n] \in PlacementRecords
      BY <1>4, <3>1 DEF OInv, TInv, TypeOK, HubOK
    <3>. QED
      BY <1>4, <3>1, <3>2 DEF RemoveFinalizer, PlacementRecords
  <2>2. ASSUME NEW n \in ResourceNames, placements[n] # Nil
        PROVE  placements'[n] # Nil
    <3>1. placements[n] \in PlacementRecords
      BY <1>4, <2>2 DEF OInv, TInv, TypeOK, HubOK
    <3>2. placements'[n] \in PlacementRecords
      BY <1>4, <2>2, <3>1 DEF RemoveFinalizer, PlacementRecords
    <3>. QED
      BY <3>2, NilAssumption DEF NilAssumption
  <2>3. works' = works
    BY <1>4 DEF RemoveFinalizer
  <2>4. WorksKept /\ PlacementsKept /\ Mine
    BY <2>1, <2>2, <2>3 DEF WorksKept, PlacementsKept, Mine, Touched, PlacementTouched
  <2>5. MemoryNamed'
    BY <1>4 DEF OInv, MemoryNamed, RemoveFinalizer, NamedFor
  <2>. QED
    BY <1>4, <2>4, <2>5, KeptNamed, EndsNamed DEF RemoveFinalizer
<1>5. ASSUME OInv, TInv', NEW k, WorkGone(k) PROVE OInv' /\ Mine
  <2>1. MemoryNamed'
    BY <1>5 DEF OInv, MemoryNamed, WorkGone, NamedFor
  <2>. QED
    BY <1>5, <2>1, EndsSame DEF WorkGone, Requeue, hub
<1>. QED
  BY <1>1, <1>2, <1>3, <1>4, <1>5 DEF Deleting

-----------------------------------------------------------------------------
\* The worker, failures and the environment.

LEMMA ControlMine ==
  OInv /\ TInv' /\ (\/ CallFails \/ Restart \/ \E c \in CRs : Start(c)
                   \/ \E b \in todo : SkipDeletion(b))
    => OInv' /\ Mine
<1>1. ASSUME OInv, TInv', CallFails \/ Restart PROVE OInv' /\ Mine
  <2>1. MemoryNamed'
    BY <1>1 DEF OInv, MemoryNamed, CallFails, Restart, NamedFor
  <2>. QED
    BY <1>1, <2>1, EndsSame DEF CallFails, Restart, Requeue, hub
<1>2. ASSUME OInv, TInv', NEW c \in CRs, Start(c) PROVE OInv' /\ Mine
  <2>1. /\ bundles \cup todo = {} /\ pc' \in {"idle", "mark", "admit"}
        /\ UNCHANGED <<works, placements, memory, bundles, todo>>
    BY <1>2 DEF OInv, LocalsNamed, Start, hub
  <2>2. LocalsNamed' /\ MemoryNamed'
    BY <1>2, <2>1 DEF OInv, LocalsNamed, MemoryNamed, NamedFor
  <2>. QED
    BY <1>2, <2>1, <2>2, HubSame, KeptNamed DEF OInv
<1>3. ASSUME OInv, TInv', NEW b \in todo, SkipDeletion(b) PROVE OInv' /\ Mine
  <2>1. /\ pc \in {"clean", "drop"} /\ pc' \in {"clean", "drop", "push", "check"}
        /\ UNCHANGED <<works, placements, memory, cur, bundles>>
        /\ todo' \subseteq todo \cup bundles
    BY <1>3 DEF SkipDeletion, GoClean, GoPush, hub
  <2>. QED
    BY <1>3, <2>1, InHand, GoesOnSame
<1>. QED
  BY <1>1, <1>2, <1>3

\* OCM's controllers change neither the rules of a placement nor what is in a
\* ManifestWork, and users touch manifests only.
LEMMA EnvironmentMine ==
  OInv /\ TInv' /\ (Users \/ OCM \/ CacheSync \/ \E c \in CRs : TimerFires(c))
    => OInv' /\ Mine
<1>1. ASSUME Users \/ OCM \/ CacheSync \/ \E c \in CRs : TimerFires(c)
      PROVE  UNCHANGED <<memory, pc, cur, bundles, todo>>
  BY <1>1 DEF Users, UserCreate, UserEdit, UserDelete, OCM, OCMDecides,
     GarbageCollect, AgentReports, AgentFinalizes, CacheSync, TimerFires, locals
<1>2. ASSUME Users \/ CacheSync \/ \E c \in CRs : TimerFires(c)
      PROVE  WorksKept /\ PlacementsKept /\ Mine
  BY <1>2, HubSame DEF Users, UserCreate, UserEdit, UserDelete, CacheSync, TimerFires, hub
<1>3. ASSUME OInv, NEW n \in ResourceNames, OCMDecides(n) \/ GarbageCollect(n)
      PROVE  WorksKept /\ PlacementsKept /\ Mine
  <2>1. placements[n] \in PlacementRecords
    BY <1>3 DEF OInv, TInv, TypeOK, HubOK, OCMDecides, GarbageCollect
  <2>2. /\ placements'[n] = Nil \/ /\ placements'[n].owner = placements[n].owner
                                   /\ placements'[n].rules = placements[n].rules
        /\ placements[n] # Nil
        /\ \A m \in ResourceNames : m # n => placements'[m] = placements[m]
    BY <1>3, <2>1 DEF OInv, TInv, TypeOK, HubOK, OCMDecides, GarbageCollect, PlacementRecords
  <2>. QED
    BY <1>3, <2>2
    DEF OCMDecides, GarbageCollect, WorksKept, PlacementsKept, Mine, Touched,
        PlacementTouched
<1>4. ASSUME OInv, NEW k \in Keys, AgentReports(k) \/ AgentFinalizes(k)
      PROVE  WorksKept /\ PlacementsKept /\ Mine
  <2>1. works[k] \in WorkRecords
    BY <1>4 DEF OInv, TInv, TypeOK, HubOK, AgentReports, AgentFinalizes
  <2>2. /\ works'[k] = Nil \/ /\ works'[k].label = works[k].label
                              /\ works'[k].res = works[k].res
                              /\ works'[k].terminating = works[k].terminating
        /\ works[k] # Nil
        /\ \A j \in Keys : j # k => works'[j] = works[j]
    BY <1>4, <2>1 DEF OInv, TInv, TypeOK, HubOK, AgentReports, AgentFinalizes, WorkRecords
  <2>. QED
    BY <1>4, <2>2
    DEF AgentReports, AgentFinalizes, WorksKept, PlacementsKept, Mine, Touched,
        PlacementTouched
<1>. QED
  BY <1>1, <1>2, <1>3, <1>4, OutsideNamed DEF OCM

-----------------------------------------------------------------------------
LEMMA OwnershipInit == Init => OInv
BY TypeInit DEF Init, OInv, WorksNamed, PlacementsNamed, MemoryNamed, LocalsNamed

LEMMA OwnershipStep ==
  ASSUME NamesApart
  PROVE  OInv /\ [Next]_vars => OInv' /\ Mine
<1>. SUFFICES ASSUME OInv, [Next]_vars PROVE OInv' /\ Mine
  OBVIOUS
<1>1. TInv'
  BY TypeStep DEF OInv
<1>2. CASE UNCHANGED vars
  BY <1>1, <1>2, HubSame, OutsideNamed DEF vars, hub, locals
<1>3. CASE Reconcile
  BY <1>1, <1>3, AdmissionMine, ValidationMine, PlacingMine, CleaningMine,
     PushingMine, ConcludingMine, DeletingMine DEF Reconcile
<1>. QED
  BY <1>1, <1>2, <1>3, ControlMine, EnvironmentMine DEF Next

\* A reconciliation creates, changes and deletes only ManifestWorks with its
\* manifest's label and placements its manifest owns, if no name is made for
\* two manifests: through edits, restarts, failed calls and a lagging cache.
THEOREM OwnershipCorrect ==
  ASSUME NamesApart
  PROVE  Spec => StaysWithItsOwn
<1>1. OInv /\ [Next]_vars => OInv'
  BY OwnershipStep
<1>2. OInv /\ [Next]_vars =>
        [/\ \A k \in Keys : Touched(k) =>
              cur # Nil /\ works'[k].label = OwnerLabel(cur)
         /\ \A n \in ResourceNames : PlacementTouched(n) =>
              /\ cur # Nil
              /\ placements[n] # Nil => placements[n].owner = cur
              /\ placements'[n] # Nil => placements'[n].owner = cur]_vars
  BY OwnershipStep DEF Mine
<1>. QED
  BY <1>1, <1>2, OwnershipInit, PTL DEF Spec, StaysWithItsOwn

-----------------------------------------------------------------------------
(***************************************************************************)
(* What the bundles of a reconciliation are, from the spec they are made   *)
(* of to the status reported for them: facts that the proofs about the     *)
(* contract and about delivered manifests rest on.                         *)
(*                                                                         *)
(* A reconciliation works on a copy of its manifest, and the manifest can  *)
(* be edited at any moment.  The bundles are those of the manifest as it   *)
(* is, or the edit has put the manifest back on the queue.  Of two bundles *)
(* in hand no two have one name, so what is done to the objects of one is  *)
(* not done to those of another, as long as names do not meet.             *)
(***************************************************************************)


\* No two prefixes and manifests make one name, and no bundle is named like a
\* cluster, which is a prefix of its own.
NamesDistinct ==
  /\ \A p, q \in Prefixes, c, d \in CRs :
       ResourceName(p, c) = ResourceName(q, d) => p = q /\ c = d
  /\ \A x \in Clusters : <<x>> \notin BundleNames

LabelsApart == \A c, d \in CRs : OwnerLabel(c) = OwnerLabel(d) => c = d

-----------------------------------------------------------------------------
\* When names do not meet.

\* Every name that is made is qualified as it stands, so that none is cut, and
\* manifests have no hyphen in their names.
PlainNames ==
  /\ \A p \in Prefixes, c \in CRs : IsQualifiedName(p \o <<Hyphen>> \o c)
  /\ \A c \in CRs : IsQualifiedName(c) /\ \A i \in 1..Len(c) : c[i] # Hyphen
  /\ \A x \in Clusters : <<x>> \notin BundleNames

\* What two names joined with a hyphen look like.
LEMMA JoinedIs ==
  ASSUME NEW Tokens, Hyphen \in Tokens, NEW p \in Seq(Tokens), NEW c \in Seq(Tokens)
  PROVE  LET n == p \o <<Hyphen>> \o c
         IN  /\ Len(n) = Len(p) + 1 + Len(c)
             /\ \A i \in 1..Len(p) : n[i] = p[i]
             /\ n[Len(p) + 1] = Hyphen
             /\ \A i \in 1..Len(c) : n[Len(p) + 1 + i] = c[i]
<1>. DEFINE m == p \o <<Hyphen>>
            n == m \o c
<1>1. Len(p) \in Nat /\ Len(c) \in Nat
  BY LenProperties
<1>2. <<Hyphen>> \in Seq(Tokens) /\ Len(<<Hyphen>>) = 1 /\ <<Hyphen>>[1] = Hyphen
  OBVIOUS
<1>3. /\ m \in Seq(Tokens) /\ Len(m) = Len(p) + 1
      /\ \A i \in 1..(Len(p) + 1) :
           m[i] = IF i <= Len(p) THEN p[i] ELSE <<Hyphen>>[i - Len(p)]
  BY <1>2, ConcatProperties
<1>. HIDE DEF m
<1>4. /\ Len(n) = Len(m) + Len(c)
      /\ \A i \in 1..(Len(m) + Len(c)) :
           n[i] = IF i <= Len(m) THEN m[i] ELSE c[i - Len(m)]
  <2>1. m \in Seq(Tokens) /\ c \in Seq(Tokens)
    BY <1>3
  <2>. QED
    BY ONLY <2>1, ConcatProperties
<1>. HIDE DEF n
<1>5. ASSUME NEW i \in 1..Len(p)
      PROVE  n[i] = p[i]
  <2>1. i \in 1..(Len(p) + 1) /\ i \in 1..(Len(m) + Len(c)) /\ i <= Len(p) /\ i <= Len(m)
    BY <1>1, <1>3
  <2>2. m[i] = p[i]
    BY <1>3, <2>1
  <2>3. n[i] = m[i]
    BY <1>4, <2>1
  <2>. QED
    BY <2>2, <2>3
<1>6. n[Len(p) + 1] = Hyphen
  <2>1. n[Len(p) + 1] = m[Len(p) + 1] /\ m[Len(p) + 1] = <<Hyphen>>[1]
    BY <1>1, <1>3, <1>4
  <2>. QED
    BY <1>2, <2>1
<1>7. ASSUME NEW i \in 1..Len(c)
      PROVE  n[Len(p) + 1 + i] = c[i]
  <2>1. /\ Len(p) + 1 + i \in 1..(Len(m) + Len(c))
        /\ ~(Len(p) + 1 + i <= Len(m))
        /\ (Len(p) + 1 + i) - Len(m) = i
    BY <1>1, <1>3
  <2>. QED
    BY <1>4, <2>1
<1>. QED
  BY <1>1, <1>3, <1>4, <1>5, <1>6, <1>7 DEF n, m

\* A name joined of two, bundleName-manifestName (bundle.go:127), says which two
\* they are if the second has no hyphen.
LEMMA JoinedApart ==
  ASSUME NEW Tokens, Hyphen \in Tokens,
         NEW p \in Seq(Tokens), NEW c \in Seq(Tokens),
         NEW q \in Seq(Tokens), NEW d \in Seq(Tokens),
         \A i \in 1..Len(c) : c[i] # Hyphen,
         \A i \in 1..Len(d) : d[i] # Hyphen,
         p \o <<Hyphen>> \o c = q \o <<Hyphen>> \o d
  PROVE  p = q /\ c = d
<1>. DEFINE n == p \o <<Hyphen>> \o c
<1>1. /\ Len(p) \in Nat /\ Len(c) \in Nat
      /\ Len(q) \in Nat /\ Len(d) \in Nat
  BY LenProperties
<1>2. /\ Len(n) = Len(p) + 1 + Len(c)
      /\ \A i \in 1..Len(p) : n[i] = p[i]
      /\ n[Len(p) + 1] = Hyphen
      /\ \A i \in 1..Len(c) : n[Len(p) + 1 + i] = c[i]
  BY JoinedIs
<1>3. /\ Len(n) = Len(q) + 1 + Len(d)
      /\ \A i \in 1..Len(q) : n[i] = q[i]
      /\ n[Len(q) + 1] = Hyphen
      /\ \A i \in 1..Len(d) : n[Len(q) + 1 + i] = d[i]
  <2>. DEFINE k == q \o <<Hyphen>> \o d
  <2>1. /\ Len(k) = Len(q) + 1 + Len(d)
        /\ \A i \in 1..Len(q) : k[i] = q[i]
        /\ k[Len(q) + 1] = Hyphen
        /\ \A i \in 1..Len(d) : k[Len(q) + 1 + i] = d[i]
    BY JoinedIs
  <2>2. n = k
    OBVIOUS
  <2>. HIDE DEF n, k
  <2>. QED
    BY <2>1, <2>2
<1>. HIDE DEF n
<1>4. ~(Len(p) < Len(q))
  <2>. SUFFICES ASSUME Len(p) < Len(q) PROVE FALSE
    OBVIOUS
  <2>. DEFINE i == Len(q) - Len(p)
  <2>1. i \in 1..Len(c) /\ Len(p) + 1 + i = Len(q) + 1
    BY <1>1, <1>2, <1>3
  <2>. HIDE DEF i
  <2>2. n[Len(p) + 1 + i] = c[i] /\ c[i] # Hyphen
    BY <1>2, <2>1
  <2>. QED
    BY <1>3, <2>1, <2>2
<1>5. ~(Len(q) < Len(p))
  <2>. SUFFICES ASSUME Len(q) < Len(p) PROVE FALSE
    OBVIOUS
  <2>. DEFINE i == Len(p) - Len(q)
  <2>1. i \in 1..Len(d) /\ Len(q) + 1 + i = Len(p) + 1
    BY <1>1, <1>2, <1>3
  <2>. HIDE DEF i
  <2>2. n[Len(q) + 1 + i] = d[i] /\ d[i] # Hyphen
    BY <1>3, <2>1
  <2>. QED
    BY <1>2, <2>1, <2>2
<1>6. Len(p) = Len(q) /\ Len(c) = Len(d)
  BY <1>1, <1>2, <1>3, <1>4, <1>5
<1>7. p = q
  BY <1>2, <1>3, <1>6, SeqEqual
<1>8. c = d
  BY <1>2, <1>3, <1>6, SeqEqual
<1>. QED
  BY <1>7, <1>8

\* A condition on the names of manifests and bundles under which the names of
\* placements and ManifestWorks (bundle.go:127) and the owner labels do not
\* meet.  Without it they can: a hyphen is allowed in all of them, and what is
\* no qualified name is cut (utils.go:18-19), if it is long enough to be.
THEOREM PlainNamesApart ==
  ASSUME NEW Tokens, Hyphen \in Tokens,
         Prefixes \subseteq Seq(Tokens), CRs \subseteq Seq(Tokens), PlainNames
  PROVE  NamesDistinct /\ LabelsApart
<1>1. ASSUME NEW p \in Prefixes, NEW c \in CRs
      PROVE  ResourceName(p, c) = p \o <<Hyphen>> \o c
  <2>1. IsQualifiedName(p \o <<Hyphen>> \o c)
    BY DEF PlainNames
  <2>. QED
    BY <2>1 DEF ResourceName, TruncateNameIfNeeded
<1>2. \A p, q \in Prefixes, c, d \in CRs :
        ResourceName(p, c) = ResourceName(q, d) => p = q /\ c = d
  <2>. SUFFICES ASSUME NEW p \in Prefixes, NEW q \in Prefixes,
                       NEW c \in CRs, NEW d \in CRs,
                       ResourceName(p, c) = ResourceName(q, d)
                PROVE  p = q /\ c = d
    OBVIOUS
  <2>1. p \o <<Hyphen>> \o c = q \o <<Hyphen>> \o d
    BY <1>1
  <2>2. /\ \A i \in 1..Len(c) : c[i] # Hyphen
        /\ \A i \in 1..Len(d) : d[i] # Hyphen
    BY DEF PlainNames
  <2>3. /\ p \in Seq(Tokens) /\ c \in Seq(Tokens)
        /\ q \in Seq(Tokens) /\ d \in Seq(Tokens)
    OBVIOUS
  <2>. QED
    BY ONLY <2>1, <2>2, <2>3, JoinedApart, Hyphen \in Tokens
<1>3. ASSUME NEW c \in CRs
      PROVE  OwnerLabel(c) = c
  BY DEF PlainNames, OwnerLabel, TruncateNameIfNeeded
<1>. QED
  BY <1>2, <1>3 DEF NamesDistinct, LabelsApart, PlainNames

-----------------------------------------------------------------------------
\* Bundles and specs.

\* The name of a bundle and that of its resources belong together.
NamedBy(b, c) ==
  \/ b.name \in BundleNames /\ b.resourceName = ResourceName(b.name, c)
  \/ b.name = c /\ \E x \in Clusters : b.resourceName = ResourceName(<<x>>, c)

\* The same bundle, wherever it is placed.
Alike(a, b) ==
  /\ a.name = b.name /\ a.resourceName = b.resourceName
  /\ a.rules = b.rules /\ a.res = b.res
  /\ a.absent = b.absent /\ a.needs = b.needs

\* The bundles of a spec, placed or not yet placed.
Carries(bs, c, s) ==
  /\ \A b \in bs : \E a \in BundlesOf(c, s) : Alike(a, b)
  /\ \A a \in BundlesOf(c, s) : \E b \in bs : Alike(a, b)
  /\ \A a, b \in bs : a.name = b.name => a = b

\* The spec is the manifest's, or the manifest waits to be looked at again.
UpToDate(c, s) == cr[c] # Nil /\ c \notin queue => cr[c].spec = s

-----------------------------------------------------------------------------
\* The inductive invariant.

PlacingSteps   == {"place", "settle", "announce"}
CommittedSteps == {"clean", "drop", "push", "check", "unlink", "link"}

Carrying ==
  \E s \in Specs : Accepted(s) /\ Carries(bundles, cur, s) /\ UpToDate(cur, s)

IdleCur == pc = "idle" => cur = Nil

CopyCurrent == pc \in {"mark", "admit", "analyse"} => UpToDate(cur, obj.spec)

BundlesCarry == pc \in PlacingSteps \cup CommittedSteps => Carrying

\* What a loop has left is of what it visits.
LoopsVisit ==
  /\ pc \in {"place", "settle", "push"} => todo \subseteq bundles
  /\ pc \in {"clean", "drop"} => todo \subseteq memory[cur]
  /\ pc = "drop" => Dropped(turn, bundles)

\* A success is reported, and remembered, of bundles that are all placed, and
\* with their decisions.
VerdictTrue ==
  pc = "report" =>
    /\ verdict.save = TRUE => verdict.state \in Delivered
    /\ verdict.state \in Delivered =>
         /\ Carrying /\ verdict.decisions = DecisionsOf(bundles)
         /\ \A b \in bundles : Placed(b)

MemoryMade == \A c \in CRs : \A b \in memory[c] : NamedBy(b, c)

BInv ==
  /\ TInv /\ IdleCur /\ CopyCurrent /\ BundlesCarry /\ LoopsVisit
  /\ VerdictTrue /\ MemoryMade

-----------------------------------------------------------------------------
\* Facts about names and bundles.

LEMMA DistinctApart == NamesDistinct => NamesApart
BY DEF NamesDistinct, NamesApart

\* Resources with one name are those of one bundle.
LEMMA SameName ==
  ASSUME NamesDistinct, NEW c \in CRs, NEW a, NEW b, NamedBy(a, c), NamedBy(b, c),
         a.resourceName = b.resourceName
  PROVE  a.name = b.name
<1>1. BundleNames \subseteq Prefixes /\ \A x \in Clusters : <<x>> \in Prefixes
  BY DEF Prefixes
<1>2. CASE a.name \in BundleNames /\ a.resourceName = ResourceName(a.name, c)
  <2>1. CASE b.name \in BundleNames /\ b.resourceName = ResourceName(b.name, c)
    <3>1. ResourceName(a.name, c) = ResourceName(b.name, c)
      BY <1>2, <2>1
    <3>2. a.name \in Prefixes /\ b.name \in Prefixes
      BY <1>1, <1>2, <2>1
    <3>. QED
      BY <3>1, <3>2 DEF NamesDistinct
  <2>2. CASE b.name = c /\ \E x \in Clusters : b.resourceName = ResourceName(<<x>>, c)
    <3>1. PICK x \in Clusters : b.resourceName = ResourceName(<<x>>, c)
      BY <2>2
    <3>2. ResourceName(a.name, c) = ResourceName(<<x>>, c)
      BY <1>2, <3>1
    <3>3. a.name = <<x>>
      BY <1>1, <1>2, <3>2 DEF NamesDistinct
    <3>. QED
      BY <1>2, <3>3 DEF NamesDistinct
  <2>. QED
    BY <2>1, <2>2 DEF NamedBy
<1>3. CASE a.name = c /\ \E x \in Clusters : a.resourceName = ResourceName(<<x>>, c)
  <2>1. CASE b.name \in BundleNames /\ b.resourceName = ResourceName(b.name, c)
    <3>1. PICK x \in Clusters : a.resourceName = ResourceName(<<x>>, c)
      BY <1>3
    <3>2. ResourceName(b.name, c) = ResourceName(<<x>>, c)
      BY <2>1, <3>1
    <3>3. b.name = <<x>>
      BY <1>1, <2>1, <3>2 DEF NamesDistinct
    <3>. QED
      BY <2>1, <3>3 DEF NamesDistinct
  <2>2. CASE b.name = c /\ \E x \in Clusters : b.resourceName = ResourceName(<<x>>, c)
    BY <1>3, <2>2
  <2>. QED
    BY <2>1, <2>2 DEF NamedBy
<1>. QED
  BY <1>2, <1>3 DEF NamedBy

LEMMA BundlesMade ==
  ASSUME NEW c \in CRs, NEW s \in Specs, Accepted(s)
  PROVE  \A b \in BundlesOf(c, s) : NamedBy(b, c)
<1>1. CASE s.cluster # Nil
  <2>1. s.cluster \in Clusters
    BY <1>1, SchedulerAssumption DEF Accepted, BadTarget, SchedulerAssumption
  <2>. QED
    BY <1>1, <2>1 DEF BundlesOf, WholeBundle, NamedBy
<1>2. CASE s.cluster = Nil /\ s.annotated
  <2>. SUFFICES ASSUME NEW i \in DOMAIN s.workloads
                PROVE  NamedBy(WorkloadBundle(s.workloads[i], c, s), c)
    BY <1>2 DEF BundlesOf
  <2>1. s.workloads[i].name \in BundleNames
    BY DEF Workloads, BundleNames
  <2>. QED
    BY <2>1 DEF WorkloadBundle, NamedBy
<1>3. CASE s.cluster = Nil /\ ~s.annotated
  <2>1. {DefaultName, GlobalName} \subseteq BundleNames
    BY DEF BundleNames
  <2>. QED
    BY <1>3, <2>1 DEF BundlesOf, WholeBundle, NamedBy
<1>. QED
  BY <1>1, <1>2, <1>3

\* Of the workloads with one name only the last has a bundle.
LEMMA BundlesDiffer ==
  ASSUME NEW c \in CRs, NEW s \in Specs
  PROVE  \A a, b \in BundlesOf(c, s) : a.name = b.name => a = b
<1>1. CASE s.cluster # Nil \/ ~s.annotated
  BY <1>1 DEF BundlesOf
<1>2. CASE s.cluster = Nil /\ s.annotated
  <2>. DEFINE last == {j \in DOMAIN s.workloads : LastOfName(s, j)}
  <2>1. BundlesOf(c, s) = {WorkloadBundle(s.workloads[i], c, s) : i \in last}
    BY <1>2 DEF BundlesOf
  <2>2. \A i \in last : WorkloadBundle(s.workloads[i], c, s).name = s.workloads[i].name
    BY DEF WorkloadBundle
  <2>3. DOMAIN s.workloads = 1..Len(s.workloads) /\ Len(s.workloads) \in Nat
    BY SchedulerAssumption DEF SchedulerAssumption
  <2>4. \A i, j \in last : s.workloads[i].name = s.workloads[j].name => i = j
    BY <2>3 DEF LastOfName
  <2>. QED
    BY <2>1, <2>2, <2>4
<1>. QED
  BY <1>1, <1>2

\* The bundles as they are made carry their spec.
LEMMA MadeCarries ==
  ASSUME NEW c \in CRs, NEW s \in Specs
  PROVE  Carries(BundlesOf(c, s), c, s)
BY BundlesDiffer DEF Carries, Alike

LEMMA CarriedMade ==
  ASSUME NEW c \in CRs, NEW s \in Specs, Accepted(s), NEW bs, Carries(bs, c, s)
  PROVE  \A b \in bs : NamedBy(b, c)
BY BundlesMade DEF Carries, Alike, NamedBy

\* Placing one bundle of many leaves them the bundles of their spec.
LEMMA PlacedCarries ==
  ASSUME NEW c, NEW s, NEW bs \in SUBSET Bundles, Carries(bs, c, s),
         NEW b \in bs, NEW x
  PROVE  Carries((bs \ {b}) \cup {[b EXCEPT !.cluster = x]}, c, s)
<1>. DEFINE p == [b EXCEPT !.cluster = x]
            new == (bs \ {b}) \cup {p}
<1>1. Alike(b, p) /\ p.name = b.name
  BY DEF Bundles, Alike
<1>2. \A a \in new : \E o \in bs : Alike(o, a)
  BY <1>1 DEF Alike
<1>3. \A o \in bs : \E a \in new : Alike(o, a)
  BY <1>1 DEF Alike
<1>4. \A a \in new : \E o \in BundlesOf(c, s) : Alike(o, a)
  BY <1>2 DEF Carries, Alike
<1>5. \A o \in BundlesOf(c, s) : \E a \in new : Alike(o, a)
  BY <1>3 DEF Carries, Alike
<1>6. \A a, o \in new : a.name = o.name => a = o
  BY <1>1 DEF Carries
<1>. QED
  BY <1>4, <1>5, <1>6 DEF Carries

-----------------------------------------------------------------------------
\* Edits bring a manifest back to the queue.

\* A manifest that is not on the queue after a step is there with its spec
\* before the step, and not on the queue either.
SpecsKept ==
  \A c \in CRs : cr'[c] # Nil /\ c \notin queue' =>
    cr[c] # Nil /\ c \notin queue /\ cr'[c].spec = cr[c].spec

\* What a written status leaves of a manifest.
LEMMA StatusFields ==
  ASSUME TInv, cur \in CRs, NEW st \in States, NEW ds \in SUBSET Decisions,
         UpdateStatus(st, ds)
  PROVE  /\ cr[cur] # Nil /\ cr'[cur] # Nil
         /\ cr'[cur].spec = cr[cur].spec /\ cr'[cur].spec \in Specs
         /\ cr'[cur].state = st /\ cr'[cur].decisions = ds
         /\ \A c \in CRs \ {cur} : cr'[c] = cr[c]
<1>1. cr[cur] \in CRRecords /\ cr \in [CRs -> CRRecords \cup {Nil}]
  BY DEF TInv, TypeOK, HubOK, UpdateStatus
<1>. DEFINE r == [cr[cur] EXCEPT !.state = st, !.decisions = ds]
<1>2. r \in CRRecords /\ r.state = st /\ r.decisions = ds /\ r.spec = cr[cur].spec
  BY <1>1 DEF CRRecords
<1>3. cr' = [cr EXCEPT ![cur] = r]
  BY <1>1 DEF UpdateStatus
<1>4. cr'[cur] = r /\ r # Nil /\ r.spec \in Specs
  BY <1>1, <1>2, <1>3, NilAssumption DEF NilAssumption, CRRecords
<1>5. \A c \in CRs \ {cur} : cr'[c] = cr[c]
  BY <1>1, <1>3
<1>. QED
  BY <1>2, <1>4, <1>5 DEF UpdateStatus

LEMMA StatusSpecs ==
  ASSUME TInv, cur \in CRs, NEW st \in States, NEW ds \in SUBSET Decisions,
         UpdateStatus(st, ds), queue' = queue
  PROVE  SpecsKept
BY StatusFields DEF SpecsKept

LEMMA HubSpecs ==
  ASSUME cr' = cr, queue \subseteq queue'
  PROVE  SpecsKept
BY DEF SpecsKept

LEMMA ReconcileSpecs == TInv /\ Reconcile => SpecsKept
<1>1. ASSUME TInv, MarkInProgress \/ RejectNamespace \/ BeginFinalizing
      PROVE  SpecsKept
  <2>1. cur \in CRs /\ queue' = queue
    BY <1>1 DEF TInv, Working, MarkInProgress, RejectNamespace, BeginFinalizing, queues
  <2>2. \E st \in {InProgress, Misconfigured, Finalizing} : UpdateStatus(st, {})
    BY <1>1 DEF MarkInProgress, RejectNamespace, BeginFinalizing
  <2>. QED
    BY <1>1, <2>1, <2>2, StatesAreStates, StatusSpecs
<1>2. ASSUME TInv, AnnounceDecisions PROVE SpecsKept
  <2>1. DecisionsOf(bundles) \in SUBSET Decisions
    BY <1>2, DecisionsTyped DEF TInv, TypeOK, LocalsOK, PlacedSoFar, AnnounceDecisions
  <2>. QED
    BY <1>2, <2>1, StatesAreStates, StatusSpecs DEF TInv, Working, AnnounceDecisions, queues
<1>3. ASSUME TInv, ReportStatus PROVE SpecsKept
  BY <1>3, StatusSpecs DEF TInv, Working, VerdictReady, Verdicts, ReportStatus, queues
<1>4. ASSUME TInv, EnsureFinalizer PROVE SpecsKept
  <2>1. CASE obj.fin
    BY <1>4, <2>1 DEF EnsureFinalizer, queues, SpecsKept
  <2>2. CASE ~obj.fin
    <3>1. cr[cur] \in CRRecords /\ cr \in [CRs -> CRRecords \cup {Nil}]
      BY <1>4, <2>2 DEF TInv, TypeOK, HubOK, Working, EnsureFinalizer
    <3>2. cr' = [cr EXCEPT ![cur] = [cr[cur] EXCEPT !.fin = TRUE]] /\ cr[cur] # Nil
      BY <1>4, <2>2 DEF EnsureFinalizer
    <3>3. [cr[cur] EXCEPT !.fin = TRUE].spec = cr[cur].spec
      BY <3>1 DEF CRRecords
    <3>4. \A c \in CRs : cr'[c] # Nil => cr[c] # Nil /\ cr'[c].spec = cr[c].spec
      BY <3>1, <3>2, <3>3
    <3>. QED
      BY <1>4, <3>4 DEF EnsureFinalizer, queues, SpecsKept
  <2>. QED
    BY <2>1, <2>2
<1>5. ASSUME TInv, RemoveFinalizer PROVE SpecsKept
  BY <1>5 DEF TInv, TypeOK, HubOK, RemoveFinalizer, SpecsKept
<1>6. ASSUME TInv, \/ ObjectGone \/ Validation \/ Cleaning \/ Pushing
                   \/ RemoveOldLinks \/ RegisterLinks \/ DeleteLinks
                   \/ \E k \in todo : DeleteOwnedWork(k) \/ WorkGone(k)
      PROVE  SpecsKept
  <2>1. cr' = cr
    BY <1>6 DEF ObjectGone, Validation, Refuse, AnalysisFails, BundleForTarget,
       BundleForPlacement, Cleaning, DropWork, MoveBundle, DropPlacement,
       Pushing, CreateWork, UpdateWork, WorkAlreadyExists, WorksNotReady,
       WorksFailed, WorksApplied, RemoveOldLinks, RegisterLinks, DeleteLinks,
       DeleteOwnedWork, WorkGone, hub
  <2>2. queue \subseteq queue'
    BY <1>6 DEF ObjectGone, Validation, Refuse, AnalysisFails, BundleForTarget,
       BundleForPlacement, Cleaning, DropWork, MoveBundle, DropPlacement,
       Pushing, CreateWork, UpdateWork, WorkAlreadyExists, WorksNotReady,
       WorksFailed, WorksApplied, RemoveOldLinks, RegisterLinks, DeleteLinks,
       DeleteOwnedWork, WorkGone, queues
  <2>. QED
    BY <2>1, <2>2, HubSpecs
<1>7. ASSUME \/ PlacementGone \/ DecisionPending \/ PlacementUnsatisfied
             \/ PlacementSatisfied \/ \E b \in todo : CreatePlacement(b) \/ UpdatePlacement(b)
      PROVE  SpecsKept
  BY <1>7, HubSpecs DEF PlacementGone, DecisionPending, PlacementUnsatisfied,
     PlacementSatisfied, CreatePlacement, UpdatePlacement, hub, queues
<1>. QED
  BY <1>1, <1>2, <1>3, <1>4, <1>5, <1>6, <1>7
  DEF Reconcile, Admission, Placing, Concluding, Deleting

LEMMA OutsideSpecs ==
  TInv /\ (Users \/ OCM \/ CacheSync \/ \E c \in CRs : TimerFires(c)) => SpecsKept
<1>1. ASSUME OCM \/ CacheSync \/ \E c \in CRs : TimerFires(c) PROVE SpecsKept
  BY <1>1, HubSpecs DEF OCM, OCMDecides, GarbageCollect, AgentReports,
     AgentFinalizes, CacheSync, TimerFires, hub, queues
<1>2. ASSUME TInv, Users PROVE SpecsKept
  <2>1. PICK c \in CRs : UserDelete(c) \/ \E s \in Specs : UserCreate(c, s) \/ UserEdit(c, s)
    BY <1>2 DEF Users
  <2>2. /\ queue' = queue \cup {c}
        /\ \A d \in CRs \ {c} : cr'[d] = cr[d]
    BY <1>2, <2>1 DEF TInv, TypeOK, HubOK, UserDelete, UserCreate, UserEdit
  <2>. QED
    BY <2>2 DEF SpecsKept
<1>. QED
  BY <1>1, <1>2

-----------------------------------------------------------------------------
\* The ways a step can leave a reconciliation.

LEMMA EndsMade ==
  ASSUME BInv, TInv', MemoryMade', Return
  PROVE  BInv'
BY DEF BInv, IdleCur, CopyCurrent, BundlesCarry, LoopsVisit, VerdictTrue,
   PlacingSteps, CommittedSteps, Return

LEMMA MemorySame ==
  ASSUME BInv, memory' = memory
  PROVE  MemoryMade'
BY DEF BInv, MemoryMade, NamedBy

\* A bundling, and what is known of its spec, lasts.
LEMMA CarriedOn ==
  ASSUME BInv, SpecsKept, UNCHANGED <<cur, bundles>>, cur \in CRs, Carrying
  PROVE  Carrying'
BY DEF Carrying, SpecsKept, UpToDate, Carries

LEMMA GoesOnMade ==
  ASSUME BInv, TInv', SpecsKept, UNCHANGED <<memory, cur, bundles>>,
         pc \in PlacingSteps \cup CommittedSteps,
         pc' \in PlacingSteps \cup CommittedSteps \cup {"report"},
         LoopsVisit', pc' = "report" => VerdictTrue'
  PROVE  BInv'
<1>1. cur \in CRs /\ Carrying
  BY DEF BInv, TInv, Working, BundlesCarry, PlacingSteps, CommittedSteps
<1>2. Carrying'
  BY <1>1, CarriedOn
<1>. QED
  BY <1>2, MemorySame DEF BInv, IdleCur, CopyCurrent, BundlesCarry, VerdictTrue,
     PlacingSteps, CommittedSteps

\* A reconciliation that has no bundles, or needs them no more.
LEMMA WithoutBundles ==
  ASSUME BInv, TInv', MemoryMade',
         pc' \in {"finalize", "deleteWorks", "deleteLinks", "release"}
  PROVE  BInv'
BY DEF BInv, IdleCur, CopyCurrent, BundlesCarry, LoopsVisit, VerdictTrue,
   PlacingSteps, CommittedSteps

LEMMA AsideMade ==
  ASSUME BInv, TInv', SpecsKept,
         UNCHANGED <<memory, pc, cur, obj, bundles, todo, turn, verdict>>
  PROVE  BInv'
<1>1. CASE pc = "idle"
  BY <1>1, EndsMade, MemorySame DEF BInv, IdleCur, CopyCurrent, BundlesCarry,
     LoopsVisit, VerdictTrue, PlacingSteps, CommittedSteps
<1>2. CASE pc # "idle"
  <2>1. cur \in CRs
    BY <1>2 DEF BInv, TInv, Working
  <2>2. Carrying => Carrying'
    BY <2>1, CarriedOn
  <2>3. CopyCurrent'
    BY <2>1 DEF BInv, CopyCurrent, SpecsKept, UpToDate
  <2>4. LoopsVisit'
    BY DEF BInv, LoopsVisit, Dropped
  <2>5. VerdictTrue'
    BY <2>2 DEF BInv, VerdictTrue, Placed, DecisionsOf
  <2>. QED
    BY <1>2, <2>2, <2>3, <2>4, <2>5, MemorySame DEF BInv, IdleCur, BundlesCarry
<1>. QED
  BY <1>1, <1>2

-----------------------------------------------------------------------------
\* The reconciliation, stage by stage.

LEMMA AdmissionMade == BInv /\ TInv' /\ SpecsKept /\ Admission => BInv'
<1>1. ASSUME BInv, TInv', RejectNamespace \/ ObjectGone PROVE BInv'
  BY <1>1, EndsMade, MemorySame DEF RejectNamespace, ObjectGone, Requeue
<1>2. ASSUME BInv, TInv', SpecsKept, MarkInProgress \/ EnsureFinalizer
      PROVE  BInv'
  <2>1. /\ pc \in {"mark", "admit"} /\ cur' = cur /\ memory' = memory
        /\ pc' \in {"admit", "finalize", "analyse"}
        /\ \/ obj' = cr'[cur]
           \/ obj' = obj
    BY <1>2 DEF MarkInProgress, EnsureFinalizer, AfterAdmission
  <2>2. cur \in CRs
    BY <1>2, <2>1 DEF BInv, TInv, Working
  <2>3. UpToDate(cur, obj.spec)
    BY <1>2, <2>1 DEF BInv, CopyCurrent
  <2>4. UpToDate(cur, obj.spec)'
    BY <1>2, <2>1, <2>2, <2>3 DEF UpToDate, SpecsKept
  <2>. QED
    BY <1>2, <2>1, <2>4, MemorySame DEF BInv, IdleCur, CopyCurrent, BundlesCarry,
       LoopsVisit, VerdictTrue, PlacingSteps, CommittedSteps
<1>. QED
  BY <1>1, <1>2 DEF Admission

LEMMA ValidationMade == BInv /\ TInv' /\ SpecsKept /\ Validation => BInv'
<1>1. ASSUME BInv, TInv', AnalysisFails PROVE BInv'
  BY <1>1, EndsMade, MemorySame DEF AnalysisFails, Requeue
<1>2. ASSUME BInv, TInv', Refuse PROVE BInv'
  <2>1. pc' = "report" /\ memory' = memory
    BY <1>2 DEF Refuse, Report
  <2>2. verdict'.save = FALSE /\ verdict'.state \in {Misconfigured, Failed}
    BY <1>2 DEF Refuse, Report
  <2>. QED
    BY <1>2, <2>1, <2>2, MemorySame DEF BInv, IdleCur, CopyCurrent, BundlesCarry,
       LoopsVisit, VerdictTrue, PlacingSteps, CommittedSteps, Delivered,
       Misconfigured, Failed, Successful, Unreliable, Tentative
<1>3. ASSUME BInv, TInv', SpecsKept, BundleForTarget \/ BundleForPlacement
      PROVE  BInv'
  <2>. DEFINE bs == BundlesOf(cur, obj.spec)
  <2>1. /\ pc = "analyse" /\ cur' = cur /\ memory' = memory /\ bundles' = bs
        /\ Accepted(obj.spec)
    BY <1>3 DEF BundleForTarget, BundleForPlacement
  <2>2. cur \in CRs /\ obj.spec \in Specs
    BY <1>3, <2>1 DEF BInv, TInv, Working, CRRecords
  <2>3. UpToDate(cur, obj.spec)
    BY <1>3, <2>1 DEF BInv, CopyCurrent
  <2>4. UpToDate(cur, obj.spec)'
    <3>1. obj' = obj
      BY <1>3 DEF BundleForTarget, BundleForPlacement
    <3>. QED
      BY <1>3, <2>1, <2>2, <2>3, <3>1 DEF UpToDate, SpecsKept
  <2>5. obj' = obj
    BY <1>3 DEF BundleForTarget, BundleForPlacement
  <2>6. Carries(bs, cur, obj.spec)
    BY <2>2, MadeCarries
  <2>7. Carrying'
    <3>. DEFINE s == obj.spec
    <3>1. Carries(bundles', cur', s)
      BY <2>1, <2>6
    <3>2. cr'[cur'] # Nil /\ cur' \notin queue' => cr'[cur'].spec = s
      BY <2>4, <2>5 DEF UpToDate
    <3>. QED
      BY <2>1, <2>2, <3>1, <3>2 DEF Carrying, UpToDate
  <2>8. /\ pc' \in {"place", "announce", "clean", "push", "check"}
        /\ pc' \in {"place", "push"} => todo' = bundles'
        /\ pc' = "clean" => todo' = Stale(bs)
    BY <1>3 DEF BundleForTarget, BundleForPlacement, GoClean, GoPush, GoPlace,
       PlacingSteps, CommittedSteps
  <2>9. LoopsVisit'
    BY <2>1, <2>8 DEF LoopsVisit, Stale, PlacingSteps, CommittedSteps
  <2>. QED
    BY <1>3, <2>1, <2>7, <2>8, <2>9, MemorySame DEF BInv, IdleCur, CopyCurrent,
       BundlesCarry, VerdictTrue, PlacingSteps, CommittedSteps
<1>. QED
  BY <1>1, <1>2, <1>3 DEF Validation

LEMMA PlacingMade == BInv /\ TInv' /\ SpecsKept /\ Placing => BInv'
<1>1. ASSUME BInv, TInv', PlacementGone \/ DecisionPending \/ \E b \in todo : CreatePlacement(b)
      PROVE  BInv'
  BY <1>1, EndsMade, MemorySame DEF PlacementGone, DecisionPending, CreatePlacement, Requeue
<1>2. ASSUME BInv, TInv', SpecsKept, NEW b \in todo, UpdatePlacement(b) PROVE BInv'
  <2>1. /\ pc = "place" /\ pc' = "settle" /\ UNCHANGED <<memory, cur, bundles, todo>>
    BY <1>2 DEF UpdatePlacement
  <2>2. LoopsVisit'
    BY <1>2, <2>1 DEF BInv, LoopsVisit
  <2>. QED
    BY <1>2, <2>1, <2>2, GoesOnMade DEF PlacingSteps, CommittedSteps
<1>3. ASSUME BInv, TInv', SpecsKept, PlacementUnsatisfied PROVE BInv'
  <2>1. /\ pc = "settle" /\ pc' = "report" /\ UNCHANGED <<memory, cur, bundles, todo>>
        /\ verdict'.save = FALSE /\ verdict'.state = Failed
    BY <1>3 DEF PlacementUnsatisfied, Report
  <2>2. LoopsVisit' /\ VerdictTrue'
    BY <2>1 DEF LoopsVisit, VerdictTrue, Delivered, Failed, Successful, Unreliable, Tentative
  <2>. QED
    BY <1>3, <2>1, <2>2, GoesOnMade DEF PlacingSteps, CommittedSteps
<1>4. ASSUME BInv, TInv', SpecsKept, PlacementSatisfied PROVE BInv'
  <2>1. /\ pc = "settle" /\ pc' \in {"announce", "place"} /\ UNCHANGED <<memory, cur>>
        /\ todo' = todo \ {turn}
    BY <1>4 DEF PlacementSatisfied, GoPlace
  <2>2. PICK x : bundles' = (bundles \ {turn}) \cup {[turn EXCEPT !.cluster = x]}
    BY <1>4 DEF PlacementSatisfied
  <2>3. turn \in bundles /\ bundles \in SUBSET Bundles /\ cur \in CRs /\ todo \subseteq bundles
    BY <1>4, <2>1 DEF BInv, LoopsVisit, TInv, TypeOK, LocalsOK, InLoop, Working
  <2>4. PICK s \in Specs : Accepted(s) /\ Carries(bundles, cur, s) /\ UpToDate(cur, s)
    BY <1>4, <2>1 DEF BInv, BundlesCarry, Carrying, PlacingSteps
  <2>5. Carries(bundles', cur, s)
    BY <2>2, <2>3, <2>4, PlacedCarries
  <2>6. UpToDate(cur, s)'
    BY <1>4, <2>1, <2>3, <2>4 DEF UpToDate, SpecsKept
  <2>7. Carrying'
    BY <2>1, <2>4, <2>5, <2>6 DEF Carrying, UpToDate
  <2>8. LoopsVisit'
    BY <2>1, <2>2, <2>3 DEF LoopsVisit
  <2>. QED
    BY <1>4, <2>1, <2>7, <2>8, MemorySame DEF BInv, IdleCur, CopyCurrent,
       BundlesCarry, VerdictTrue, PlacingSteps, CommittedSteps
<1>5. ASSUME BInv, TInv', SpecsKept, AnnounceDecisions PROVE BInv'
  <2>1. /\ pc = "announce" /\ UNCHANGED <<memory, cur, bundles>>
        /\ pc' \in {"clean", "push", "check"}
        /\ pc' = "push" => todo' = bundles
        /\ pc' = "clean" => todo' = Stale(bundles)
    BY <1>5 DEF AnnounceDecisions, GoClean, GoPush
  <2>2. LoopsVisit'
    BY <2>1 DEF LoopsVisit, Stale
  <2>. QED
    BY <1>5, <2>1, <2>2, GoesOnMade DEF PlacingSteps, CommittedSteps
<1>. QED
  BY <1>1, <1>2, <1>3, <1>4, <1>5 DEF Placing

\* Also when the clean-up skips a deletion.
LEMMA CleaningMade ==
  BInv /\ TInv' /\ SpecsKept /\ (Cleaning \/ \E b \in todo : SkipDeletion(b)) => BInv'
<1>1. ASSUME BInv, Cleaning \/ \E b \in todo : SkipDeletion(b)
      PROVE  /\ pc \in {"clean", "drop"} /\ pc' \in {"clean", "drop", "push", "check"}
             /\ UNCHANGED <<cur, memory, bundles>>
             /\ pc' = "push" => todo' = bundles
             /\ pc' \in {"clean", "drop"} => todo' \subseteq todo
             /\ pc' = "drop" => Dropped(turn', bundles)
  BY <1>1 DEF BInv, LoopsVisit, Cleaning, DropWork, MoveBundle, DropPlacement,
     SkipDeletion, GoClean, GoPush
<1>2. ASSUME BInv, Cleaning \/ \E b \in todo : SkipDeletion(b) PROVE LoopsVisit'
  BY <1>1, <1>2 DEF BInv, LoopsVisit, Dropped
<1>. QED
  BY <1>1, <1>2, GoesOnMade DEF PlacingSteps, CommittedSteps

LEMMA PushingMade == BInv /\ TInv' /\ SpecsKept /\ Pushing => BInv'
<1>1. ASSUME BInv, TInv', WorksNotReady \/ \E b \in todo : WorkAlreadyExists(b)
      PROVE  BInv'
  BY <1>1, EndsMade, MemorySame DEF WorksNotReady, WorkAlreadyExists, Requeue
<1>2. ASSUME BInv, TInv', SpecsKept, NEW b \in todo, CreateWork(b) \/ UpdateWork(b)
      PROVE  BInv'
  <2>1. /\ pc = "push" /\ pc' \in {"push", "check"} /\ UNCHANGED <<memory, cur, bundles>>
        /\ todo' \subseteq todo
    BY <1>2 DEF CreateWork, UpdateWork, GoPush
  <2>2. LoopsVisit'
    BY <1>2, <2>1 DEF BInv, LoopsVisit
  <2>. QED
    BY <1>2, <2>1, <2>2, GoesOnMade DEF PlacingSteps, CommittedSteps
<1>3. ASSUME BInv, TInv', SpecsKept, WorksFailed PROVE BInv'
  <2>1. /\ pc = "check" /\ pc' = "report" /\ UNCHANGED <<memory, cur, bundles>>
        /\ verdict'.save = FALSE /\ verdict'.state = Failed
    BY <1>3 DEF WorksFailed, Report
  <2>2. LoopsVisit' /\ VerdictTrue'
    BY <2>1 DEF LoopsVisit, VerdictTrue, Delivered, Failed, Successful, Unreliable, Tentative
  <2>. QED
    BY <1>3, <2>1, <2>2, GoesOnMade DEF PlacingSteps, CommittedSteps
<1>4. ASSUME BInv, TInv', SpecsKept, WorksApplied PROVE BInv'
  <2>1. /\ pc = "check" /\ pc' = "unlink" /\ UNCHANGED <<memory, cur, bundles>>
    BY <1>4 DEF WorksApplied
  <2>2. LoopsVisit'
    BY <2>1 DEF LoopsVisit
  <2>. QED
    BY <1>4, <2>1, <2>2, GoesOnMade DEF PlacingSteps, CommittedSteps
<1>. QED
  BY <1>1, <1>2, <1>3, <1>4 DEF Pushing

LEMMA FinalDelivered == \A s, bs : FinalState(s, bs) \in Delivered
BY DEF FinalState, Delivered

LEMMA ConcludingMade == BInv /\ TInv' /\ SpecsKept /\ Concluding => BInv'
<1>1. ASSUME BInv, TInv', SpecsKept, RemoveOldLinks PROVE BInv'
  <2>1. /\ pc = "unlink" /\ pc' = "link" /\ UNCHANGED <<memory, cur, bundles>>
    BY <1>1 DEF RemoveOldLinks
  <2>2. LoopsVisit'
    BY <2>1 DEF LoopsVisit
  <2>. QED
    BY <1>1, <2>1, <2>2, GoesOnMade DEF PlacingSteps, CommittedSteps
<1>2. ASSUME BInv, TInv', SpecsKept, RegisterLinks PROVE BInv'
  <2>1. /\ pc = "link" /\ pc' = "report" /\ UNCHANGED <<memory, cur, bundles>>
        /\ verdict'.decisions = DecisionsOf(bundles)
        /\ verdict'.state = FinalState(obj.spec, bundles)
    BY <1>2 DEF RegisterLinks, Report
  <2>2. cur \in CRs /\ Carrying /\ \A b \in bundles : Placed(b)
    BY <1>2, <2>1 DEF BInv, TInv, Working, PlacedSoFar, BundlesCarry, CommittedSteps
  <2>3. Carrying'
    BY <1>2, <2>1, <2>2, CarriedOn
  <2>4. LoopsVisit' /\ VerdictTrue'
    BY <2>1, <2>2, <2>3, FinalDelivered DEF LoopsVisit, VerdictTrue, DecisionsOf, Placed
  <2>. QED
    BY <1>2, <2>1, <2>4, GoesOnMade DEF PlacingSteps, CommittedSteps
<1>3. ASSUME BInv, TInv', ReportStatus PROVE BInv'
  <2>1. CASE verdict.save = TRUE
    <3>1. pc = "report" /\ Carrying /\ cur \in CRs
      BY <1>3, <2>1 DEF BInv, TInv, Working, VerdictTrue, ReportStatus
    <3>2. \A b \in bundles : NamedBy(b, cur)
      BY <3>1, CarriedMade DEF Carrying
    <3>3. \A c \in CRs : memory'[c] = IF c = cur THEN bundles ELSE memory[c]
      BY <1>3, <2>1, <3>1 DEF ReportStatus, BInv, TInv, TypeOK
    <3>4. \A c \in CRs : \A b \in memory'[c] : NamedBy(b, c)
      BY <1>3, <3>2, <3>3 DEF BInv, MemoryMade
    <3>5. MemoryMade'
      BY <3>4 DEF MemoryMade, NamedBy
    <3>. QED
      BY <1>3, <3>5, EndsMade DEF ReportStatus
  <2>2. CASE verdict.save # TRUE
    <3>1. verdict.save = FALSE
      BY <1>3, <2>2 DEF BInv, TInv, VerdictReady, Verdicts, ReportStatus
    <3>2. memory' = memory /\ Return
      BY <1>3, <3>1 DEF ReportStatus
    <3>. QED
      BY <1>3, <3>2, EndsMade, MemorySame
  <2>. QED
    BY <2>1, <2>2
<1>. QED
  BY <1>1, <1>2, <1>3 DEF Concluding

LEMMA DeletingMade == BInv /\ TInv' /\ Deleting => BInv'
<1>1. ASSUME BInv, TInv', RemoveFinalizer \/ \E k \in todo : WorkGone(k) PROVE BInv'
  BY <1>1, EndsMade, MemorySame DEF RemoveFinalizer, WorkGone, Requeue
<1>2. ASSUME BInv, TInv', BeginFinalizing \/ \E k \in todo : DeleteOwnedWork(k)
      PROVE  BInv'
  <2>1. pc' \in {"deleteWorks", "deleteLinks"} /\ memory' = memory
    BY <1>2 DEF BeginFinalizing, DeleteOwnedWork
  <2>. QED
    BY <1>2, <2>1, MemorySame, WithoutBundles
<1>3. ASSUME BInv, TInv', DeleteLinks PROVE BInv'
  <2>1. \A c \in CRs : memory'[c] \subseteq memory[c]
    BY <1>3 DEF BInv, TInv, TypeOK, DeleteLinks
  <2>2. MemoryMade'
    BY <1>3, <2>1 DEF BInv, MemoryMade, NamedBy
  <2>3. pc' = "release"
    BY <1>3 DEF DeleteLinks
  <2>. QED
    BY <1>3, <2>2, <2>3, WithoutBundles
<1>. QED
  BY <1>1, <1>2, <1>3 DEF Deleting

-----------------------------------------------------------------------------
\* The worker, failures and the environment.

LEMMA StartMade == \A c \in CRs : BInv /\ TInv' /\ Start(c) => BInv'
<1>1. ASSUME BInv, TInv', NEW c \in CRs, Start(c), cr[c] = Nil PROVE BInv'
  BY <1>1, MemorySame DEF Start, BInv, IdleCur, CopyCurrent, BundlesCarry,
     LoopsVisit, VerdictTrue, PlacingSteps, CommittedSteps
<1>2. ASSUME BInv, TInv', NEW c \in CRs, Start(c), cr[c] # Nil PROVE BInv'
  <2>1. /\ pc' \in {"mark", "admit"} /\ memory' = memory
        /\ cur' = c /\ obj' = cr'[c] /\ cr'[c] # Nil
    BY <1>2 DEF Start, hub
  <2>. QED
    BY <1>2, <2>1, MemorySame DEF BInv, IdleCur, CopyCurrent, BundlesCarry,
       LoopsVisit, VerdictTrue, UpToDate, PlacingSteps, CommittedSteps
<1>. QED
  BY <1>1, <1>2

LEMMA FailureMade == BInv /\ TInv' /\ (CallFails \/ Restart) => BInv'
<1>1. ASSUME BInv, CallFails \/ Restart PROVE MemoryMade'
  BY <1>1, MemorySame DEF CallFails, Restart, MemoryMade
<1>. QED
  BY <1>1, EndsMade DEF CallFails, Restart, Requeue

LEMMA OutsideMade ==
  BInv /\ TInv' /\ (Users \/ OCM \/ CacheSync \/ \E c \in CRs : TimerFires(c)) => BInv'
<1>1. ASSUME Users \/ OCM \/ CacheSync \/ \E c \in CRs : TimerFires(c)
      PROVE  UNCHANGED <<memory, pc, cur, obj, bundles, todo, turn, verdict>>
  BY <1>1 DEF Users, UserCreate, UserEdit, UserDelete, OCM, OCMDecides,
     GarbageCollect, AgentReports, AgentFinalizes, CacheSync, TimerFires, locals
<1>. QED
  BY <1>1, OutsideSpecs, AsideMade DEF BInv

LEMMA BundlesInit == Init => BInv
BY TypeInit DEF Init, BInv, IdleCur, CopyCurrent, BundlesCarry, LoopsVisit,
   VerdictTrue, MemoryMade, PlacingSteps, CommittedSteps

LEMMA BundlesStep == BInv /\ [Next]_vars => BInv'
<1>. SUFFICES ASSUME BInv, [Next]_vars PROVE BInv'
  OBVIOUS
<1>1. TInv'
  BY TypeStep DEF BInv
<1>2. CASE UNCHANGED vars
  BY <1>1, <1>2, HubSpecs, AsideMade DEF vars, hub, queues, locals
<1>3. CASE Reconcile
  BY <1>1, <1>3, ReconcileSpecs, AdmissionMade, ValidationMade, PlacingMade,
     CleaningMade, PushingMade, ConcludingMade, DeletingMade DEF Reconcile, BInv
<1>4. CASE \E b \in todo : SkipDeletion(b)
  <2>1. SpecsKept
    BY <1>4, HubSpecs DEF SkipDeletion, hub, queues
  <2>. QED
    BY <1>1, <1>4, <2>1, CleaningMade
<1>. QED
  BY <1>1, <1>2, <1>3, <1>4, StartMade, FailureMade, OutsideMade DEF Next
=============================================================================
