---------------------------- MODULE Contract_proofs ----------------------------
(***************************************************************************)
(* The reconcile loop implements the contract of module SchedulingContract: *)
(* the proof, step by step, for every set of manifests, specs and clusters, *)
(* any number of edits, failed calls and restarts.                         *)
(*                                                                         *)
(* It rests on all that was proved of the loop before: the finalizer is    *)
(* there before anything runs, nothing is scheduled for a manifest being   *)
(* finalized (Scheduler_proofs), a reconciliation touches what its         *)
(* manifest owns, and no two bundles in hand have one name                 *)
(* (Ownership_proofs), so that a clean-up never stops what is in the plan. *)
(***************************************************************************)
EXTENDS Ownership_proofs

\* ManifestWorks are deleted after the manifest is shown to be finalizing.
ClosesCur == pc \in {"deleteWorks", "deleteLinks", "release"} => Closing(cur)

CInv == FInv /\ GInv /\ OInv /\ BInv /\ ClosesCur

ContractStep == [Contract!Next]_<<lifeOf, planOf, runningOf>>

-----------------------------------------------------------------------------
\* The steps of the contract, and what a step of the loop has to do to be one.

LEMMA LifeSame ==
  ASSUME \A c \in CRs : /\ cr'[c] = Nil <=> cr[c] = Nil
                        /\ cr[c] # Nil => (Closing(c)' <=> Closing(c))
  PROVE  lifeOf' = lifeOf
BY DEF lifeOf, Closing

LEMMA RunningSame ==
  ASSUME \A k \in Keys : /\ Alive(k)' <=> Alive(k)
                         /\ Alive(k) => works'[k].label = works[k].label
  PROVE  runningOf' = runningOf
<1>1. \A c \in CRs : runningOf'[c] = runningOf[c]
  BY DEF runningOf, Alive
<1>. QED
  BY <1>1 DEF runningOf

LEMMA PlanSame ==
  ASSUME \/ Committed /\ Committed' /\ UNCHANGED <<cur, bundles>>
         \/ ~Committed /\ ~Committed'
  PROVE  planOf' = planOf
BY DEF planOf

LEMMA Stutters ==
  ASSUME lifeOf' = lifeOf, planOf' = planOf, runningOf' = runningOf
  PROVE  ContractStep
BY DEF ContractStep

\* A plan is a set of places.
LEMMA PlanIsPlaces ==
  ASSUME NEW bs \in SUBSET Bundles, \A b \in bs : Placed(b)
  PROVE  /\ {KeyOf(b) : b \in bs} \subseteq Keys
         /\ {KeyOf(b) : b \in bs} # noPlan
<1>1. \A b \in bs : KeyOf(b) \in Keys
  BY DEF Placed, Bundles, KeyOf, Keys
<1>. QED
  BY <1>1, NilAssumption DEF noPlan, NilAssumption

LEMMA CommittedPlaced ==
  TInv /\ Committed => bundles \in SUBSET Bundles /\ \A b \in bundles : Placed(b)
BY DEF TInv, TypeOK, LocalsOK, PlacedSoFar, Committed

LEMMA PlanThere == TInv /\ Committed /\ cur \in CRs => planOf[cur] # noPlan
BY CommittedPlaced, PlanIsPlaces DEF planOf

LEMMA Decides ==
  ASSUME TInv', cur \in CRs, cur' = cur, lifeOf[cur] = "open", ~Committed,
         Committed', lifeOf' = lifeOf, runningOf' = runningOf
  PROVE  ContractStep
<1>. DEFINE p == {KeyOf(b) : b \in bundles'}
<1>1. p \subseteq Keys /\ p # noPlan
  <2>1. bundles' \in SUBSET Bundles /\ \A b \in bundles' : Placed(b)
    BY DEF TInv, TypeOK, LocalsOK, PlacedSoFar, Committed, Placed
  <2>. QED
    BY <2>1, PlanIsPlaces
<1>2. \A c \in CRs : planOf[c] = noPlan
  BY DEF planOf
<1>3. planOf'[cur] = p /\ planOf' = [planOf EXCEPT ![cur] = p]
  BY DEF planOf
<1>4. Contract!Decide(cur)
  BY <1>1, <1>2, <1>3 DEF Contract!Decide
<1>. QED
  BY <1>4 DEF ContractStep, Contract!Next

LEMMA GivesUp ==
  ASSUME TInv, cur \in CRs, Committed, ~Committed',
         lifeOf' = lifeOf, runningOf' = runningOf
  PROVE  ContractStep
<1>1. planOf[cur] # noPlan
  BY PlanThere DEF planOf
<1>2. planOf' = [planOf EXCEPT ![cur] = noPlan]
  BY DEF planOf
<1>3. Contract!GiveUp(cur)
  BY <1>1, <1>2 DEF Contract!GiveUp
<1>. QED
  BY <1>3 DEF ContractStep, Contract!Next

\* A ManifestWork appears under the label of the manifest.
LEMMA StartsAt ==
  ASSUME LabelsApart, TInv, cur \in CRs, Committed, lifeOf[cur] = "open",
         NEW k \in Keys, k \in {KeyOf(b) : b \in bundles}, ~Alive(k), Alive(k)',
         works'[k].label = OwnerLabel(cur),
         \A j \in Keys \ {k} : works'[j] = works[j],
         lifeOf' = lifeOf, planOf' = planOf
  PROVE  ContractStep
<1>1. planOf[cur] # noPlan /\ k \in planOf[cur]
  BY PlanThere DEF planOf
<1>2. k \notin runningOf[cur]
  BY DEF runningOf, Alive
<1>3. \A c \in CRs : runningOf'[c] = IF c = cur THEN runningOf[c] \cup {k} ELSE runningOf[c]
  BY DEF runningOf, Alive, LabelsApart
<1>4. runningOf' = [runningOf EXCEPT ![cur] = @ \cup {k}]
  BY <1>3 DEF runningOf
<1>5. Contract!StartAt(cur, k)
  BY <1>1, <1>2, <1>4 DEF Contract!StartAt
<1>. QED
  BY <1>5 DEF ContractStep, Contract!Next

\* A ManifestWork of the manifest is no longer to run.
LEMMA Removes ==
  ASSUME LabelsApart, TInv, NEW c \in CRs, NEW k \in Keys, Alive(k), ~Alive(k)',
         works[k].label = OwnerLabel(c),
         \A j \in Keys \ {k} : works'[j] = works[j]
  PROVE  /\ k \in runningOf[c]
         /\ runningOf' = [runningOf EXCEPT ![c] = @ \ {k}]
<1>1. \A d \in CRs : runningOf'[d] = IF d = c THEN runningOf[d] \ {k} ELSE runningOf[d]
  BY DEF runningOf, Alive, LabelsApart
<1>2. runningOf' = [runningOf EXCEPT ![c] = @ \ {k}]
  BY <1>1 DEF runningOf
<1>3. k \in runningOf[c]
  BY DEF runningOf, Alive
<1>. QED
  BY <1>2, <1>3

LEMMA StopsAt ==
  ASSUME LabelsApart, TInv, cur \in CRs, Committed,
         NEW k \in Keys, k \notin {KeyOf(b) : b \in bundles}, Alive(k), ~Alive(k)',
         works[k].label = OwnerLabel(cur),
         \A j \in Keys \ {k} : works'[j] = works[j],
         lifeOf' = lifeOf, planOf' = planOf
  PROVE  ContractStep
<1>1. planOf[cur] # noPlan /\ k \notin planOf[cur]
  BY PlanThere DEF planOf
<1>2. /\ k \in runningOf[cur]
      /\ runningOf' = [runningOf EXCEPT ![cur] = @ \ {k}]
  BY Removes
<1>3. Contract!StopAt(cur, k)
  BY <1>1, <1>2 DEF Contract!StopAt
<1>. QED
  BY <1>3 DEF ContractStep, Contract!Next

LEMMA Clears ==
  ASSUME LabelsApart, TInv, cur \in CRs, lifeOf[cur] = "closing",
         NEW k \in Keys, Alive(k), ~Alive(k)', works[k].label = OwnerLabel(cur),
         \A j \in Keys \ {k} : works'[j] = works[j],
         lifeOf' = lifeOf, planOf' = planOf
  PROVE  ContractStep
<1>1. /\ k \in runningOf[cur]
      /\ runningOf' = [runningOf EXCEPT ![cur] = @ \ {k}]
  BY Removes
<1>2. Contract!Clear(cur, k)
  BY <1>1 DEF Contract!Clear
<1>. QED
  BY <1>2 DEF ContractStep, Contract!Next

\* A manifest goes, of which nothing runs.
LEMMA Leaves ==
  ASSUME NEW c \in CRs, cr[c] # Nil, cr'[c] = Nil,
         \A d \in CRs \ {c} : cr'[d] = cr[d],
         ~(Committed /\ cur = c), planOf' = planOf,
         \A k \in Keys : Alive(k) => works[k].label # OwnerLabel(c),
         works' = works
  PROVE  ContractStep
<1>1. lifeOf[c] # "absent" /\ lifeOf' = [lifeOf EXCEPT ![c] = "absent"]
  <2>1. \A d \in CRs : lifeOf'[d] = IF d = c THEN "absent" ELSE lifeOf[d]
    BY DEF lifeOf
  <2>. QED
    BY <2>1 DEF lifeOf
<1>2. planOf[c] = noPlan
  BY DEF planOf
<1>3. runningOf[c] = {} /\ runningOf' = runningOf
  BY DEF runningOf, Alive
<1>4. Contract!Leave(c)
  BY <1>1, <1>2, <1>3 DEF Contract!Leave
<1>. QED
  BY <1>4 DEF ContractStep, Contract!Next

-----------------------------------------------------------------------------
\* Steps that leave the manifests, or what runs, as they are.

LEMMA ManifestsSame == cr' = cr => lifeOf' = lifeOf
BY LifeSame DEF Closing

LEMMA WorksSame == works' = works => runningOf' = runningOf
BY RunningSame DEF Alive

LEMMA StatusLife ==
  ASSUME TInv, cur \in CRs, NEW st \in States, NEW ds \in SUBSET Decisions,
         UpdateStatus(st, ds), st # Finalizing, ~Closing(cur)
  PROVE  lifeOf' = lifeOf
BY StatusFields, LifeSame DEF Closing

\* While it is scheduled a manifest is there and open.
LEMMA SchedulesOpen ==
  ASSUME CInv, pc \in SchedulingSteps
  PROVE  cur \in CRs /\ cr[cur] # Nil /\ ~Closing(cur) /\ lifeOf[cur] = "open"
<1>1. cur \in CRs /\ cr[cur] # Nil /\ ~Closing(cur)
  BY DEF CInv, FInv, Admitted, Held, GInv, NotClosing, TInv, Working, SchedulingSteps
<1>. QED
  BY <1>1 DEF lifeOf, Closing

-----------------------------------------------------------------------------
\* The reconciliation, stage by stage.

LEMMA AdmissionContract == CInv /\ Admission => ContractStep
<1>1. ASSUME CInv, Admission PROVE planOf' = planOf /\ runningOf' = runningOf
  BY <1>1, PlanSame, WorksSame DEF Admission, MarkInProgress, RejectNamespace,
     EnsureFinalizer, AfterAdmission, ObjectGone, Requeue, Return, Committed, hub
<1>2. ASSUME CInv, MarkInProgress \/ RejectNamespace PROVE lifeOf' = lifeOf
  <2>1. TInv /\ cur \in CRs /\ ~Closing(cur)
    BY <1>2 DEF CInv, GInv, TInv, Working, NotClosing, ClosingIsDying,
       MarkInProgress, RejectNamespace
  <2>2. PICK st \in {InProgress, Misconfigured} : UpdateStatus(st, {})
    BY <1>2 DEF MarkInProgress, RejectNamespace
  <2>3. st \in States /\ st # Finalizing
    BY StatesAreStates DEF InProgress, Misconfigured, Finalizing
  <2>. QED
    BY <2>1, <2>2, <2>3, StatusLife
<1>3. ASSUME CInv, EnsureFinalizer PROVE lifeOf' = lifeOf
  <2>1. CASE cr' = cr
    BY <2>1, ManifestsSame
  <2>2. CASE cr' # cr
    <3>1. /\ cr[cur] # Nil /\ cur \in CRs
          /\ cr' = [cr EXCEPT ![cur] = [cr[cur] EXCEPT !.fin = TRUE]]
      BY <1>3, <2>2 DEF CInv, FInv, TInv, Working, EnsureFinalizer
    <3>2. cr[cur] \in CRRecords /\ cr \in [CRs -> CRRecords \cup {Nil}]
      BY <1>3, <3>1 DEF CInv, FInv, TInv, TypeOK, HubOK
    <3>3. /\ [cr[cur] EXCEPT !.fin = TRUE] \in CRRecords
          /\ [cr[cur] EXCEPT !.fin = TRUE].state = cr[cur].state
      BY <3>2 DEF CRRecords
    <3>. QED
      BY <3>1, <3>2, <3>3, NilAssumption, LifeSame DEF Closing, NilAssumption
  <2>. QED
    BY <2>1, <2>2
<1>4. ASSUME CInv, ObjectGone PROVE lifeOf' = lifeOf
  BY <1>4, ManifestsSame DEF ObjectGone, hub
<1>. QED
  BY <1>1, <1>2, <1>3, <1>4, Stutters DEF Admission

LEMMA ValidationContract == CInv /\ TInv' /\ Validation => ContractStep
<1>1. ASSUME Validation PROVE lifeOf' = lifeOf /\ runningOf' = runningOf
  BY <1>1, ManifestsSame, WorksSame DEF Validation, Refuse, AnalysisFails,
     BundleForTarget, BundleForPlacement, hub
<1>2. ASSUME Refuse \/ AnalysisFails \/ BundleForPlacement PROVE planOf' = planOf
  BY <1>2, PlanSame DEF Refuse, AnalysisFails, BundleForPlacement, Report,
     Requeue, Return, GoPlace, Committed
<1>3. ASSUME CInv, TInv', BundleForTarget PROVE ContractStep
  <2>1. /\ pc = "analyse" /\ cur' = cur /\ pc' \in {"clean", "push", "check"}
    BY <1>3 DEF BundleForTarget, GoClean, GoPush
  <2>2. cur \in CRs /\ lifeOf[cur] = "open"
    BY <1>3, <2>1, SchedulesOpen DEF SchedulingSteps
  <2>3. lifeOf' = lifeOf /\ runningOf' = runningOf
    BY <1>1, <1>3 DEF Validation
  <2>. QED
    BY <1>3, <2>1, <2>2, <2>3, Decides DEF Committed
<1>. QED
  BY <1>1, <1>2, <1>3, Stutters DEF Validation

LEMMA PlacingContract == CInv /\ TInv' /\ Placing => ContractStep
<1>1. ASSUME AnnounceDecisions, CInv, TInv' PROVE ContractStep
  <2>1. /\ pc = "announce" /\ cur' = cur /\ pc' \in {"clean", "push", "check"}
        /\ works' = works
    BY <1>1 DEF AnnounceDecisions, GoClean, GoPush
  <2>2. TInv /\ cur \in CRs /\ lifeOf[cur] = "open" /\ ~Closing(cur)
    BY <1>1, <2>1, SchedulesOpen DEF SchedulingSteps, CInv, FInv
  <2>3. DecisionsOf(bundles) \in SUBSET Decisions /\ InProgress \in States
    BY <1>1, <2>1, <2>2, StatesAreStates, DecisionsTyped DEF TInv, TypeOK, LocalsOK, PlacedSoFar
  <2>4. UpdateStatus(InProgress, DecisionsOf(bundles)) /\ InProgress # Finalizing
    BY <1>1 DEF AnnounceDecisions, InProgress, Finalizing
  <2>5. lifeOf' = lifeOf
    BY <2>2, <2>3, <2>4, StatusLife
  <2>. QED
    BY <1>1, <2>1, <2>2, <2>5, WorksSame, Decides DEF Committed
<1>2. ASSUME \/ PlacementGone \/ DecisionPending \/ PlacementUnsatisfied
             \/ PlacementSatisfied \/ \E b \in todo : CreatePlacement(b) \/ UpdatePlacement(b)
      PROVE  ContractStep
  <2>1. lifeOf' = lifeOf /\ runningOf' = runningOf
    BY <1>2, ManifestsSame, WorksSame DEF PlacementGone, DecisionPending,
       PlacementUnsatisfied, PlacementSatisfied, CreatePlacement, UpdatePlacement, hub
  <2>2. ~Committed /\ ~Committed'
    BY <1>2 DEF PlacementGone, DecisionPending, PlacementUnsatisfied,
       PlacementSatisfied, CreatePlacement, UpdatePlacement, Report, Requeue,
       Return, GoPlace, Committed
  <2>. QED
    BY <2>1, <2>2, PlanSame, Stutters
<1>. QED
  BY <1>1, <1>2 DEF Placing

\* The places of a bundle that is gone or moved are not in the plan.
LEMMA OutsidePlan ==
  ASSUME NamesDistinct, CInv, cur \in CRs, Committed, NEW b, NamedBy(b, cur),
         Dropped(b, bundles) \/ Moved(b, bundles)
  PROVE  KeyOf(b) \notin {KeyOf(n) : n \in bundles}
<1>. SUFFICES ASSUME NEW n \in bundles, KeyOf(n) = KeyOf(b) PROVE FALSE
  OBVIOUS
<1>1. PICK s \in Specs : Accepted(s) /\ Carries(bundles, cur, s)
  BY DEF CInv, BInv, BundlesCarry, Carrying, Committed, CommittedSteps
<1>2. NamedBy(n, cur)
  BY <1>1, CarriedMade
<1>3. n.resourceName = b.resourceName /\ n.cluster = b.cluster
  BY DEF KeyOf
<1>4. n.name = b.name
  BY <1>2, <1>3, SameName
<1>5. PICK m \in bundles : m.name = b.name /\ m.cluster # b.cluster
  BY <1>4 DEF Dropped, Moved
<1>6. m = n
  BY <1>1, <1>4, <1>5 DEF Carries
<1>. QED
  BY <1>3, <1>5, <1>6

LEMMA DeletesOutsidePlan ==
  ASSUME NamesDistinct, LabelsApart, CInv, cur \in CRs, Committed, NEW b,
         NamedBy(b, cur), NamedFor(b.resourceName, cur),
         Dropped(b, bundles) \/ Moved(b, bundles),
         DeleteManifestWork(KeyOf(b)), lifeOf' = lifeOf, planOf' = planOf
  PROVE  ContractStep
<1>. DEFINE k == KeyOf(b)
<1>0. works \in [Keys -> WorkRecords \cup {Nil}]
  BY DEF CInv, FInv, TInv, TypeOK, HubOK
<1>1. CASE ~Visible(k) \/ k \notin Keys
  <2>1. \A j \in Keys : works'[j] = works[j]
    BY <1>0, <1>1 DEF DeleteManifestWork
  <2>2. runningOf' = runningOf
    BY <2>1, RunningSame DEF Alive
  <2>. QED
    BY <2>2, Stutters
<1>2. CASE Visible(k) /\ k \in Keys
  <2>1. works[k] # Nil /\ works[k] \in WorkRecords
    BY <1>0, <1>2 DEF Visible
  <2>2. works' = [works EXCEPT ![k] = [works[k] EXCEPT !.terminating = TRUE]]
    BY <1>2 DEF DeleteManifestWork
  <2>3. /\ [works[k] EXCEPT !.terminating = TRUE].terminating = TRUE
        /\ [works[k] EXCEPT !.terminating = TRUE] \in WorkRecords
    BY <2>1 DEF WorkRecords
  <2>4. /\ ~Alive(k)' /\ \A j \in Keys \ {k} : works'[j] = works[j]
    BY <1>0, <1>2, <2>2, <2>3 DEF Alive
  <2>5. CASE ~Alive(k)
    <3>1. runningOf' = runningOf
      BY <2>4, <2>5, RunningSame DEF Alive
    <3>. QED
      BY <3>1, Stutters
  <2>6. CASE Alive(k)
    <3>1. works[k].label = OwnerLabel(cur)
      BY <1>2, <2>1, DistinctApart, WorkIsMine DEF CInv
    <3>. QED
      BY <1>2, <2>4, <2>6, <3>1, OutsidePlan, StopsAt DEF CInv, FInv
  <2>. QED
    BY <2>5, <2>6
<1>. QED
  BY <1>1, <1>2

LEMMA CleaningContract ==
  ASSUME NamesDistinct, LabelsApart
  PROVE  CInv /\ (Cleaning \/ \E b \in todo : SkipDeletion(b)) => ContractStep
<1>. SUFFICES ASSUME CInv, Cleaning \/ \E b \in todo : SkipDeletion(b)
              PROVE  ContractStep
  OBVIOUS
<1>1. /\ pc \in {"clean", "drop"} /\ pc' \in {"clean", "drop", "push", "check"}
      /\ cr' = cr /\ cur' = cur /\ bundles' = bundles
  BY DEF Cleaning, DropWork, MoveBundle, DropPlacement, SkipDeletion, GoClean, GoPush, hub
<1>2. lifeOf' = lifeOf /\ planOf' = planOf /\ Committed
  BY <1>1, ManifestsSame, PlanSame DEF Committed
<1>3. /\ cur \in CRs
      /\ \A b \in todo : NamedBy(b, cur) /\ NamedFor(b.resourceName, cur)
  BY <1>1, InHand DEF CInv, BInv, LoopsVisit, MemoryMade
<1>4. ASSUME NEW b \in todo, MoveBundle(b) PROVE ContractStep
  BY <1>2, <1>3, <1>4, DeletesOutsidePlan DEF MoveBundle
<1>5. ASSUME DropWork PROVE ContractStep
  <2>1. turn \in todo /\ Dropped(turn, bundles)
    BY <1>5 DEF CInv, BInv, TInv, InLoop, LoopsVisit, DropWork
  <2>. QED
    BY <1>2, <1>3, <1>5, <2>1, DeletesOutsidePlan DEF DropWork
<1>6. ASSUME NEW b \in todo, DropPlacement(b) \/ SkipDeletion(b) PROVE ContractStep
  BY <1>2, <1>6, WorksSame, Stutters DEF DropPlacement, SkipDeletion, hub
<1>. QED
  BY <1>4, <1>5, <1>6 DEF Cleaning

LEMMA PushingContract ==
  ASSUME LabelsApart
  PROVE  CInv /\ Pushing => ContractStep
<1>. SUFFICES ASSUME CInv, Pushing PROVE ContractStep
  OBVIOUS
<1>1. /\ pc \in {"push", "check"} /\ cr' = cr
      /\ works \in [Keys -> WorkRecords \cup {Nil}]
  BY DEF Pushing, CreateWork, UpdateWork, WorkAlreadyExists, WorksNotReady,
     WorksFailed, WorksApplied, hub, CInv, FInv, TInv, TypeOK, HubOK
<1>2. lifeOf' = lifeOf /\ Committed /\ TInv /\ cur \in CRs /\ lifeOf[cur] = "open"
  BY <1>1, ManifestsSame, SchedulesOpen DEF CInv, FInv, Committed, SchedulingSteps
<1>3. ASSUME NEW b \in todo, CreateWork(b) PROVE ContractStep
  <2>. DEFINE k == KeyOf(b)
  <2>1. pc = "push" /\ pc' \in {"push", "check"} /\ cur' = cur /\ bundles' = bundles
    BY <1>3 DEF CreateWork, GoPush
  <2>2. planOf' = planOf
    BY <2>1, PlanSame DEF Committed
  <2>3. b \in bundles /\ k \in Keys
    BY <1>2, <2>1, CommittedPlaced DEF CInv, BInv, LoopsVisit, Placed, Bundles, KeyOf, Keys
  <2>4. works' = [works EXCEPT ![k] = NewWork(b)] /\ works[k] = Nil
    BY <1>3 DEF CreateWork
  <2>5. /\ works'[k] = NewWork(b) /\ \A j \in Keys \ {k} : works'[j] = works[j]
    BY <1>1, <2>3, <2>4
  <2>6. NewWork(b) # Nil
    <3>1. works'[k] \in WorkRecords
      <4>1. b.res \in SUBSET Manifests
        BY <2>3, <1>2, CommittedPlaced DEF Bundles
      <4>. QED
        BY <1>2, <2>5, <4>1 DEF NewWork, WorkRecords
    <3>. QED
      BY <2>5, <3>1, NilAssumption DEF NilAssumption
  <2>7. ~Alive(k) /\ Alive(k)' /\ works'[k].label = OwnerLabel(cur)
    BY <2>4, <2>5, <2>6 DEF Alive, NewWork
  <2>. QED
    BY <1>2, <2>2, <2>3, <2>5, <2>7, StartsAt
<1>4. ASSUME NEW b \in todo, UpdateWork(b) PROVE ContractStep
  <2>. DEFINE k == KeyOf(b)
  <2>1. pc = "push" /\ pc' \in {"push", "check"} /\ cur' = cur /\ bundles' = bundles
    BY <1>4 DEF UpdateWork, GoPush
  <2>2. planOf' = planOf
    BY <2>1, PlanSame DEF Committed
  <2>3. k \in Keys /\ works[k] # Nil
    BY <1>2, <1>4, <2>1, CommittedPlaced
    DEF CInv, BInv, LoopsVisit, Placed, Bundles, KeyOf, Keys, UpdateWork, Visible
  <2>4. works[k] \in WorkRecords /\ b.res \in SUBSET Manifests
    BY <1>1, <1>2, <2>1, <2>3, CommittedPlaced DEF CInv, BInv, LoopsVisit, Bundles
  <2>. DEFINE w == [works[k] EXCEPT !.res = b.res]
  <2>5. w \in WorkRecords /\ w.label = works[k].label /\ w.terminating = works[k].terminating
    BY <2>4 DEF WorkRecords
  <2>6. works' = [works EXCEPT ![k] = w]
    BY <1>4 DEF UpdateWork
  <2>7. /\ works'[k] = w /\ w # Nil /\ \A j \in Keys \ {k} : works'[j] = works[j]
    BY <1>1, <2>3, <2>5, <2>6, NilAssumption DEF NilAssumption
  <2>8. runningOf' = runningOf
    BY <2>3, <2>5, <2>7, RunningSame DEF Alive
  <2>. QED
    BY <1>2, <2>2, <2>8, Stutters
<1>5. ASSUME WorksNotReady \/ WorksFailed \/ \E b \in todo : WorkAlreadyExists(b)
      PROVE  ContractStep
  <2>1. ~Committed' /\ works' = works
    BY <1>5 DEF WorksNotReady, WorksFailed, WorkAlreadyExists, Report, Requeue,
       Return, Committed, hub
  <2>. QED
    BY <1>2, <2>1, WorksSame, GivesUp
<1>6. ASSUME WorksApplied PROVE ContractStep
  <2>1. pc' = "unlink" /\ cur' = cur /\ bundles' = bundles /\ works' = works
    BY <1>6 DEF WorksApplied, hub
  <2>. QED
    BY <1>2, <2>1, PlanSame, WorksSame, Stutters DEF Committed
<1>. QED
  BY <1>3, <1>4, <1>5, <1>6 DEF Pushing

LEMMA ConcludingContract == CInv /\ Concluding => ContractStep
<1>1. ASSUME CInv, RemoveOldLinks PROVE ContractStep
  BY <1>1, ManifestsSame, WorksSame, PlanSame, Stutters DEF RemoveOldLinks, Committed
<1>2. ASSUME CInv, RegisterLinks PROVE ContractStep
  <2>1. pc = "link" /\ pc' = "report" /\ cr' = cr /\ works' = works
    BY <1>2 DEF RegisterLinks, Report
  <2>2. TInv /\ cur \in CRs
    BY <1>2, <2>1, SchedulesOpen DEF CInv, FInv, SchedulingSteps
  <2>. QED
    BY <2>1, <2>2, ManifestsSame, WorksSame, GivesUp DEF Committed
<1>3. ASSUME CInv, ReportStatus PROVE ContractStep
  <2>1. /\ pc = "report" /\ pc' = "idle" /\ works' = works
        /\ UpdateStatus(verdict.state, verdict.decisions)
    BY <1>3 DEF ReportStatus, Return
  <2>2. TInv /\ cur \in CRs /\ ~Closing(cur)
    BY <1>3, <2>1, SchedulesOpen DEF CInv, FInv, SchedulingSteps
  <2>3. /\ verdict.state \in States /\ verdict.decisions \in SUBSET Decisions
        /\ verdict.state # Finalizing
    BY <1>3, <2>1 DEF CInv, GInv, NotClosing, TInv, VerdictReady, Verdicts
  <2>4. lifeOf' = lifeOf
    BY <2>1, <2>2, <2>3, StatusLife
  <2>. QED
    BY <2>1, <2>4, WorksSame, PlanSame, Stutters DEF Committed
<1>. QED
  BY <1>1, <1>2, <1>3 DEF Concluding

LEMMA DeletingContract ==
  ASSUME LabelsApart
  PROVE  CInv /\ Deleting => ContractStep
<1>1. ASSUME CInv, BeginFinalizing PROVE ContractStep
  <2>1. /\ pc = "finalize" /\ pc' \in {"deleteWorks", "deleteLinks"} /\ works' = works
        /\ UpdateStatus(Finalizing, {})
    BY <1>1 DEF BeginFinalizing
  <2>2. TInv /\ cur \in CRs /\ Finalizing \in States
    BY <1>1, <2>1, StatesAreStates DEF CInv, FInv, TInv, Working
  <2>3. /\ cr[cur] # Nil /\ cr'[cur] # Nil /\ cr'[cur].state = Finalizing
        /\ \A c \in CRs \ {cur} : cr'[c] = cr[c]
    BY <2>1, <2>2, StatusFields
  <2>4. planOf' = planOf /\ runningOf' = runningOf /\ planOf[cur] = noPlan
    BY <2>1, <2>2, PlanSame, WorksSame DEF planOf, Committed
  <2>5. CASE Closing(cur)
    BY <2>3, <2>4, <2>5, LifeSame, Stutters DEF Closing
  <2>6. CASE ~Closing(cur)
    <3>1. \A c \in CRs : lifeOf'[c] = IF c = cur THEN "closing" ELSE lifeOf[c]
      BY <2>2, <2>3 DEF lifeOf
    <3>2. lifeOf[cur] = "open" /\ lifeOf' = [lifeOf EXCEPT ![cur] = "closing"]
      BY <2>2, <2>3, <2>6, <3>1 DEF lifeOf, Closing
    <3>3. Contract!Close(cur)
      BY <2>4, <3>2 DEF Contract!Close
    <3>. QED
      BY <2>2, <3>3 DEF ContractStep, Contract!Next
  <2>. QED
    BY <2>5, <2>6
<1>2. ASSUME CInv, NEW k \in todo, DeleteOwnedWork(k) PROVE ContractStep
  <2>1. /\ pc = "deleteWorks" /\ pc' \in {"deleteWorks", "deleteLinks"} /\ cr' = cr
        /\ works[k] # Nil
    BY <1>2 DEF DeleteOwnedWork
  <2>2. /\ TInv /\ cur \in CRs /\ k \in Keys /\ works \in [Keys -> WorkRecords \cup {Nil}]
        /\ works[k].label = OwnerLabel(cur)
    BY <1>2, <2>1 DEF CInv, OInv, LocalsNamed, TInv, Working, TypeOK, HubOK, LocalsOK
  <2>3. lifeOf[cur] = "closing" /\ lifeOf' = lifeOf /\ planOf' = planOf
    BY <1>2, <2>1, <2>2, ManifestsSame, PlanSame
    DEF CInv, ClosesCur, Closing, lifeOf, Committed
  <2>. DEFINE w == [works[k] EXCEPT !.terminating = TRUE]
  <2>4. w.terminating = TRUE /\ works' = [works EXCEPT ![k] = w]
    BY <1>2, <2>1, <2>2 DEF DeleteOwnedWork, WorkRecords
  <2>5. ~Alive(k)' /\ \A j \in Keys \ {k} : works'[j] = works[j]
    BY <2>2, <2>4 DEF Alive
  <2>6. CASE Alive(k)
    BY <2>2, <2>3, <2>5, <2>6, Clears
  <2>7. CASE ~Alive(k)
    <3>1. runningOf' = runningOf
      BY <2>5, <2>7, RunningSame DEF Alive
    <3>. QED
      BY <2>3, <3>1, Stutters
  <2>. QED
    BY <2>6, <2>7
<1>3. ASSUME CInv, RemoveFinalizer PROVE ContractStep
  <2>1. /\ pc = "release" /\ pc' = "idle" /\ works' = works
        /\ cr' = [cr EXCEPT ![cur] = Nil]
    BY <1>3 DEF RemoveFinalizer, Return
  <2>2. /\ cur \in CRs /\ cr[cur] # Nil
        /\ \A k \in Keys : Alive(k) => works[k].label # OwnerLabel(cur)
    BY <1>3, <2>1 DEF CInv, FInv, Admitted, Held, Emptied, TInv, Working
  <2>3. cr'[cur] = Nil /\ \A d \in CRs \ {cur} : cr'[d] = cr[d]
    BY <1>3, <2>1, <2>2 DEF CInv, FInv, TInv, TypeOK, HubOK
  <2>4. planOf' = planOf /\ ~Committed
    BY <2>1, PlanSame DEF Committed
  <2>. QED
    BY <2>1, <2>2, <2>3, <2>4, Leaves
<1>4. ASSUME DeleteLinks \/ \E k \in todo : WorkGone(k) PROVE ContractStep
  BY <1>4, ManifestsSame, WorksSame, PlanSame, Stutters
  DEF DeleteLinks, WorkGone, Requeue, Return, Committed, hub
<1>. QED
  BY <1>1, <1>2, <1>3, <1>4 DEF Deleting

-----------------------------------------------------------------------------
\* The worker, failures and the environment.

\* A plan that fails half carried out is given up.
LEMMA ControlContract == CInv /\ (CallFails \/ Restart \/ \E c \in CRs : Start(c)) => ContractStep
<1>1. ASSUME CInv, CallFails \/ Restart PROVE ContractStep
  <2>1. lifeOf' = lifeOf /\ runningOf' = runningOf /\ ~Committed'
    BY <1>1, ManifestsSame, WorksSame DEF CallFails, Restart, Requeue, Return, Committed, hub
  <2>2. Committed => cur \in CRs /\ TInv
    BY <1>1, SchedulesOpen DEF CInv, FInv, Committed, SchedulingSteps
  <2>. QED
    BY <2>1, <2>2, PlanSame, GivesUp, Stutters
<1>2. ASSUME NEW c \in CRs, Start(c) PROVE ContractStep
  BY <1>2, ManifestsSame, WorksSame, PlanSame, Stutters DEF Start, Committed, hub
<1>. QED
  BY <1>1, <1>2

\* Users submit manifests and take back those that run nothing.
LEMMA UsersContract ==
  ASSUME LabelsApart
  PROVE  CInv /\ Users => ContractStep
<1>1. ASSUME Users PROVE planOf' = planOf /\ works' = works /\ runningOf' = runningOf
  <2>1. UNCHANGED <<pc, cur, bundles, works>>
    BY <1>1 DEF Users, UserCreate, UserEdit, UserDelete, locals
  <2>. QED
    BY <2>1, PlanSame, WorksSame DEF Committed
<1>2. ASSUME CInv, NEW c \in CRs, NEW s \in Specs, UserCreate(c, s) PROVE ContractStep
  <2>. DEFINE new == [deleting |-> FALSE, fin |-> FALSE, spec |-> s,
                      state |-> NoState, decisions |-> {}]
  <2>1. cr[c] = Nil /\ cr' = [cr EXCEPT ![c] = new] /\ cr \in [CRs -> CRRecords \cup {Nil}]
    BY <1>2 DEF UserCreate, CInv, FInv, TInv, TypeOK, HubOK
  <2>2. new \in CRRecords /\ new.state # Finalizing
    BY DEF CRRecords, States, NoState, Finalizing
  <2>3. new # Nil
    BY <2>2, NilAssumption DEF NilAssumption
  <2>4. cr'[c] = new /\ \A d \in CRs \ {c} : cr'[d] = cr[d]
    BY <2>1
  <2>5. \A d \in CRs : lifeOf'[d] = IF d = c THEN "open" ELSE lifeOf[d]
    BY <2>2, <2>3, <2>4 DEF lifeOf
  <2>6. lifeOf[c] = "absent" /\ lifeOf' = [lifeOf EXCEPT ![c] = "open"]
    BY <2>1, <2>5 DEF lifeOf
  <2>7. Contract!Submit(c)
    BY <1>1, <1>2, <2>6 DEF Contract!Submit, Users
  <2>. QED
    BY <2>7 DEF ContractStep, Contract!Next
<1>3. ASSUME CInv, NEW c \in CRs, NEW s \in Specs, UserEdit(c, s) PROVE ContractStep
  <2>1. cr[c] \in CRRecords /\ cr \in [CRs -> CRRecords \cup {Nil}]
    BY <1>3 DEF UserEdit, CInv, FInv, TInv, TypeOK, HubOK
  <2>. DEFINE r == [cr[c] EXCEPT !.spec = s]
  <2>2. r \in CRRecords /\ r.state = cr[c].state
    BY <2>1 DEF CRRecords
  <2>3. cr' = [cr EXCEPT ![c] = r] /\ cr[c] # Nil
    BY <1>3 DEF UserEdit
  <2>4. cr'[c] = r /\ r # Nil /\ \A d \in CRs \ {c} : cr'[d] = cr[d]
    BY <2>1, <2>2, <2>3, NilAssumption DEF NilAssumption
  <2>5. lifeOf' = lifeOf
    BY <2>2, <2>3, <2>4, LifeSame DEF Closing
  <2>. QED
    BY <1>1, <1>3, <2>5, Stutters DEF Users
<1>4. ASSUME CInv, NEW c \in CRs, UserDelete(c) PROVE ContractStep
  <2>1. cr[c] # Nil /\ cr[c] \in CRRecords /\ cr \in [CRs -> CRRecords \cup {Nil}]
    BY <1>4 DEF UserDelete, CInv, FInv, TInv, TypeOK, HubOK
  <2>2. CASE cr[c].fin
    <3>. DEFINE r == [cr[c] EXCEPT !.deleting = TRUE]
    <3>1. r \in CRRecords /\ r.state = cr[c].state
      BY <2>1 DEF CRRecords
    <3>2. cr' = [cr EXCEPT ![c] = r]
      BY <1>4, <2>2 DEF UserDelete
    <3>3. cr'[c] = r /\ r # Nil /\ \A d \in CRs \ {c} : cr'[d] = cr[d]
      BY <2>1, <3>1, <3>2, NilAssumption DEF NilAssumption
    <3>4. lifeOf' = lifeOf
      BY <2>1, <3>1, <3>3, LifeSame DEF Closing
    <3>. QED
      BY <1>1, <1>4, <3>4, Stutters DEF Users
  <2>3. CASE ~cr[c].fin
    <3>1. cr' = [cr EXCEPT ![c] = Nil]
      BY <1>4, <2>3 DEF UserDelete
    <3>2. cr'[c] = Nil /\ \A d \in CRs \ {c} : cr'[d] = cr[d]
      BY <2>1, <3>1
    <3>3. \A k \in Keys : Alive(k) => works[k].label # OwnerLabel(c)
      BY <1>4, <2>3 DEF CInv, FInv, FinalizerProtectsWorks, Protected, Alive, LabelsApart
    <3>4. ~(Committed /\ cur = c)
      BY <1>4, <2>3 DEF CInv, FInv, Admitted, Held, Committed
    <3>. QED
      BY <1>1, <1>4, <2>1, <3>2, <3>3, <3>4, Leaves DEF Users
  <2>. QED
    BY <2>2, <2>3
<1>. QED
  BY <1>2, <1>3, <1>4 DEF Users

\* What agents report, and finish deleting, was no longer to run or runs on.
LEMMA OutsideContract ==
  CInv /\ (OCM \/ CacheSync \/ \E c \in CRs : TimerFires(c)) => ContractStep
<1>1. ASSUME OCM \/ CacheSync \/ \E c \in CRs : TimerFires(c)
      PROVE  lifeOf' = lifeOf /\ planOf' = planOf
  <2>1. UNCHANGED <<cr, pc, cur, bundles>>
    BY <1>1 DEF OCM, OCMDecides, GarbageCollect, AgentReports, AgentFinalizes,
       CacheSync, TimerFires, hub, locals
  <2>. QED
    BY <2>1, ManifestsSame, PlanSame DEF Committed
<1>2. ASSUME CInv, OCM \/ CacheSync \/ \E c \in CRs : TimerFires(c)
      PROVE  runningOf' = runningOf
  <2>1. ASSUME NEW k \in Keys, AgentReports(k) PROVE runningOf' = runningOf
    <3>1. works[k] \in WorkRecords /\ works \in [Keys -> WorkRecords \cup {Nil}]
      BY <1>2, <2>1 DEF CInv, FInv, TInv, TypeOK, HubOK, AgentReports
    <3>2. PICK ok \in AgentOutcomes :
            works' = [works EXCEPT ![k].report = [res |-> works[k].res, ok |-> ok]]
      BY <2>1 DEF AgentReports
    <3>. DEFINE w == [works[k] EXCEPT !.report = [res |-> works[k].res, ok |-> ok]]
    <3>3. /\ w.terminating = works[k].terminating /\ w.label = works[k].label
          /\ w \in WorkRecords
      BY <3>1, SchedulerAssumption DEF WorkRecords, Reports, SchedulerAssumption
    <3>4. works'[k] = w /\ w # Nil /\ \A j \in Keys \ {k} : works'[j] = works[j]
      BY <3>1, <3>2, <3>3, NilAssumption DEF NilAssumption
    <3>. QED
      BY <2>1, <3>3, <3>4, RunningSame DEF Alive, AgentReports
  <2>2. ASSUME NEW k \in Keys, AgentFinalizes(k) PROVE runningOf' = runningOf
    <3>1. \A j \in Keys \ {k} : works'[j] = works[j]
      BY <1>2, <2>2 DEF CInv, FInv, TInv, TypeOK, HubOK, AgentFinalizes
    <3>2. works'[k] = Nil /\ ~Alive(k)
      BY <1>2, <2>2 DEF CInv, FInv, TInv, TypeOK, HubOK, AgentFinalizes, Alive
    <3>. QED
      BY <3>1, <3>2, RunningSame DEF Alive
  <2>3. ASSUME CacheSync \/ (\E c \in CRs : TimerFires(c))
               \/ \E n \in ResourceNames : OCMDecides(n) \/ GarbageCollect(n)
        PROVE  runningOf' = runningOf
    BY <2>3, WorksSame DEF CacheSync, TimerFires, OCMDecides, GarbageCollect, hub
  <2>. QED
    BY <1>2, <2>1, <2>2, <2>3 DEF OCM
<1>. QED
  BY <1>1, <1>2, Stutters

-----------------------------------------------------------------------------
\* The invariant as a whole.

LEMMA ClosesStep ==
  ASSUME CInv, [Next]_vars, FInv', StaysClosing
  PROVE  ClosesCur'
<1>. DEFINE late == {"deleteWorks", "deleteLinks", "release"}
<1>. SUFFICES ASSUME pc' \in late PROVE Closing(cur)'
  BY DEF ClosesCur
<1>1. CASE BeginFinalizing
  <2>1. TInv /\ cur \in CRs /\ Finalizing \in States /\ cur' = cur
    BY <1>1, StatesAreStates DEF CInv, FInv, TInv, Working, BeginFinalizing
  <2>. QED
    BY <1>1, <2>1, StatusFields DEF BeginFinalizing, Closing
<1>2. CASE ~BeginFinalizing
  <2>1. pc \in late /\ cur' = cur
    <3>1. CASE UNCHANGED vars
      BY <3>1 DEF vars, locals
    <3>2. CASE Reconcile
      BY <1>2, <3>2 DEF Reconcile, Admission, MarkInProgress, RejectNamespace,
         EnsureFinalizer, AfterAdmission, ObjectGone, Validation, Refuse,
         AnalysisFails, BundleForTarget, BundleForPlacement, Placing,
         CreatePlacement, UpdatePlacement, PlacementGone, DecisionPending,
         PlacementUnsatisfied, PlacementSatisfied, AnnounceDecisions, Cleaning,
         DropWork, MoveBundle, DropPlacement, Pushing, CreateWork, UpdateWork,
         WorkAlreadyExists, WorksNotReady, WorksFailed, WorksApplied, Concluding,
         RemoveOldLinks, RegisterLinks, ReportStatus, Deleting, DeleteOwnedWork,
         WorkGone, DeleteLinks, RemoveFinalizer, GoPlace, GoClean, GoPush,
         Report, Requeue, Return
    <3>3. CASE CallFails \/ Restart \/ (\E b \in todo : SkipDeletion(b))
               \/ \E c \in CRs : Start(c)
      BY <3>3 DEF CallFails, Restart, SkipDeletion, Start, GoClean, GoPush,
         Requeue, Return
    <3>4. CASE Users \/ OCM \/ CacheSync \/ \E c \in CRs : TimerFires(c)
      BY <3>4 DEF Users, UserCreate, UserEdit, UserDelete, OCM, OCMDecides,
         GarbageCollect, AgentReports, AgentFinalizes, CacheSync, TimerFires, locals
    <3>. QED
      BY <3>1, <3>2, <3>3, <3>4 DEF Next
  <2>2. cur \in CRs /\ Closing(cur)
    BY <2>1 DEF CInv, ClosesCur, FInv, TInv, Working
  <2>3. cr'[cur] # Nil
    BY <2>1 DEF FInv, Admitted, Held
  <2>. QED
    BY <2>1, <2>2, <2>3 DEF StaysClosing, Closing
<1>. QED
  BY <1>1, <1>2

LEMMA ContractInvariant ==
  ASSUME CacheLag = FALSE, NamesDistinct
  PROVE  (Init => CInv) /\ (CInv /\ [Next]_vars => CInv')
<1>1. Init => CInv
  BY FinalizerInit, FinalizingInit, OwnershipInit, BundlesInit
  DEF CInv, ClosesCur, Init
<1>2. ASSUME CInv, [Next]_vars PROVE CInv'
  BY <1>2, FinalizerStep, FinalizingStep, OwnershipStep, DistinctApart,
     BundlesStep, ClosesStep DEF CInv
<1>. QED
  BY <1>1, <1>2

LEMMA ContractInit == Init => Contract!Init
BY DEF Init, Contract!Init, lifeOf, planOf, runningOf, Committed

LEMMA ContractNext ==
  ASSUME NamesDistinct, LabelsApart
  PROVE  CInv /\ [Next]_vars => ContractStep
<1>. SUFFICES ASSUME CInv, [Next]_vars PROVE ContractStep
  OBVIOUS
<1>1. TInv'
  BY TypeStep DEF CInv, FInv
<1>2. CASE UNCHANGED vars
  BY <1>2, ManifestsSame, WorksSame, PlanSame, Stutters DEF vars, hub, locals, Committed
<1>3. CASE Reconcile
  BY <1>1, <1>3, AdmissionContract, ValidationContract, PlacingContract,
     CleaningContract, PushingContract, ConcludingContract, DeletingContract
  DEF Reconcile
<1>. QED
  BY <1>2, <1>3, CleaningContract, ControlContract, UsersContract, OutsideContract DEF Next

\* Every behaviour of the reconcile loop is one the contract allows, through
\* edits, failed calls and restarts: a manifest is scheduled by one plan at a
\* time, a step starts nothing outside the plan and stops nothing inside it,
\* starts nothing once the manifest is closing, and lets it go when nothing of
\* it runs.  It takes names and labels that do not meet, and a client that
\* sees its own writes.
THEOREM ContractImplemented ==
  ASSUME CacheLag = FALSE, NamesDistinct, LabelsApart
  PROVE  Spec => ImplementsContract
<1>1. CInv /\ [Next]_vars => [Contract!Next]_<<lifeOf, planOf, runningOf>>
  BY ContractNext DEF ContractStep
<1>. QED
  BY <1>1, ContractInvariant, ContractInit, PTL
  DEF Spec, ImplementsContract, Contract!Spec, Contract!contractVars
=============================================================================
