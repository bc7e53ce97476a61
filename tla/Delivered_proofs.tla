--------------------------- MODULE Delivered_proofs ---------------------------
(***************************************************************************)
(* What holds of a manifest the controller is done with and reports as     *)
(* scheduled: the proofs that it is scheduled as its current spec says     *)
(* (DeliveredIsCurrent), that nothing else of it runs (DeliveredIsAll) and *)
(* that its links are there (LinksServeDecisions).                         *)
(*                                                                         *)
(* The report is the end of a reconciliation that has thrown its bundles   *)
(* away, so the invariants speak of bundles that the reported decisions    *)
(* stand for.  They are established while the bundles are in hand, pass to *)
(* the manifest with the last status written, and last until something     *)
(* puts the manifest back on the queue.                                    *)
(***************************************************************************)
EXTENDS Ownership_proofs, FiniteSetTheorems

Reported(c) == cr[c] # Nil /\ Quiet(c) /\ cr[c].state \in Delivered

\* The bundles that the decisions in a manifest's status stand for.
Told(c, r, bs) ==
  /\ bs \in SUBSET Bundles /\ \A b \in bs : Placed(b)
  /\ Accepted(r.spec) /\ Carries(bs, c, r.spec)
  /\ r.decisions = DecisionsOf(bs)

\* A success is about to be reported.
Succeeding == pc = "report" /\ verdict.state \in Delivered

-----------------------------------------------------------------------------
\* How a manifest comes to be reported as scheduled.

\* A step that lets the manifest alone, or puts it back on the queue.
LEMMA StaysReported ==
  ASSUME NEW c \in CRs, Reported(c)', queue \cup delayed \subseteq queue' \cup delayed',
         cr'[c] = cr[c] \/ c \in queue' \cup delayed' \cup {cur'},
         cur' = cur \/ cur \in queue' \cup delayed' \cup {Nil}
  PROVE  Reported(c) /\ cr'[c] = cr[c]
BY NilAssumption DEF Reported, Quiet, NilAssumption

\* The last status of a reconciliation says what became of its bundles.
LEMMA ReportTells ==
  ASSUME BInv, ReportStatus, NEW c \in CRs, Reported(c)'
  PROVE  \/ Reported(c) /\ cr'[c] = cr[c]
         \/ /\ c = cur /\ Succeeding /\ Told(c, cr'[c], bundles)
            /\ cr'[c].state = verdict.state
<1>1. /\ pc = "report" /\ cur \in CRs /\ verdict \in Verdicts /\ TInv
      /\ UpdateStatus(verdict.state, verdict.decisions)
  BY DEF BInv, TInv, Working, VerdictReady, ReportStatus
<1>2. /\ cr[cur] # Nil /\ cr'[cur].spec = cr[cur].spec
      /\ cr'[cur].state = verdict.state /\ cr'[cur].decisions = verdict.decisions
      /\ \A d \in CRs \ {cur} : cr'[d] = cr[d]
  BY <1>1, StatusFields DEF Verdicts
<1>3. cur' = Nil /\ queue' = queue /\ delayed' = delayed
  BY DEF ReportStatus, Return, queues
<1>4. CASE c # cur
  BY <1>2, <1>3, <1>4 DEF Reported, Quiet
<1>5. CASE c = cur
  <2>1. c \notin queue /\ Succeeding
    BY <1>1, <1>2, <1>3, <1>5 DEF Reported, Quiet, Succeeding
  <2>2. Carrying /\ verdict.decisions = DecisionsOf(bundles) /\ \A b \in bundles : Placed(b)
    BY <2>1 DEF BInv, VerdictTrue, Succeeding
  <2>3. Accepted(cr[cur].spec) /\ Carries(bundles, cur, cr[cur].spec)
    BY <1>2, <1>5, <2>1, <2>2 DEF Carrying, UpToDate
  <2>4. bundles \in SUBSET Bundles
    BY DEF BInv, TInv, TypeOK, LocalsOK
  <2>5. /\ cr'[c].decisions = DecisionsOf(bundles) /\ Accepted(cr'[c].spec)
        /\ Carries(bundles, c, cr'[c].spec)
    BY <1>2, <1>5, <2>2, <2>3
  <2>. QED
    BY <1>2, <1>5, <2>1, <2>2, <2>4, <2>5 DEF Told, Placed
<1>. QED
  BY <1>4, <1>5

LEMMA ReportedStep ==
  ASSUME BInv, [Next]_vars, NEW c \in CRs, Reported(c)'
  PROVE  \/ Reported(c) /\ cr'[c] = cr[c]
         \/ /\ ReportStatus /\ c = cur /\ Succeeding
            /\ Told(c, cr'[c], bundles) /\ cr'[c].state = verdict.state
<1>. USE DEF queues
<1>1. CASE UNCHANGED vars
  BY <1>1 DEF vars, hub, locals, Reported, Quiet
<1>2. CASE ReportStatus
  BY <1>2, ReportTells
<1>3. CASE MarkInProgress \/ EnsureFinalizer \/ AnnounceDecisions \/ BeginFinalizing
  <2>1. /\ queue' = queue /\ delayed' = delayed /\ cur' = cur
        /\ \A d \in CRs \ {cur} : cr'[d] = cr[d]
    BY <1>3 DEF BInv, TInv, TypeOK, HubOK, MarkInProgress, EnsureFinalizer,
       AnnounceDecisions, BeginFinalizing, UpdateStatus
  <2>. QED
    BY <2>1, StaysReported
<1>4. CASE RejectNamespace
  <2>1. /\ cur \in CRs /\ TInv /\ UpdateStatus(Misconfigured, {})
        /\ queue' = queue /\ delayed' = delayed
    BY <1>4 DEF BInv, TInv, Working, RejectNamespace
  <2>2. cr'[cur].state = Misconfigured /\ \A d \in CRs \ {cur} : cr'[d] = cr[d]
    BY <2>1, StatesAreStates, StatusFields
  <2>. QED
    BY <2>1, <2>2 DEF Reported, Quiet, Delivered, Misconfigured, Successful, Unreliable, Tentative
<1>5. CASE RemoveFinalizer
  BY <1>5 DEF BInv, TInv, TypeOK, HubOK, Working, Reported, Quiet, RemoveFinalizer
<1>6. CASE ObjectGone \/ AnalysisFails \/ PlacementGone \/ DecisionPending
           \/ WorksNotReady \/ CallFails
           \/ (\E b \in todo : CreatePlacement(b) \/ WorkAlreadyExists(b))
           \/ \E k \in todo : WorkGone(k)
  <2>1. cr' = cr /\ queue \subseteq queue' /\ delayed' = delayed \cup {cur}
    BY <1>6 DEF ObjectGone, AnalysisFails, PlacementGone, DecisionPending,
       WorksNotReady, CallFails, CreatePlacement, WorkAlreadyExists, WorkGone, Requeue, hub
  <2>. QED
    BY <2>1, StaysReported
<1>7. CASE Refuse \/ BundleForTarget \/ BundleForPlacement \/ PlacementUnsatisfied
           \/ PlacementSatisfied \/ Cleaning \/ WorksFailed \/ WorksApplied
           \/ RemoveOldLinks \/ RegisterLinks \/ DeleteLinks
           \/ (\E b \in todo : UpdatePlacement(b) \/ CreateWork(b) \/ UpdateWork(b)
                               \/ SkipDeletion(b))
           \/ \E k \in todo : DeleteOwnedWork(k)
  <2>1. cr' = cr /\ queue \subseteq queue' /\ delayed' = delayed /\ cur' = cur
    BY <1>7 DEF Refuse, BundleForTarget, BundleForPlacement, PlacementUnsatisfied,
       PlacementSatisfied, Cleaning, DropWork, MoveBundle, DropPlacement,
       WorksFailed, WorksApplied, RemoveOldLinks, RegisterLinks, DeleteLinks,
       UpdatePlacement, CreateWork, UpdateWork, SkipDeletion, DeleteOwnedWork, hub
  <2>. QED
    BY <2>1, StaysReported
<1>8. CASE \E d \in CRs : Start(d)
  <2>1. PICK d \in CRs : Start(d)
    BY <1>8
  <2>2. cur = Nil /\ cr' = cr /\ queue' = queue \ {d} /\ delayed' = delayed
    BY <2>1 DEF BInv, IdleCur, Start, hub
  <2>3. c # d
    BY <2>1, <2>2 DEF Start, Reported, Quiet
  <2>. QED
    BY <2>2, <2>3, NilAssumption DEF Reported, Quiet, NilAssumption
<1>9. CASE Restart
  BY <1>9 DEF Restart, Reported, Quiet
<1>10. CASE Users
  <2>1. PICK d \in CRs : UserDelete(d) \/ \E s \in Specs : UserCreate(d, s) \/ UserEdit(d, s)
    BY <1>10 DEF Users
  <2>2. /\ queue' = queue \cup {d} /\ delayed' = delayed /\ cur' = cur
        /\ \A e \in CRs \ {d} : cr'[e] = cr[e]
    BY <2>1 DEF BInv, TInv, TypeOK, HubOK, UserDelete, UserCreate, UserEdit, locals
  <2>. QED
    BY <2>2, StaysReported
<1>11. CASE OCM \/ CacheSync \/ \E d \in CRs : TimerFires(d)
  <2>1. cr' = cr /\ queue \cup delayed \subseteq queue' \cup delayed' /\ cur' = cur
    BY <1>11 DEF OCM, OCMDecides, GarbageCollect, AgentReports, AgentFinalizes,
       CacheSync, TimerFires, hub, locals
  <2>. QED
    BY <2>1, StaysReported
<1>. QED
  BY <1>1, <1>2, <1>3, <1>4, <1>5, <1>6, <1>7, <1>8, <1>9, <1>10, <1>11
  DEF Next, Reconcile, Admission, Validation, Placing, Pushing, Concluding, Deleting

-----------------------------------------------------------------------------
\* What a manifest is scheduled as: the invariant.

\* A bundle is on a cluster that satisfies its rules, and what its
\* ManifestWork holds is the bundle's.
Fit(b) == Placed(b) => b.rules \subseteq Claims[b.cluster]
Fed(b) == works[KeyOf(b)] # Nil => works[KeyOf(b)].res = b.res

FitsHere ==
  pc \in PlacingSteps \cup CommittedSteps \/ Succeeding => \A b \in bundles : Fit(b)

\* OCM decides by the rules of the bundle.
RulesWritten ==
  pc = "settle" /\ placements[turn.resourceName] # Nil
    => placements[turn.resourceName].rules = turn.rules

FedHere ==
  /\ pc = "push" => \A b \in bundles \ todo : Fed(b)
  /\ pc \in {"check", "unlink", "link"} \/ Succeeding => \A b \in bundles : Fed(b)

ReportedFed ==
  \A c \in CRs : Reported(c) =>
    \E bs : Told(c, cr[c], bs) /\ \A b \in bs : Fit(b) /\ Fed(b)

EInv == BInv /\ FitsHere /\ RulesWritten /\ FedHere /\ ReportedFed

LEMMA MadeFit ==
  ASSUME NEW c, NEW s \in Specs, Accepted(s)
  PROVE  \A b \in BundlesOf(c, s) : Fit(b)
<1>1. Nil \notin Clusters
  BY NilAssumption DEF NilAssumption
<1>. QED
  BY <1>1 DEF BundlesOf, WholeBundle, WorkloadBundle, Fit, Placed

\* Two bundles in hand, or one in hand and one of another manifest, have
\* ManifestWorks of their own.
LEMMA KeysDiffer ==
  ASSUME NamesDistinct, NEW c \in CRs, NEW s \in Specs, Accepted(s),
         NEW bs, Carries(bs, c, s), NEW a \in bs, NEW b \in bs, a # b
  PROVE  KeyOf(a) # KeyOf(b)
<1>1. NamedBy(a, c) /\ NamedBy(b, c) /\ a.name # b.name
  BY CarriedMade DEF Carries
<1>. QED
  BY <1>1, SameName DEF KeyOf

LEMMA MadeFor ==
  ASSUME NEW c, NEW b, NamedBy(b, c)
  PROVE  NamedFor(b.resourceName, c)
BY DEF NamedBy, NamedFor, Prefixes

LEMMA KeysApart ==
  ASSUME NamesDistinct, NEW c \in CRs, NEW d \in CRs, c # d,
         NEW a, NEW b, NamedBy(a, c), NamedBy(b, d)
  PROVE  KeyOf(a) # KeyOf(b)
<1>1. NamedFor(a.resourceName, c) /\ NamedFor(b.resourceName, d)
  BY MadeFor
<1>2. a.resourceName # b.resourceName
  BY <1>1, DistinctApart DEF NamesApart, NamedFor
<1>. QED
  BY <1>2 DEF KeyOf

-----------------------------------------------------------------------------
\* What becomes of ManifestWorks and their content.

ContentKept ==
  \A k \in Keys : works'[k] # Nil =>
    works[k] # Nil /\ works'[k].res = works[k].res /\ works'[k].label = works[k].label

\* Only a push changes it, for one bundle.
LEMMA PushContent ==
  ASSUME BInv, NEW a \in todo, CreateWork(a) \/ UpdateWork(a)
  PROVE  /\ a \in bundles /\ KeyOf(a) \in Keys
         /\ works'[KeyOf(a)].res = a.res
         /\ \/ works'[KeyOf(a)].label = OwnerLabel(cur)
            \/ /\ works[KeyOf(a)] # Nil
               /\ works'[KeyOf(a)].label = works[KeyOf(a)].label
         /\ \A k \in Keys \ {KeyOf(a)} : works'[k] = works[k]
<1>1. /\ pc = "push" /\ a \in bundles /\ a \in Bundles /\ Placed(a)
      /\ works \in [Keys -> WorkRecords \cup {Nil}]
  BY DEF BInv, LoopsVisit, TInv, TypeOK, HubOK, LocalsOK, PlacedSoFar, CreateWork, UpdateWork
<1>2. KeyOf(a) \in Keys
  BY <1>1 DEF Placed, Bundles, KeyOf, Keys
<1>3. CASE CreateWork(a)
  BY <1>1, <1>2, <1>3 DEF CreateWork, NewWork
<1>4. CASE UpdateWork(a)
  <2>1. works[KeyOf(a)] \in WorkRecords
    BY <1>1, <1>2, <1>4 DEF UpdateWork, Visible
  <2>. QED
    BY <1>1, <1>2, <1>4, <2>1 DEF UpdateWork, Visible, WorkRecords
<1>. QED
  BY <1>1, <1>2, <1>3, <1>4

LEMMA DeletionContent ==
  ASSUME TInv, NEW k, DeleteManifestWork(k)
  PROVE  ContentKept
BY DEF TInv, TypeOK, HubOK, DeleteManifestWork, Visible, WorkRecords, ContentKept

LEMMA ContentStep ==
  ASSUME TInv, [Next]_vars, ~(\E a \in todo : CreateWork(a) \/ UpdateWork(a))
  PROVE  ContentKept
<1>1. CASE works' = works
  BY <1>1 DEF ContentKept
<1>2. CASE Cleaning
  BY <1>2, DeletionContent DEF Cleaning, DropWork, MoveBundle, DropPlacement, ContentKept
<1>3. CASE \E k \in todo : DeleteOwnedWork(k)
  BY <1>3 DEF TInv, TypeOK, HubOK, LocalsOK, DeleteOwnedWork, WorkRecords, ContentKept
<1>4. CASE \E k \in Keys : AgentReports(k) \/ AgentFinalizes(k)
  <2>1. PICK k \in Keys : AgentReports(k) \/ AgentFinalizes(k)
    BY <1>4
  <2>2. /\ works \in [Keys -> WorkRecords \cup {Nil}]
        /\ works' = [works EXCEPT ![k] = works'[k]]
    BY <2>1 DEF TInv, TypeOK, HubOK, AgentReports, AgentFinalizes
  <2>3. works'[k] # Nil => /\ works[k] # Nil /\ works'[k].res = works[k].res
                           /\ works'[k].label = works[k].label
    <3>1. CASE AgentFinalizes(k)
      BY <2>2, <3>1 DEF AgentFinalizes
    <3>2. CASE AgentReports(k)
      <4>1. works[k] \in WorkRecords
        BY <2>2, <3>2 DEF AgentReports
      <4>2. PICK r : works'[k] = [works[k] EXCEPT !.report = r]
        BY <2>2, <3>2 DEF AgentReports
      <4>. QED
        BY <3>2, <4>1, <4>2 DEF AgentReports, WorkRecords
    <3>. QED
      BY <2>1, <3>1, <3>2
  <2>. QED
    BY <2>2, <2>3 DEF ContentKept
<1>5. CASE ~(Cleaning \/ (\E k \in todo : DeleteOwnedWork(k))
             \/ \E k \in Keys : AgentReports(k) \/ AgentFinalizes(k))
  <2>1. works' = works
    BY <1>5 DEF vars, hub, Next, Reconcile, Admission, MarkInProgress,
       RejectNamespace, EnsureFinalizer, ObjectGone, Validation, Refuse,
       AnalysisFails, BundleForTarget, BundleForPlacement, Placing,
       CreatePlacement, UpdatePlacement, PlacementGone, DecisionPending,
       PlacementUnsatisfied, PlacementSatisfied, AnnounceDecisions, Pushing,
       WorkAlreadyExists, WorksNotReady, WorksFailed, WorksApplied, Concluding,
       RemoveOldLinks, RegisterLinks, ReportStatus, Deleting, BeginFinalizing,
       DeleteLinks, RemoveFinalizer, WorkGone, CallFails, SkipDeletion, Restart,
       Start, TimerFires, Users, UserCreate, UserEdit, UserDelete, OCM,
       OCMDecides, GarbageCollect, CacheSync
  <2>. QED
    BY <1>1, <2>1
<1>. QED
  BY <1>2, <1>3, <1>4, <1>5

-----------------------------------------------------------------------------
\* A bundle is placed where its rules are satisfied.

\* The bundles in hand, and the rules OCM decides by, are left as they are.
FitKept ==
  /\ pc' \in PlacingSteps \cup CommittedSteps \/ Succeeding' =>
       /\ bundles' = bundles
       /\ pc \in PlacingSteps \cup CommittedSteps \/ Succeeding
  /\ pc' = "settle" /\ placements'[turn'.resourceName] # Nil =>
       /\ pc = "settle" /\ turn' = turn /\ placements[turn.resourceName] # Nil
       /\ placements'[turn.resourceName].rules = placements[turn.resourceName].rules

LEMMA KeptFits ==
  ASSUME FitsHere, RulesWritten, FitKept
  PROVE  FitsHere' /\ RulesWritten'
BY DEF FitsHere, RulesWritten, FitKept, Fit, Placed

LEMMA MadeFits ==
  ASSUME BInv, BundleForTarget \/ BundleForPlacement
  PROVE  FitsHere' /\ RulesWritten'
<1>1. /\ obj \in CRRecords /\ cur \in CRs /\ Accepted(obj.spec)
      /\ bundles' = BundlesOf(cur, obj.spec)
      /\ pc' \in {"place", "announce", "clean", "push", "check"}
  BY DEF BInv, TInv, Working, BundleForTarget, BundleForPlacement, GoClean, GoPush, GoPlace
<1>2. \A b \in bundles' : Fit(b)
  BY <1>1, MadeFit DEF CRRecords
<1>. QED
  BY <1>1, <1>2 DEF FitsHere, RulesWritten, Fit, Placed

\* OCM's decision is one of the clusters that satisfy the rules it was given.
LEMMA DecidedFits ==
  ASSUME PromptOCM = TRUE, BInv, FitsHere, RulesWritten, PlacementSatisfied
  PROVE  FitsHere' /\ RulesWritten'
<1>. DEFINE p == placements[turn.resourceName]
            b == [turn EXCEPT !.cluster = p.decision]
<1>1. /\ pc = "settle" /\ p # Nil /\ Settled(p) /\ p.decision \in Clusters
      /\ bundles' = (bundles \ {turn}) \cup {b}
      /\ pc' \in {"place", "announce"}
  BY DEF PlacementSatisfied, Readable, GoPlace
<1>2. p.rules = turn.rules
  BY <1>1 DEF RulesWritten
<1>3. Unsatisfied \notin Clusters
  BY NilAssumption DEF NilAssumption
<1>4. turn.rules \subseteq Claims[p.decision]
  BY <1>1, <1>2, <1>3 DEF Settled, Eligible
<1>5. turn \in Bundles
  BY <1>1 DEF BInv, TInv, TypeOK, LocalsOK, InLoop
<1>6. b.rules = turn.rules /\ b.cluster = p.decision
  BY <1>5 DEF Bundles
<1>7. \A a \in bundles : Fit(a)
  BY <1>1 DEF FitsHere, PlacingSteps
<1>8. \A a \in bundles' : Fit(a)
  BY <1>1, <1>4, <1>6, <1>7 DEF Fit
<1>. QED
  BY <1>1, <1>8 DEF FitsHere, RulesWritten, Fit, Placed

LEMMA RefusedFits == Refuse => FitKept
BY DEF Refuse, Report, FitKept, Succeeding, Delivered, Misconfigured, Failed,
   Successful, Unreliable, Tentative, PlacingSteps, CommittedSteps

\* The rules are written before the decision is read.
LEMMA UpdatedFits ==
  ASSUME BInv, FitsHere, NEW b \in todo, UpdatePlacement(b)
  PROVE  FitsHere' /\ RulesWritten'
<1>1. /\ pc = "place" /\ pc' = "settle" /\ turn' = b /\ bundles' = bundles
      /\ placements[b.resourceName] # Nil /\ b \in Bundles
      /\ placements' = [placements EXCEPT ![b.resourceName].rules = b.rules]
      /\ placements \in [ResourceNames -> PlacementRecords \cup {Nil}]
  BY DEF UpdatePlacement, BInv, TInv, TypeOK, HubOK, LocalsOK
<1>2. b.resourceName \in ResourceNames
  BY <1>1 DEF Bundles
<1>3. placements[b.resourceName] \in PlacementRecords
  BY <1>1, <1>2
<1>4. placements'[b.resourceName].rules = b.rules
  BY <1>1, <1>2, <1>3 DEF PlacementRecords
<1>. QED
  BY <1>1, <1>4 DEF FitsHere, RulesWritten, Fit, Placed, PlacingSteps

LEMMA OutsideFits ==
  ASSUME TInv, Users \/ OCM \/ CacheSync \/ \E c \in CRs : TimerFires(c)
  PROVE  FitKept
<1>1. UNCHANGED <<pc, cur, obj, bundles, todo, turn, verdict>>
  BY DEF Users, UserCreate, UserEdit, UserDelete, OCM, OCMDecides,
     GarbageCollect, AgentReports, AgentFinalizes, CacheSync, TimerFires, locals
<1>2. CASE placements' = placements
  BY <1>1, <1>2 DEF FitKept, Succeeding
<1>3. CASE \E n \in ResourceNames : OCMDecides(n) \/ GarbageCollect(n)
  <2>1. PICK n \in ResourceNames : OCMDecides(n) \/ GarbageCollect(n)
    BY <1>3
  <2>2. placements \in [ResourceNames -> PlacementRecords \cup {Nil}]
    BY DEF TInv, TypeOK, HubOK
  <2>3. placements[n] \in PlacementRecords
    BY <2>1, <2>2 DEF OCMDecides, GarbageCollect
  <2>4. \A m \in ResourceNames : placements'[m] # Nil =>
          placements[m] # Nil /\ placements'[m].rules = placements[m].rules
    <3>1. CASE OCMDecides(n)
      <4>1. PICK d : placements' = [placements EXCEPT ![n].decision = d]
        BY <3>1 DEF OCMDecides
      <4>. QED
        BY <2>2, <2>3, <4>1, NilAssumption DEF PlacementRecords, NilAssumption
    <3>2. CASE GarbageCollect(n)
      BY <2>2, <3>2 DEF GarbageCollect
    <3>. QED
      BY <2>1, <3>1, <3>2
  <2>5. pc = "settle" => turn.resourceName \in ResourceNames
    BY DEF TInv, TypeOK, LocalsOK, InLoop, Bundles
  <2>. QED
    BY <1>1, <2>4, <2>5 DEF FitKept, Succeeding
<1>. QED
  BY <1>2, <1>3 DEF Users, UserCreate, UserEdit, UserDelete, OCM, AgentReports,
     AgentFinalizes, CacheSync, TimerFires, hub

LEMMA FitStep ==
  ASSUME PromptOCM = TRUE, BInv, FitsHere, RulesWritten, [Next]_vars
  PROVE  FitsHere' /\ RulesWritten'
<1>. USE DEF FitKept, Succeeding, PlacingSteps, CommittedSteps
<1>1. CASE UNCHANGED vars
  BY <1>1, KeptFits DEF vars, hub, locals
<1>2. CASE Admission
  <2>1. FitKept
    BY <1>2 DEF Admission, MarkInProgress, RejectNamespace, EnsureFinalizer,
       ObjectGone, AfterAdmission, Requeue, Return
  <2>. QED
    BY <2>1, KeptFits
<1>3. CASE Validation
  <2>1. AnalysisFails => FitKept
    BY DEF AnalysisFails, Requeue, Return
  <2>. QED
    BY <1>3, <2>1, KeptFits, RefusedFits, MadeFits DEF Validation
<1>4. CASE Placing
  <2>1. PlacementGone \/ DecisionPending \/ (\E b \in todo : CreatePlacement(b)) => FitKept
    BY DEF PlacementGone, DecisionPending, CreatePlacement, Requeue, Return
  <2>2. PlacementUnsatisfied => FitKept
    BY DEF PlacementUnsatisfied, Report
  <2>3. AnnounceDecisions => FitKept
    BY DEF AnnounceDecisions, GoClean, GoPush
  <2>. QED
    BY <1>4, <2>1, <2>2, <2>3, KeptFits, UpdatedFits, DecidedFits DEF Placing
<1>5. CASE Cleaning \/ \E b \in todo : SkipDeletion(b)
  <2>1. FitKept
    BY <1>5 DEF Cleaning, DropWork, MoveBundle, DropPlacement, SkipDeletion, GoClean, GoPush
  <2>. QED
    BY <2>1, KeptFits
<1>6. CASE Pushing
  <2>1. FitKept
    BY <1>6 DEF Pushing, CreateWork, UpdateWork, WorkAlreadyExists, WorksNotReady,
       WorksFailed, WorksApplied, GoPush, Report, Requeue, Return
  <2>. QED
    BY <2>1, KeptFits
<1>7. CASE Concluding
  <2>1. FitKept
    BY <1>7 DEF Concluding, RemoveOldLinks, RegisterLinks, ReportStatus, Report, Return
  <2>. QED
    BY <2>1, KeptFits
<1>8. CASE Deleting
  <2>1. FitKept
    BY <1>8 DEF Deleting, BeginFinalizing, DeleteLinks, RemoveFinalizer,
       DeleteOwnedWork, WorkGone, Requeue, Return
  <2>. QED
    BY <2>1, KeptFits
<1>9. CASE CallFails \/ Restart \/ \E c \in CRs : Start(c)
  <2>1. FitKept
    BY <1>9 DEF BInv, IdleCur, CallFails, Restart, Start, Requeue, Return
  <2>. QED
    BY <2>1, KeptFits
<1>. QED
  BY <1>1, <1>2, <1>3, <1>4, <1>5, <1>6, <1>7, <1>8, <1>9, OutsideFits, KeptFits
  DEF Next, Reconcile, BInv

-----------------------------------------------------------------------------
\* The ManifestWork of a bundle holds what the bundle holds.

LEMMA KeyTyped ==
  ASSUME NEW b \in Bundles, Placed(b)
  PROVE  KeyOf(b) \in Keys
BY DEF Placed, Bundles, KeyOf, Keys

FedSteps == {"check", "unlink", "link"}

\* A push is the only step that takes a bundle out of a loop it goes on with;
\* the later stages, up to the report of a success, follow one another.
HandKept ==
  /\ pc' = "push" =>
       \/ todo' = bundles'
       \/ pc = "push" /\ bundles' = bundles /\ todo' = todo
  /\ pc' \in FedSteps \/ Succeeding' =>
       \/ bundles' = {}
       \/ (pc \in FedSteps \/ Succeeding) /\ bundles' = bundles
  /\ pc' \in {"unlink", "link"} \/ Succeeding' =>
       /\ UNCHANGED <<cur, bundles>>
       /\ WorksApplied \/ pc \in {"unlink", "link"} \/ Succeeding
  /\ pc' = "link" => RemoveOldLinks \/ pc = "link"
  /\ Succeeding' =>
       RegisterLinks \/ (Succeeding /\ UNCHANGED <<verdict, links>>)

LEMMA KeptFed ==
  ASSUME BInv, FedHere, HandKept, ContentKept
  PROVE  FedHere'
<1>1. CASE pc' = "push" /\ pc = "push" /\ bundles' = bundles /\ todo' = todo
  <2>1. \A b \in bundles : KeyOf(b) \in Keys
    BY <1>1, KeyTyped DEF BInv, TInv, TypeOK, LocalsOK, PlacedSoFar
  <2>. QED
    BY <1>1, <2>1 DEF ContentKept, FedHere, Fed, KeyOf, FedSteps, Succeeding
<1>2. CASE /\ pc' \in FedSteps \/ Succeeding'
           /\ pc \in FedSteps \/ Succeeding
           /\ bundles' = bundles
  <2>1. \A b \in bundles : KeyOf(b) \in Keys
    BY <1>2, KeyTyped DEF BInv, TInv, TypeOK, LocalsOK, PlacedSoFar, VerdictTrue,
       FedSteps, Succeeding
  <2>2. \A b \in bundles : Fed(b)
    BY <1>2 DEF FedHere, FedSteps
  <2>3. \A b \in bundles : works'[KeyOf(b)] # Nil => works'[KeyOf(b)].res = b.res
    BY <2>1, <2>2 DEF ContentKept, Fed
  <2>4. pc' # "push"
    BY <1>2 DEF FedSteps, Succeeding
  <2>. QED
    BY <1>2, <2>3, <2>4 DEF FedHere, Fed, KeyOf
<1>3. CASE pc' = "push" /\ todo' = bundles'
  BY <1>3 DEF FedHere, Succeeding
<1>4. CASE (pc' \in FedSteps \/ Succeeding') /\ bundles' = {}
  BY <1>4 DEF FedHere
<1>5. CASE pc' # "push" /\ pc' \notin FedSteps /\ ~Succeeding'
  BY <1>5 DEF FedHere, FedSteps
<1>. QED
  BY <1>1, <1>2, <1>3, <1>4, <1>5 DEF HandKept

\* A push feeds one ManifestWork, and takes from none of the others in hand.
LEMMA PushFeeds ==
  ASSUME NamesDistinct, BInv, FedHere, NEW a \in todo, CreateWork(a) \/ UpdateWork(a)
  PROVE  FedHere'
<1>1. /\ pc = "push" /\ bundles' = bundles
      /\ \/ pc' = "check" /\ todo \subseteq {a}
         \/ pc' = "push" /\ todo' = todo \ {a}
  BY DEF CreateWork, UpdateWork, GoPush
<1>2. /\ a \in bundles /\ KeyOf(a) \in Keys /\ works'[KeyOf(a)].res = a.res
      /\ \A k \in Keys \ {KeyOf(a)} : works'[k] = works[k]
  BY PushContent
<1>3. cur \in CRs /\ Carrying /\ \A b \in bundles : KeyOf(b) \in Keys
  BY <1>1, KeyTyped DEF BInv, BundlesCarry, CommittedSteps, TInv, Working, TypeOK,
     LocalsOK, PlacedSoFar
<1>4. \A b \in bundles : b # a => KeyOf(b) # KeyOf(a)
  BY <1>2, <1>3, KeysDiffer DEF Carrying
<1>5. ASSUME NEW b \in bundles, b \notin todo \/ b = a
      PROVE  works'[KeyOf(b)] # Nil => works'[KeyOf(b)].res = b.res
  BY <1>1, <1>2, <1>3, <1>4, <1>5 DEF FedHere, Fed
<1>. QED
  BY <1>1, <1>5 DEF FedHere, Fed, KeyOf, Succeeding

LEMMA HandStep ==
  ASSUME BInv, [Next]_vars, ~(\E a \in todo : CreateWork(a) \/ UpdateWork(a))
  PROVE  HandKept
<1>. USE DEF Succeeding, FedSteps, HandKept
<1>. DEFINE GoesToPush == /\ pc' \in {"place", "announce", "clean", "drop", "push", "check"}
                          /\ pc' = "push" => todo' = bundles'
                          /\ pc' = "check" => bundles' = {}
<1>1. CASE UNCHANGED vars
  BY <1>1 DEF vars, hub, locals, WorksApplied, RegisterLinks
<1>2. CASE Admission
  BY <1>2 DEF Admission, MarkInProgress, RejectNamespace, EnsureFinalizer,
     ObjectGone, AfterAdmission, Requeue, Return
<1>3. CASE Refuse
  BY <1>3 DEF Refuse, Report, Delivered, Misconfigured, Failed, Successful,
     Unreliable, Tentative
<1>4. CASE AnalysisFails \/ BundleForTarget \/ BundleForPlacement
  <2>1. AnalysisFails => pc' = "idle"
    BY DEF AnalysisFails, Requeue, Return
  <2>2. BundleForTarget \/ BundleForPlacement => GoesToPush
    BY DEF BundleForTarget, BundleForPlacement, GoClean, GoPush, GoPlace
  <2>. QED
    BY <1>4, <2>1, <2>2
<1>5. CASE Placing
  <2>1. CASE PlacementUnsatisfied
    BY <2>1 DEF PlacementUnsatisfied, Report, Delivered, Failed, Successful,
       Unreliable, Tentative
  <2>2. CASE \/ PlacementGone \/ DecisionPending \/ PlacementSatisfied
             \/ \E b \in todo : CreatePlacement(b) \/ UpdatePlacement(b)
    <3>1. pc' \in {"idle", "settle", "announce", "place"}
      BY <2>2 DEF CreatePlacement, UpdatePlacement, PlacementGone,
         DecisionPending, PlacementSatisfied, GoPlace, Requeue, Return
    <3>. QED
      BY <3>1
  <2>3. CASE AnnounceDecisions
    <3>1. GoesToPush
      BY <2>3 DEF AnnounceDecisions, GoClean, GoPush
    <3>. QED
      BY <3>1
  <2>. QED
    BY <1>5, <2>1, <2>2, <2>3 DEF Placing
<1>6. CASE Cleaning \/ \E b \in todo : SkipDeletion(b)
  <2>1. GoesToPush
    BY <1>6 DEF Cleaning, DropWork, MoveBundle, DropPlacement, SkipDeletion, GoClean, GoPush
  <2>. QED
    BY <2>1
<1>7. CASE Pushing
  <2>1. CASE WorksApplied
    <3>1. pc = "check" /\ pc' = "unlink" /\ UNCHANGED <<cur, bundles>>
      BY <2>1 DEF WorksApplied
    <3>. QED
      BY <2>1, <3>1
  <2>2. CASE WorksFailed
    <3>1. pc' = "report" /\ verdict'.state = Failed
      BY <2>2 DEF WorksFailed, Report
    <3>. QED
      BY <3>1 DEF Delivered, Failed, Successful, Unreliable, Tentative
  <2>3. CASE WorksNotReady \/ \E b \in todo : WorkAlreadyExists(b)
    BY <2>3 DEF WorksNotReady, WorkAlreadyExists, Requeue, Return
  <2>. QED
    BY <1>7, <2>1, <2>2, <2>3 DEF Pushing
<1>8. CASE Concluding \/ Deleting
  BY <1>8 DEF Concluding, RemoveOldLinks, RegisterLinks, ReportStatus, Report,
     Deleting, BeginFinalizing, DeleteLinks, RemoveFinalizer, DeleteOwnedWork,
     WorkGone, Requeue, Return
<1>9. CASE CallFails \/ Restart \/ \E c \in CRs : Start(c)
  BY <1>9 DEF BInv, IdleCur, CallFails, Restart, Start, Requeue, Return
<1>10. CASE Users \/ OCM \/ CacheSync \/ \E c \in CRs : TimerFires(c)
  BY <1>10 DEF Users, UserCreate, UserEdit, UserDelete, OCM, OCMDecides,
     GarbageCollect, AgentReports, AgentFinalizes, CacheSync, TimerFires, hub, locals
<1>. QED
  BY <1>1, <1>2, <1>3, <1>4, <1>5, <1>6, <1>7, <1>8, <1>9, <1>10
  DEF Next, Reconcile, Validation

LEMMA FedStep ==
  ASSUME NamesDistinct, BInv, FedHere, [Next]_vars
  PROVE  FedHere'
BY PushFeeds, ContentStep, HandStep, KeptFed DEF BInv

LEMMA ReportedFedStep ==
  ASSUME NamesDistinct, EInv, [Next]_vars
  PROVE  ReportedFed'
<1>. SUFFICES ASSUME NEW c \in CRs, Reported(c)'
              PROVE  \E bs : Told(c, cr'[c], bs) /\ \A b \in bs : Fit(b) /\ Fed(b)'
  BY DEF ReportedFed, Told, Carries, Alike, Fit, Placed
<1>. USE DEF EInv
<1>1. CASE ReportStatus /\ c = cur /\ Succeeding /\ Told(c, cr'[c], bundles)
  <2>1. works' = works
    BY <1>1 DEF ReportStatus
  <2>2. \A b \in bundles : Fit(b) /\ Fed(b)
    BY <1>1 DEF FitsHere, FedHere
  <2>. QED
    BY <1>1, <2>1, <2>2 DEF Fed, KeyOf
<1>2. CASE Reported(c) /\ cr'[c] = cr[c]
  <2>1. PICK bs : Told(c, cr[c], bs) /\ \A b \in bs : Fit(b) /\ Fed(b)
    BY <1>2 DEF ReportedFed
  <2>2. \A b \in bs : KeyOf(b) \in Keys
    BY <2>1, KeyTyped DEF Told
  <2>3. CASE \E a \in todo : CreateWork(a) \/ UpdateWork(a)
    <3>1. PICK a \in todo : CreateWork(a) \/ UpdateWork(a)
      BY <2>3
    <3>2. pc = "push"
      BY <3>1 DEF CreateWork, UpdateWork
    <3>3. /\ a \in bundles /\ \A k \in Keys \ {KeyOf(a)} : works'[k] = works[k]
      BY <3>1, PushContent
    <3>4. cur \in CRs /\ Carrying /\ c # cur
      BY <1>2, <3>2 DEF BInv, TInv, Working, BundlesCarry, CommittedSteps, Reported, Quiet
    <3>5. NamedBy(a, cur)
      BY <3>3, <3>4, CarriedMade DEF Carrying
    <3>6. \A b \in bs : NamedBy(b, c)
      <4>1. cr[c] \in CRRecords
        BY <1>2 DEF BInv, TInv, TypeOK, HubOK, Reported
      <4>. QED
        BY <2>1, <4>1, CarriedMade DEF Told, CRRecords
    <3>7. \A b \in bs : KeyOf(b) # KeyOf(a)
      BY <3>4, <3>5, <3>6, KeysApart
    <3>8. \A b \in bs : works'[KeyOf(b)] = works[KeyOf(b)]
      BY <2>2, <3>3, <3>7
    <3>. QED
      BY <1>2, <2>1, <3>8 DEF Fed, KeyOf
  <2>4. CASE ~(\E a \in todo : CreateWork(a) \/ UpdateWork(a))
    <3>1. ContentKept
      BY <2>4, ContentStep DEF BInv
    <3>2. \A b \in bs : works'[KeyOf(b)] # Nil => works'[KeyOf(b)].res = b.res
      BY <2>1, <2>2, <3>1 DEF ContentKept, Fed
    <3>. QED
      BY <1>2, <2>1, <3>2 DEF Fed, KeyOf
  <2>. QED
    BY <2>3, <2>4
<1>. QED
  BY <1>1, <1>2, ReportedStep

LEMMA EInit == Init => EInv
BY BundlesInit DEF Init, EInv, FitsHere, RulesWritten, FedHere, ReportedFed, Reported,
   Succeeding, PlacingSteps, CommittedSteps

LEMMA EStep ==
  ASSUME PromptOCM = TRUE, NamesDistinct
  PROVE  EInv /\ [Next]_vars => EInv'
BY BundlesStep, FitStep, FedStep, ReportedFedStep DEF EInv

-----------------------------------------------------------------------------
\* What is reported is the current spec.

\* A manifest has finitely many bundles.
LEMMA BundlesFinite ==
  ASSUME NEW c \in CRs, NEW s \in Specs
  PROVE  IsFiniteSet(BundlesOf(c, s))
<1>1. CASE s.cluster # Nil \/ ~s.annotated
  <2>1. \E b : BundlesOf(c, s) = {b}
    BY <1>1 DEF BundlesOf
  <2>. QED
    BY <2>1, FS_Singleton
<1>2. CASE s.cluster = Nil /\ s.annotated
  <2>. DEFINE last == {j \in DOMAIN s.workloads : LastOfName(s, j)}
              f == [i \in last |-> WorkloadBundle(s.workloads[i], c, s)]
  <2>1. DOMAIN s.workloads = 1..Len(s.workloads) /\ Len(s.workloads) \in Nat
    BY SchedulerAssumption DEF SchedulerAssumption
  <2>2. IsFiniteSet(1..Len(s.workloads))
    BY <2>1, FS_Interval
  <2>3. IsFiniteSet(last)
    BY <2>1, <2>2, FS_Subset
  <2>4. BundlesOf(c, s) = {WorkloadBundle(s.workloads[i], c, s) : i \in last}
    BY <1>2 DEF BundlesOf
  <2>5. f \in Surjection(last, BundlesOf(c, s))
    BY <2>4 DEF Surjection, Range
  <2>. QED
    BY <2>3, <2>5, FS_Surjection
<1>. QED
  BY <1>1, <1>2

\* There is a decision for each bundle.
LEMMA DecisionCount ==
  ASSUME NEW c \in CRs, NEW s \in Specs, NEW bs, Carries(bs, c, s)
  PROVE  /\ IsFiniteSet(DecisionsOf(bs)) /\ IsFiniteSet(bs)
         /\ Cardinality(DecisionsOf(bs)) = Cardinality(BundlesOf(c, s))
         /\ Cardinality(bs) = Cardinality(BundlesOf(c, s))
<1>. DEFINE made == BundlesOf(c, s)
            at == [a \in made |-> CHOOSE b \in bs : Alike(a, b)]
            dec == [b \in bs |-> <<b.name, b.cluster>>]
<1>1. at \in [made -> bs] /\ \A a \in made : Alike(a, at[a])
  BY DEF Carries
<1>2. dec \in [bs -> DecisionsOf(bs)] /\ \A b \in bs : dec[b] = <<b.name, b.cluster>>
  BY DEF DecisionsOf
<1>. HIDE DEF at, dec
<1>3. \A a, b \in made : at[a] = at[b] => a = b
  BY <1>1, BundlesDiffer DEF Alike
<1>4. \A b \in bs : \E a \in made : at[a] = b
  <2>. SUFFICES ASSUME NEW b \in bs PROVE \E a \in made : at[a] = b
    OBVIOUS
  <2>1. PICK a \in made : Alike(a, b)
    BY DEF Carries
  <2>2. at[a] \in bs /\ at[a].name = b.name
    BY <1>1, <2>1 DEF Alike
  <2>. QED
    BY <2>2 DEF Carries
<1>5. at \in Bijection(made, bs)
  BY <1>1, <1>3, <1>4 DEF Bijection, Injection, Surjection, IsInjective
<1>6. \A a, b \in bs : dec[a] = dec[b] => a = b
  BY <1>2 DEF Carries
<1>7. \A d \in DecisionsOf(bs) : \E b \in bs : dec[b] = d
  BY <1>2 DEF DecisionsOf
<1>8. dec \in Bijection(bs, DecisionsOf(bs))
  BY <1>2, <1>6, <1>7 DEF Bijection, Injection, Surjection, IsInjective
<1>9. IsFiniteSet(made)
  BY BundlesFinite
<1>10. IsFiniteSet(bs) /\ Cardinality(bs) = Cardinality(made)
  BY <1>5, <1>9, FS_Bijection DEF ExistsBijection
<1>. QED
  BY <1>8, <1>10, FS_Bijection DEF ExistsBijection

LEMMA CurrentDelivered ==
  ASSUME EInv
  PROVE  DeliveredIsCurrent
<1>. SUFFICES ASSUME NEW c \in CRs, cr[c] # Nil, Quiet(c), cr[c].state \in Delivered
              PROVE  /\ Cardinality(cr[c].decisions) = Cardinality(BundlesOf(c, cr[c].spec))
                     /\ \A a \in BundlesOf(c, cr[c].spec) : Current(c, a)
  BY DEF DeliveredIsCurrent
<1>1. PICK bs : Told(c, cr[c], bs) /\ \A b \in bs : Fit(b) /\ Fed(b)
  BY DEF EInv, ReportedFed, Reported
<1>2. cr[c].spec \in Specs
  BY DEF EInv, BInv, TInv, TypeOK, HubOK, CRRecords
<1>3. Cardinality(cr[c].decisions) = Cardinality(BundlesOf(c, cr[c].spec))
  BY <1>1, <1>2, DecisionCount DEF Told
<1>4. ASSUME NEW a \in BundlesOf(c, cr[c].spec) PROVE Current(c, a)
  <2>1. PICK b \in bs : Alike(a, b)
    BY <1>1 DEF Told, Carries
  <2>2. b.cluster \in Clusters /\ <<a.name, b.cluster>> \in cr[c].decisions
    BY <1>1, <2>1 DEF Told, Placed, DecisionsOf, Alike
  <2>3. a.rules \subseteq Claims[b.cluster]
    BY <1>1, <2>1, <2>2 DEF Fit, Placed, Alike
  <2>4. KeyOf(b) = <<a.resourceName, b.cluster>>
    BY <2>1 DEF KeyOf, Alike
  <2>5. works[a.resourceName, b.cluster] # Nil
          => works[a.resourceName, b.cluster].res = a.res
    BY <1>1, <2>1, <2>4 DEF Fed, Alike
  <2>. QED
    BY <2>2, <2>3, <2>5 DEF Current
<1>. QED
  BY <1>3, <1>4

\* What the controller is done with and reports as scheduled is the current
\* spec: a decision for each bundle, on a cluster that satisfies its rules, and
\* in the ManifestWork there, if there is one, the bundle's content.  No edit is
\* lost, whatever comes between two calls, fails or restarts.  OCM has to have
\* decided anew when the code reads a decision, and names must not meet.
THEOREM DeliveredCurrent ==
  ASSUME PromptOCM = TRUE, NamesDistinct
  PROVE  Spec => []DeliveredIsCurrent
<1>1. Init => EInv
  BY EInit
<1>2. EInv /\ [Next]_vars => EInv'
  BY EStep
<1>3. EInv => DeliveredIsCurrent
  BY CurrentDelivered
<1>. QED
  BY <1>1, <1>2, <1>3, PTL DEF Spec

-----------------------------------------------------------------------------
\* Nothing else of a scheduled manifest runs: the invariant.

LabelledBy(c) == {k \in Keys : works[k] # Nil /\ works[k].label = OwnerLabel(c)}

\* There are never more than finitely many ManifestWorks.
WorksFinite == IsFiniteSet({k \in Keys : works[k] # Nil})

\* The completeness of a scheduling is decided by counting.
CountedHere ==
  pc \in {"unlink", "link"} \/ Succeeding
    => Cardinality(LabelledBy(cur)) <= Cardinality(bundles)

ReportedCounted ==
  \A c \in CRs : Reported(c) =>
    \E bs : Told(c, cr[c], bs) /\ Cardinality(LabelledBy(c)) <= Cardinality(bs)

AInv == BInv /\ OInv /\ unseen = {} /\ WorksFinite /\ CountedHere /\ ReportedCounted

LEMMA LabelledFinite ==
  ASSUME WorksFinite, NEW c
  PROVE  IsFiniteSet(LabelledBy(c))
<1>1. LabelledBy(c) \subseteq {k \in Keys : works[k] # Nil}
  BY DEF LabelledBy
<1>. QED
  BY <1>1, FS_Subset DEF WorksFinite

\* Only a push makes a manifest have one more, and only its own.
LEMMA LabelledStep ==
  ASSUME BInv, WorksFinite, [Next]_vars, NEW c,
         (\E a \in todo : CreateWork(a) \/ UpdateWork(a))
           => OwnerLabel(c) # OwnerLabel(cur)
  PROVE  /\ Cardinality(LabelledBy(c)') <= Cardinality(LabelledBy(c))
         /\ Cardinality(LabelledBy(c)') \in Nat /\ Cardinality(LabelledBy(c)) \in Nat
<1>1. LabelledBy(c)' \subseteq LabelledBy(c)
  <2>1. CASE \E a \in todo : CreateWork(a) \/ UpdateWork(a)
    BY <2>1, PushContent DEF LabelledBy
  <2>2. CASE ~(\E a \in todo : CreateWork(a) \/ UpdateWork(a))
    BY <2>2, ContentStep DEF BInv, ContentKept, LabelledBy
  <2>. QED
    BY <2>1, <2>2
<1>. QED
  BY <1>1, LabelledFinite, FS_Subset, FS_CardinalityType

LEMMA FiniteStep ==
  ASSUME BInv, WorksFinite, [Next]_vars
  PROVE  WorksFinite'
<1>. DEFINE used == {k \in Keys : works[k] # Nil}
<1>1. CASE \E a \in todo : CreateWork(a) \/ UpdateWork(a)
  <2>1. PICK a \in todo : CreateWork(a) \/ UpdateWork(a)
    BY <1>1
  <2>2. used' \subseteq used \cup {KeyOf(a)}
    BY <2>1, PushContent
  <2>3. IsFiniteSet(used \cup {KeyOf(a)})
    BY FS_AddElement DEF WorksFinite
  <2>. QED
    BY <2>2, <2>3, FS_Subset DEF WorksFinite
<1>2. CASE ~(\E a \in todo : CreateWork(a) \/ UpdateWork(a))
  <2>1. used' \subseteq used
    BY <1>2, ContentStep DEF BInv, ContentKept
  <2>. QED
    BY <2>1, FS_Subset DEF WorksFinite
<1>. QED
  BY <1>1, <1>2

\* A bundling has finitely many bundles.
LEMMA CarriedFinite ==
  ASSUME NEW c \in CRs, NEW s \in Specs, NEW bs, Carries(bs, c, s)
  PROVE  IsFiniteSet(bs) /\ Cardinality(bs) \in Nat
BY DecisionCount, FS_CardinalityType

LEMMA CountStep ==
  ASSUME AInv, [Next]_vars
  PROVE  CountedHere'
<1>. USE DEF AInv
<1>. SUFFICES ASSUME pc' \in {"unlink", "link"} \/ Succeeding'
              PROVE  Cardinality(LabelledBy(cur)') <= Cardinality(bundles')
  BY DEF CountedHere, LabelledBy
<1>1. ~(\E a \in todo : CreateWork(a) \/ UpdateWork(a))
  BY DEF CreateWork, UpdateWork, GoPush, Succeeding
<1>2. /\ UNCHANGED <<cur, bundles>>
      /\ WorksApplied \/ pc \in {"unlink", "link"} \/ Succeeding
  BY <1>1, HandStep DEF HandKept
<1>3. Cardinality(LabelledBy(cur)) <= Cardinality(bundles)
  <2>1. CASE WorksApplied
    <3>1. Cardinality(Owned(cur)) = Cardinality(bundles) /\ LabelledBy(cur) = Owned(cur)
      BY <2>1 DEF WorksApplied, AllListed, Owned, Visible, LabelledBy
    <3>2. Cardinality(LabelledBy(cur)) \in Nat
      BY LabelledFinite, FS_CardinalityType
    <3>. QED
      BY <3>1, <3>2
  <2>2. CASE pc \in {"unlink", "link"} \/ Succeeding
    BY <2>2 DEF CountedHere
  <2>. QED
    BY <1>2, <2>1, <2>2
<1>4. cur \in CRs /\ Carrying
  BY <1>2 DEF BInv, TInv, Working, BundlesCarry, VerdictTrue, CommittedSteps,
     WorksApplied, Succeeding
<1>5. Cardinality(bundles) \in Nat
  BY <1>4, CarriedFinite DEF Carrying
<1>6. /\ Cardinality(LabelledBy(cur)') <= Cardinality(LabelledBy(cur))
      /\ Cardinality(LabelledBy(cur)') \in Nat /\ Cardinality(LabelledBy(cur)) \in Nat
  <2>1. PICK c : c = cur
    OBVIOUS
  <2>2. /\ Cardinality(LabelledBy(c)') <= Cardinality(LabelledBy(c))
        /\ Cardinality(LabelledBy(c)') \in Nat /\ Cardinality(LabelledBy(c)) \in Nat
    BY <1>1, LabelledStep
  <2>3. LabelledBy(cur)' = LabelledBy(c)' /\ LabelledBy(cur) = LabelledBy(c)
    BY <1>2, <2>1 DEF LabelledBy
  <2>. QED
    BY <2>2, <2>3
<1>. QED
  BY <1>2, <1>3, <1>5, <1>6

LEMMA ReportedCountStep ==
  ASSUME LabelsApart, AInv, [Next]_vars
  PROVE  ReportedCounted'
<1>. USE DEF AInv
<1>. SUFFICES ASSUME NEW c \in CRs, Reported(c)'
              PROVE  \E bs : /\ Told(c, cr'[c], bs)
                             /\ Cardinality(LabelledBy(c)') <= Cardinality(bs)
  BY DEF ReportedCounted, LabelledBy, Told, Carries, Alike, Placed
<1>1. CASE ReportStatus /\ c = cur /\ Succeeding /\ Told(c, cr'[c], bundles)
  <2>1. LabelledBy(c)' = LabelledBy(cur)
    BY <1>1 DEF ReportStatus, LabelledBy
  <2>. QED
    BY <1>1, <2>1 DEF CountedHere
<1>2. CASE Reported(c) /\ cr'[c] = cr[c]
  <2>1. PICK bs : Told(c, cr[c], bs) /\ Cardinality(LabelledBy(c)) <= Cardinality(bs)
    BY <1>2 DEF ReportedCounted
  <2>2. cr[c].spec \in Specs
    BY <1>2 DEF BInv, TInv, TypeOK, HubOK, CRRecords, Reported
  <2>3. Cardinality(bs) \in Nat
    BY <2>1, <2>2, CarriedFinite DEF Told
  <2>4. (\E a \in todo : CreateWork(a) \/ UpdateWork(a)) => OwnerLabel(c) # OwnerLabel(cur)
    <3>1. ASSUME \E a \in todo : CreateWork(a) \/ UpdateWork(a)
          PROVE  cur \in CRs /\ cur # c
      BY <1>2, <3>1 DEF BInv, TInv, Working, CreateWork, UpdateWork, Reported, Quiet
    <3>. QED
      BY <3>1 DEF LabelsApart
  <2>5. /\ Cardinality(LabelledBy(c)') <= Cardinality(LabelledBy(c))
        /\ Cardinality(LabelledBy(c)') \in Nat /\ Cardinality(LabelledBy(c)) \in Nat
    BY <2>4, LabelledStep
  <2>. QED
    BY <1>2, <2>1, <2>3, <2>5
<1>. QED
  BY <1>1, <1>2, ReportedStep

LEMMA AInit == Init => AInv
<1>. SUFFICES ASSUME Init PROVE AInv
  OBVIOUS
<1>1. {k \in Keys : works[k] # Nil} = {}
  BY DEF Init
<1>2. WorksFinite
  BY <1>1, FS_EmptySet DEF WorksFinite
<1>. QED
  BY <1>2, BundlesInit, OwnershipInit DEF Init, AInv, CountedHere, ReportedCounted,
     Reported, Succeeding

LEMMA AStep ==
  ASSUME CacheLag = FALSE, NamesDistinct, LabelsApart
  PROVE  AInv /\ [Next]_vars => AInv'
<1>. SUFFICES ASSUME AInv, [Next]_vars PROVE AInv'
  OBVIOUS
<1>1. unseen' = {}
  BY DEF AInv, vars, hub, Next, Reconcile, Admission, MarkInProgress,
     RejectNamespace, EnsureFinalizer, ObjectGone, Validation, Refuse,
     AnalysisFails, BundleForTarget, BundleForPlacement, Placing,
     CreatePlacement, UpdatePlacement, PlacementGone, DecisionPending,
     PlacementUnsatisfied, PlacementSatisfied, AnnounceDecisions, Cleaning,
     DropWork, MoveBundle, DropPlacement, Pushing, CreateWork, UpdateWork,
     WorkAlreadyExists, WorksNotReady, WorksFailed, WorksApplied, Concluding,
     RemoveOldLinks, RegisterLinks, ReportStatus, Deleting, BeginFinalizing,
     DeleteOwnedWork, DeleteLinks, RemoveFinalizer, WorkGone, CallFails,
     SkipDeletion, Restart, Start, TimerFires, Users, UserCreate, UserEdit,
     UserDelete, OCM, OCMDecides, GarbageCollect, AgentReports, AgentFinalizes,
     CacheSync
<1>2. OInv'
  BY DistinctApart, OwnershipStep DEF AInv
<1>. QED
  BY <1>1, <1>2, BundlesStep, FiniteStep, CountStep, ReportedCountStep DEF AInv

-----------------------------------------------------------------------------
\* When as many ManifestWorks have the label as there are bundles, and each
\* bundle has its own, there is no other.

LEMMA AllDelivered ==
  ASSUME NamesDistinct, AInv
  PROVE  DeliveredIsAll
<1>. SUFFICES ASSUME NEW c \in CRs, Reported(c),
                     NEW due, due = {k \in Keys : \E a \in BundlesOf(c, cr[c].spec) :
                                /\ k[1] = a.resourceName
                                /\ <<a.name, k[2]>> \in cr[c].decisions},
                     \A k \in due : works[k] # Nil,
                     NEW k \in Keys \ due, works[k] # Nil
              PROVE  works[k].label # OwnerLabel(c)
  BY DEF DeliveredIsAll, Reported
<1>. USE DEF AInv
<1>. DEFINE s == cr[c].spec
<1>1. PICK bs : Told(c, cr[c], bs) /\ Cardinality(LabelledBy(c)) <= Cardinality(bs)
  BY DEF ReportedCounted
<1>2. /\ s \in Specs /\ Accepted(s) /\ Carries(bs, c, s)
      /\ bs \in SUBSET Bundles /\ cr[c].decisions = DecisionsOf(bs)
  BY <1>1 DEF BInv, TInv, TypeOK, HubOK, CRRecords, Reported, Told
<1>3. \A b \in bs : KeyOf(b) \in due
  <2>. SUFFICES ASSUME NEW b \in bs PROVE KeyOf(b) \in due
    OBVIOUS
  <2>1. PICK a \in BundlesOf(c, s) : Alike(a, b)
    BY <1>2 DEF Carries
  <2>2. KeyOf(b) \in Keys
    BY <1>1, KeyTyped DEF Told
  <2>3. KeyOf(b)[1] = a.resourceName /\ <<a.name, KeyOf(b)[2]>> \in cr[c].decisions
    BY <1>2, <2>1 DEF KeyOf, Alike, DecisionsOf
  <2>. QED
    BY <2>2, <2>3
<1>4. \A d \in due : \E b \in bs : KeyOf(b) = d
  <2>. SUFFICES ASSUME NEW d \in due PROVE \E b \in bs : KeyOf(b) = d
    OBVIOUS
  <2>1. PICK a \in BundlesOf(c, s) :
          d[1] = a.resourceName /\ <<a.name, d[2]>> \in cr[c].decisions
    OBVIOUS
  <2>2. PICK b \in bs : b.name = a.name /\ b.cluster = d[2]
    BY <1>2, <2>1 DEF DecisionsOf
  <2>3. Alike(a, b)
    BY <1>2, <2>2, BundlesDiffer DEF Carries, Alike
  <2>4. d = <<d[1], d[2]>>
    BY DEF Keys
  <2>. QED
    BY <2>1, <2>2, <2>3, <2>4 DEF KeyOf, Alike
<1>5. \A a, b \in bs : KeyOf(a) = KeyOf(b) => a = b
  BY <1>2, KeysDiffer
<1>6. Cardinality(due) = Cardinality(bs) /\ IsFiniteSet(due)
  <2>. DEFINE f == [b \in bs |-> KeyOf(b)]
  <2>1. f \in [bs -> due] /\ \A b \in bs : f[b] = KeyOf(b)
    BY <1>3
  <2>. HIDE DEF f
  <2>2. \A d \in due : \E b \in bs : f[b] = d
    <3>. SUFFICES ASSUME NEW d \in due PROVE \E b \in bs : f[b] = d
      OBVIOUS
    <3>1. PICK b \in bs : KeyOf(b) = d
      BY <1>4
    <3>2. f[b] = d
      BY <2>1, <3>1
    <3>. QED
      BY <3>2
  <2>3. \A a, b \in bs : f[a] = f[b] => a = b
    BY <1>5, <2>1
  <2>4. f \in Bijection(bs, due)
    BY <2>1, <2>2, <2>3 DEF Bijection, Injection, Surjection, IsInjective
  <2>. QED
    BY <1>2, <2>4, CarriedFinite, FS_Bijection DEF ExistsBijection
<1>7. due \subseteq LabelledBy(c)
  <2>. SUFFICES ASSUME NEW d \in due PROVE d \in LabelledBy(c)
    OBVIOUS
  <2>1. PICK b \in bs : KeyOf(b) = d
    BY <1>4
  <2>2. NamedFor(b.resourceName, c)
    BY <1>2, CarriedMade, MadeFor
  <2>3. d \in Keys /\ works[d] # Nil /\ d[1] = b.resourceName
    BY <2>1 DEF KeyOf
  <2>4. PICK e \in CRs : NamedFor(d[1], e) /\ works[d].label = OwnerLabel(e)
    BY <2>3 DEF OInv, WorksNamed
  <2>5. e = c
    BY <2>2, <2>3, <2>4, DistinctApart DEF NamesApart, NamedFor
  <2>. QED
    BY <2>3, <2>4, <2>5 DEF LabelledBy
<1>8. due = LabelledBy(c)
  <2>1. IsFiniteSet(LabelledBy(c))
    BY LabelledFinite
  <2>2. Cardinality(due) <= Cardinality(LabelledBy(c))
    BY <1>7, <2>1, FS_Subset
  <2>3. Cardinality(due) = Cardinality(LabelledBy(c))
    BY <1>1, <1>6, <2>1, <2>2, FS_CardinalityType
  <2>. QED
    BY <1>7, <2>1, <2>3, FS_Subset
<1>. QED
  BY <1>8 DEF LabelledBy

\* While the controller is done with a manifest and reports it as scheduled, no
\* ManifestWork of it runs that its decisions do not call for, if all they call
\* for are there: whatever was scheduled before, moved, dropped, skipped in a
\* clean-up or forgotten in a restart.  The client must see what it has
\* created, and neither names nor labels may meet.
THEOREM DeliveredAll ==
  ASSUME CacheLag = FALSE, NamesDistinct, LabelsApart
  PROVE  Spec => []DeliveredIsAll
<1>1. Init => AInv
  BY AInit
<1>2. AInv /\ [Next]_vars => AInv'
  BY AStep
<1>3. AInv => DeliveredIsAll
  BY AllDelivered
<1>. QED
  BY <1>1, <1>2, <1>3, PTL DEF Spec

-----------------------------------------------------------------------------
\* The links of a scheduled manifest are there.  Manifests that need one
\* service share its links, which the code removes for all of them when one is
\* rescheduled: what follows is about one manifest.

OneManifest == \A c, d \in CRs : c = d

Served(state, bs) == state \in {Successful, Tentative} => Connections(bs) \subseteq links

ServedHere == Succeeding => Served(verdict.state, bundles)

ReportedServed ==
  \A c \in CRs : Reported(c) =>
    \E bs : Told(c, cr[c], bs) /\ Served(cr[c].state, bs)

SInv == BInv /\ ServedHere /\ ReportedServed

\* Links go only in the middle of a reconciliation.
LEMMA LinksStay ==
  ASSUME [Next]_vars, ~RemoveOldLinks, ~DeleteLinks
  PROVE  links \subseteq links'
BY DEF vars, hub, Next, Reconcile, Admission, MarkInProgress, RejectNamespace,
   EnsureFinalizer, ObjectGone, Validation, Refuse, AnalysisFails,
   BundleForTarget, BundleForPlacement, Placing, CreatePlacement,
   UpdatePlacement, PlacementGone, DecisionPending, PlacementUnsatisfied,
   PlacementSatisfied, AnnounceDecisions, Cleaning, DropWork, MoveBundle,
   DropPlacement, Pushing, CreateWork, UpdateWork, WorkAlreadyExists,
   WorksNotReady, WorksFailed, WorksApplied, Concluding, RegisterLinks,
   ReportStatus, Deleting, BeginFinalizing, DeleteOwnedWork, RemoveFinalizer,
   WorkGone, CallFails, SkipDeletion, Restart, Start, TimerFires, Users,
   UserCreate, UserEdit, UserDelete, OCM, OCMDecides, GarbageCollect,
   AgentReports, AgentFinalizes, CacheSync

\* A success that is not unreliable has its links registered.
LEMMA RegistrationServes ==
  ASSUME RegisterLinks
  PROVE  verdict'.state \in {Successful, Tentative} => Connections(bundles) \subseteq links'
<1>1. /\ links' = IF Installed THEN links \cup Connections(bundles) ELSE links
      /\ verdict'.state = FinalState(obj.spec, bundles)
  BY DEF RegisterLinks, Report
<1>2. CASE Installed
  BY <1>1, <1>2
<1>3. CASE ~Installed
  BY <1>1, <1>3 DEF FinalState, Unreliable, Successful, Tentative
<1>. QED
  BY <1>2, <1>3

LEMMA ServedStep ==
  ASSUME BInv, ServedHere, [Next]_vars
  PROVE  ServedHere'
<1>. SUFFICES ASSUME Succeeding', verdict'.state \in {Successful, Tentative}
              PROVE  Connections(bundles') \subseteq links'
  BY DEF ServedHere, Served, Connections
<1>1. ~(\E a \in todo : CreateWork(a) \/ UpdateWork(a))
  BY DEF CreateWork, UpdateWork, GoPush, Succeeding
<1>2. /\ UNCHANGED bundles
      /\ RegisterLinks \/ (Succeeding /\ UNCHANGED <<verdict, links>>)
  BY <1>1, HandStep DEF HandKept
<1>3. CASE RegisterLinks
  BY <1>2, <1>3, RegistrationServes DEF Connections
<1>4. CASE Succeeding /\ UNCHANGED <<verdict, links>>
  BY <1>2, <1>4 DEF ServedHere, Served, Connections
<1>. QED
  BY <1>2, <1>3, <1>4

LEMMA ReportedServedStep ==
  ASSUME OneManifest, SInv, [Next]_vars
  PROVE  ReportedServed'
<1>. USE DEF SInv
<1>. SUFFICES ASSUME NEW c \in CRs, Reported(c)'
              PROVE  \E bs : /\ Told(c, cr'[c], bs)
                             /\ cr'[c].state \in {Successful, Tentative}
                                  => Connections(bs) \subseteq links'
  BY DEF ReportedServed, Served, Told, Carries, Alike, Placed, Connections
<1>1. CASE /\ ReportStatus /\ c = cur /\ Succeeding
           /\ Told(c, cr'[c], bundles) /\ cr'[c].state = verdict.state
  <2>1. links' = links
    BY <1>1 DEF ReportStatus
  <2>. QED
    BY <1>1, <2>1 DEF ServedHere, Served
<1>2. CASE Reported(c) /\ cr'[c] = cr[c]
  <2>1. PICK bs : Told(c, cr[c], bs) /\ Served(cr[c].state, bs)
    BY <1>2 DEF ReportedServed
  <2>2. ~RemoveOldLinks /\ ~DeleteLinks
    BY <1>2 DEF OneManifest, BInv, TInv, Working, Reported, Quiet, RemoveOldLinks, DeleteLinks
  <2>3. links \subseteq links'
    BY <2>2, LinksStay
  <2>. QED
    BY <1>2, <2>1, <2>3 DEF Served
<1>. QED
  BY <1>1, <1>2, ReportedStep

\* The bundles a manifest's decisions stand for are those it was told of.
LEMMA PlacedTold ==
  ASSUME TInv, NEW c \in CRs, cr[c] # Nil, NEW bs, Told(c, cr[c], bs)
  PROVE  Connections(PlacedBundles(c)) \subseteq Connections(bs)
<1>. DEFINE s == cr[c].spec
<1>1. s \in Specs /\ BundlesOf(c, s) \subseteq Bundles
  BY BundlesOfTyped DEF TInv, TypeOK, HubOK, CRRecords, Told
<1>2. ASSUME NEW p \in PlacedBundles(c)
      PROVE  \E b \in bs : /\ p.name = b.name /\ p.needs = b.needs
                           /\ p.res = b.res /\ p.cluster = b.cluster
  <2>1. PICK a \in BundlesOf(c, s) :
          \E d \in cr[c].decisions : d[1] = a.name /\ p = [a EXCEPT !.cluster = d[2]]
    BY DEF PlacedBundles
  <2>2. PICK d \in cr[c].decisions : d[1] = a.name /\ p = [a EXCEPT !.cluster = d[2]]
    BY <2>1
  <2>3. PICK b \in bs : d = <<b.name, b.cluster>>
    BY DEF Told, DecisionsOf
  <2>4. b.name = a.name /\ d[2] = b.cluster
    BY <2>2, <2>3
  <2>5. PICK o \in BundlesOf(c, s) : Alike(o, b)
    BY DEF Told, Carries
  <2>6. o = a
    BY <1>1, <2>4, <2>5, BundlesDiffer DEF Alike
  <2>7. /\ p.name = a.name /\ p.needs = a.needs
        /\ p.res = a.res /\ p.cluster = d[2]
    BY <1>1, <2>2 DEF Bundles
  <2>. QED
    BY <2>4, <2>5, <2>6, <2>7 DEF Alike
<1>3. ASSUME NEW l \in Links, NEW a \in PlacedBundles(c), NEW b \in PlacedBundles(c),
             /\ a.name # b.name /\ l.svc \in a.needs \cap b.res
             /\ l.tgt = a.cluster /\ l.src = b.cluster /\ l.src # l.tgt
      PROVE  l \in Connections(bs)
  <2>1. PICK x \in bs : /\ a.name = x.name /\ a.needs = x.needs
                        /\ a.res = x.res /\ a.cluster = x.cluster
    BY <1>2
  <2>2. PICK y \in bs : /\ b.name = y.name /\ b.needs = y.needs
                        /\ b.res = y.res /\ b.cluster = y.cluster
    BY <1>2
  <2>3. /\ x.name # y.name /\ l.svc \in x.needs \cap y.res
        /\ l.tgt = x.cluster /\ l.src = y.cluster /\ l.src # l.tgt
    BY <1>3, <2>1, <2>2
  <2>. QED
    BY <2>3 DEF Connections
<1>. QED
  BY <1>3 DEF Connections

\* The links that the decisions of a scheduled manifest call for are
\* registered for as long as the controller is done with it, through edits,
\* failed calls and restarts that make it forget what it had registered.
THEOREM LinksServed ==
  ASSUME OneManifest
  PROVE  Spec => []LinksServeDecisions
<1>1. Init => SInv
  BY BundlesInit DEF Init, SInv, ServedHere, ReportedServed, Reported, Succeeding
<1>2. SInv /\ [Next]_vars => SInv'
  BY BundlesStep, ServedStep, ReportedServedStep DEF SInv
<1>3. SInv => LinksServeDecisions
  <2>. SUFFICES ASSUME SInv, NEW c \in CRs, cr[c] # Nil, Quiet(c),
                       cr[c].state \in {Successful, Tentative}
                PROVE  Connections(PlacedBundles(c)) \subseteq links
    BY DEF LinksServeDecisions
  <2>1. Reported(c) /\ TInv
    BY DEF Reported, Delivered, SInv, BInv
  <2>2. PICK bs : Told(c, cr[c], bs) /\ Connections(bs) \subseteq links
    BY <2>1 DEF SInv, ReportedServed, Served
  <2>. QED
    BY <2>1, <2>2, PlacedTold
<1>. QED
  BY <1>1, <1>2, <1>3, PTL DEF Spec
=============================================================================
