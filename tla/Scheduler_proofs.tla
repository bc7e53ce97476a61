--------------------------- MODULE Scheduler_proofs ---------------------------
(***************************************************************************)
(* Proofs about module Scheduler, for every set of manifests, specs and    *)
(* clusters, and every bound: types, what is pushed when, and what becomes *)
(* of a manifest that is deleted.                                          *)
(***************************************************************************)
EXTENDS SchedulerProperties, TLAPS

-----------------------------------------------------------------------------
\* The inductive invariant for the types: what the step the reconciliation
\* has reached says about its locals.

Placed(b) == b.cluster \in Clusters

\* A reconciliation works on a manifest and has a copy of it.
Working == pc # "idle" => cur \in CRs /\ obj \in CRRecords

\* The bundle in the middle of a loop is one of the loop's.
InLoop == pc \in {"settle", "drop"} => turn \in todo

\* Bundles are placed one by one, and all are from the announcement on.
PlacedSoFar ==
  /\ pc \in {"place", "settle"} => \A b \in bundles : Placed(b) \/ b \in todo
  /\ pc \in {"announce", "clean", "drop", "push", "check", "unlink", "link"}
       => \A b \in bundles : Placed(b)
  /\ pc = "push" => \A b \in todo : Placed(b)

\* What is remembered was placed.
RememberedPlaced == \A c \in CRs : \A b \in memory[c] : Placed(b)

\* The verdict is there when it is to be reported.
VerdictReady ==
  pc = "report" => /\ verdict \in Verdicts
                   /\ verdict.save => \A b \in bundles : Placed(b)

TInv ==
  /\ TypeOK /\ Working /\ InLoop /\ PlacedSoFar /\ RememberedPlaced
  /\ VerdictReady

-----------------------------------------------------------------------------
\* Facts about the operators the actions are built from.

\* Bundling a spec that was accepted yields well-formed bundles.
LEMMA BundlesOfTyped ==
  ASSUME NEW c \in CRs, NEW s \in Specs, Accepted(s)
  PROVE  BundlesOf(c, s) \subseteq Bundles
<1>1. s.rules \subseteq Rules /\ s.manifests \subseteq Manifests
  BY DEF Rules, Manifests
<1>2. CASE s.cluster # Nil
  <2>1. s.cluster \in Clusters
    BY <1>2, SchedulerAssumption DEF Accepted, BadTarget, SchedulerAssumption
  <2>2. ResourceName(<<s.cluster>>, c) \in ResourceNames
    BY <2>1 DEF ResourceNames, Prefixes
  <2>. QED
    BY <1>1, <1>2, <2>1, <2>2 DEF BundlesOf, WholeBundle, Bundles, BundleNames
<1>3. CASE s.cluster = Nil /\ s.annotated
  <2>. SUFFICES ASSUME NEW i \in DOMAIN s.workloads
                PROVE  WorkloadBundle(s.workloads[i], c, s) \in Bundles
    BY <1>3 DEF BundlesOf
  <2>. DEFINE w == s.workloads[i]
  <2>1. w \in Workloads(s)
    BY DEF Workloads
  <2>2. /\ w.rules \subseteq Rules /\ w.res \subseteq Manifests
        /\ w.needs \subseteq Services
    BY <2>1 DEF Rules, Manifests, Services
  <2>3. w.name \in BundleNames /\ w.absent \in BOOLEAN
    BY <2>1, SchedulerAssumption DEF BundleNames, SchedulerAssumption
  <2>4. ResourceName(w.name, c) \in ResourceNames
    BY <2>3 DEF ResourceNames, Prefixes
  <2>. QED
    BY <1>1, <2>2, <2>3, <2>4 DEF WorkloadBundle, Bundles
<1>4. CASE s.cluster = Nil /\ ~s.annotated
  <2>1. \A n \in {DefaultName, GlobalName} :
          n \in BundleNames /\ ResourceName(n, c) \in ResourceNames
    BY DEF BundleNames, ResourceNames, Prefixes
  <2>2. \A n \in {DefaultName, GlobalName} : WholeBundle(n, n, c, s, Nil) \in Bundles
    BY <1>1, <2>1 DEF WholeBundle, Bundles
  <2>. QED
    BY <1>4, <2>2 DEF BundlesOf
<1>. QED
  BY <1>2, <1>3, <1>4

\* The decisions reported for placed bundles are well-formed.
LEMMA DecisionsTyped ==
  ASSUME NEW bs \in SUBSET Bundles, \A b \in bs : Placed(b)
  PROVE  DecisionsOf(bs) \in SUBSET Decisions
BY DEF DecisionsOf, Decisions, Bundles, Placed

\* A written status keeps the manifests well-formed, and their finalizers.
LEMMA UpdateStatusTyped ==
  ASSUME HubOK, cur \in CRs,
         NEW st \in States, NEW ds \in SUBSET Decisions, UpdateStatus(st, ds)
  PROVE  /\ cr' \in [CRs -> CRRecords \cup {Nil}]
         /\ cr'[cur] \in CRRecords
         /\ \A c \in CRs : cr[c] # Nil /\ cr[c].fin <=> cr'[c] # Nil /\ cr'[c].fin
<1>1. cr[cur] \in CRRecords
  BY DEF HubOK, UpdateStatus
<1>2. /\ [cr[cur] EXCEPT !.state = st, !.decisions = ds] \in CRRecords
      /\ [cr[cur] EXCEPT !.state = st, !.decisions = ds].fin = cr[cur].fin
  BY <1>1 DEF CRRecords
<1>3. cr' = [cr EXCEPT ![cur] = [cr[cur] EXCEPT !.state = st, !.decisions = ds]]
  BY DEF UpdateStatus, HubOK
<1>. QED
  BY <1>1, <1>2, <1>3, NilAssumption DEF HubOK, NilAssumption

\* Deleting a ManifestWork keeps it well-formed and its label.
LEMMA DeleteTyped ==
  ASSUME HubOK, NEW k, DeleteManifestWork(k)
  PROVE  /\ works' \in [Keys -> WorkRecords \cup {Nil}]
         /\ \A j \in Keys : works'[j] # Nil /\ ~works'[j].terminating
              => /\ works[j] # Nil /\ ~works[j].terminating
                 /\ works'[j].label = works[j].label
BY DEF DeleteManifestWork, Visible, HubOK, WorkRecords

-----------------------------------------------------------------------------
\* Types.

LEMMA TypeInit == Init => TInv
BY SchedulerAssumption DEF Init, TInv, TypeOK, HubOK, QueuesOK, LocalsOK,
   Working, InLoop, PlacedSoFar, RememberedPlaced, VerdictReady, Steps,
   SchedulerAssumption

\* Ending a reconciliation needs nothing of it to be well-formed.
LEMMA ReturnTyped ==
  ASSUME TInv, Return, HubOK', QueuesOK',
         memory' \in [CRs -> SUBSET Bundles], RememberedPlaced',
         userOps' \in 0..MaxUserOps, faults' \in 0..MaxFaults
  PROVE  TInv'
BY DEF TInv, TypeOK, LocalsOK, Return, Working, InLoop, PlacedSoFar,
   VerdictReady, Steps

\* Steps of the environment leave the reconciliation and its memory alone.
LEMMA OutsideTyped ==
  ASSUME TInv, HubOK', QueuesOK', userOps' \in 0..MaxUserOps,
         UNCHANGED <<memory, pc, locals, faults>>
  PROVE  TInv'
BY DEF TInv, TypeOK, LocalsOK, Working, InLoop, PlacedSoFar, RememberedPlaced,
   VerdictReady, locals

LEMMA EnvironmentTyped ==
  ASSUME TInv, Users \/ OCM \/ CacheSync \/ \E c \in CRs : TimerFires(c)
  PROVE  TInv'
<1>. USE DEF HubOK, QueuesOK, TInv, TypeOK
<1>1. ASSUME NEW c \in CRs, TimerFires(c) PROVE TInv'
  BY <1>1, OutsideTyped DEF TimerFires, hub, budgets
<1>2. ASSUME NEW c \in CRs, NEW s \in Specs, UserCreate(c, s) PROVE TInv'
  <2>1. [deleting |-> FALSE, fin |-> FALSE, spec |-> s, state |-> NoState,
         decisions |-> {}] \in CRRecords
    BY DEF CRRecords, States
  <2>. QED
    BY <1>2, <2>1, SchedulerAssumption, OutsideTyped
    DEF UserCreate, UserStep, SchedulerAssumption
<1>3. ASSUME NEW c \in CRs, NEW s \in Specs, UserEdit(c, s) PROVE TInv'
  <2>1. [cr[c] EXCEPT !.spec = s] \in CRRecords
    BY <1>3 DEF UserEdit, CRRecords
  <2>. QED
    BY <1>3, <2>1, SchedulerAssumption, OutsideTyped
    DEF UserEdit, UserStep, SchedulerAssumption
<1>4. ASSUME NEW c \in CRs, UserDelete(c) PROVE TInv'
  <2>1. [cr[c] EXCEPT !.deleting = TRUE] \in CRRecords
    BY <1>4 DEF UserDelete, CRRecords
  <2>. QED
    BY <1>4, <2>1, SchedulerAssumption, OutsideTyped
    DEF UserDelete, UserStep, SchedulerAssumption
<1>5. ASSUME NEW n \in ResourceNames, OCMDecides(n) PROVE TInv'
  <2>1. \A d \in Clusters \cup {Unsatisfied} :
          [placements[n] EXCEPT !.decision = d] \in PlacementRecords
    BY <1>5 DEF OCMDecides, PlacementRecords
  <2>. QED
    BY <1>5, <2>1, OutsideTyped DEF OCMDecides, queues, budgets
<1>6. ASSUME NEW n \in ResourceNames, GarbageCollect(n) PROVE TInv'
  <2>1. placements[n].owner \in CRs
    BY <1>6 DEF GarbageCollect, PlacementRecords
  <2>. QED
    BY <1>6, <2>1, OutsideTyped DEF GarbageCollect, budgets
<1>7. ASSUME NEW k \in Keys, AgentReports(k) PROVE TInv'
  <2>1. \A ok \in AgentOutcomes :
          [works[k] EXCEPT !.report = [res |-> works[k].res, ok |-> ok]]
            \in WorkRecords
    BY <1>7, SchedulerAssumption
    DEF AgentReports, WorkRecords, Reports, SchedulerAssumption
  <2>. QED
    BY <1>7, <2>1, OutsideTyped DEF AgentReports, queues, budgets
<1>8. ASSUME NEW k \in Keys, AgentFinalizes(k) PROVE TInv'
  BY <1>8, OutsideTyped DEF AgentFinalizes, queues, budgets
<1>9. ASSUME CacheSync PROVE TInv'
  BY <1>9, OutsideTyped DEF CacheSync, queues, budgets
<1>. QED
  BY <1>1, <1>2, <1>3, <1>4, <1>5, <1>6, <1>7, <1>8, <1>9 DEF Users, OCM

-----------------------------------------------------------------------------
\* Types: the reconciliation.

\* Every state the controller writes is a state of a manifest.
LEMMA StatesAreStates ==
  /\ {InProgress, Finalizing, Misconfigured, Failed} \subseteq States
  /\ \A s, bs : FinalState(s, bs) \in States
BY DEF States, Terminal, Delivered, FinalState, InProgress, Finalizing,
   Misconfigured, Failed, Successful, Unreliable, Tentative

\* What a clean-up visits was placed in the last scheduling.
LEMMA StaleTyped ==
  ASSUME TInv, cur \in CRs, NEW bs
  PROVE  Stale(bs) \subseteq Bundles
BY DEF TInv, TypeOK, Stale

\* A verdict is well-formed if its parts are.
LEMMA ReportTyped ==
  ASSUME NEW st \in States, NEW ds \in SUBSET Decisions, NEW save \in BOOLEAN,
         Report(st, ds, save)
  PROVE  pc' = "report" /\ verdict' \in Verdicts /\ verdict'.save = save
BY DEF Report, Verdicts

\* Admission keeps the types.
LEMMA AdmissionTyped == TInv /\ Admission => TInv'
<1>. USE DEF TInv, TypeOK, HubOK, QueuesOK, hub, queues, budgets
<1>1. ASSUME TInv, MarkInProgress PROVE TInv'
  <2>1. cur \in CRs /\ InProgress \in States /\ {} \in SUBSET Decisions
    BY <1>1, StatesAreStates DEF MarkInProgress, Working
  <2>2. cr' \in [CRs -> CRRecords \cup {Nil}] /\ cr'[cur] \in CRRecords
    BY <1>1, <2>1, UpdateStatusTyped DEF MarkInProgress
  <2>. QED
    BY <1>1, <2>1, <2>2
    DEF MarkInProgress, LocalsOK, Working, InLoop, PlacedSoFar,
        RememberedPlaced, VerdictReady, Steps
<1>2. ASSUME TInv, RejectNamespace PROVE TInv'
  <2>1. cur \in CRs /\ Misconfigured \in States /\ {} \in SUBSET Decisions
    BY <1>2, StatesAreStates DEF RejectNamespace, Working
  <2>2. cr' \in [CRs -> CRRecords \cup {Nil}]
    BY <1>2, <2>1, UpdateStatusTyped DEF RejectNamespace
  <2>. QED
    BY <1>2, <2>2, ReturnTyped DEF RejectNamespace, RememberedPlaced
<1>3. ASSUME TInv, EnsureFinalizer PROVE TInv'
  <2>1. cur \in CRs /\ obj \in CRRecords
    BY <1>3 DEF EnsureFinalizer, Working
  <2>2. cr' \in [CRs -> CRRecords \cup {Nil}] /\ obj' \in CRRecords
    <3>1. CASE obj.fin
      BY <1>3, <2>1, <3>1 DEF EnsureFinalizer
    <3>2. CASE ~obj.fin
      <4>1. cr[cur] \in CRRecords
        BY <1>3, <2>1, <3>2 DEF EnsureFinalizer
      <4>2. [cr[cur] EXCEPT !.fin = TRUE] \in CRRecords
        BY <4>1 DEF CRRecords
      <4>. QED
        BY <1>3, <2>1, <3>2, <4>2 DEF EnsureFinalizer
    <3>. QED
      BY <3>1, <3>2
  <2>3. pc' \in {"finalize", "analyse"}
    BY <1>3 DEF EnsureFinalizer, AfterAdmission
  <2>. QED
    BY <1>3, <2>1, <2>2, <2>3
    DEF EnsureFinalizer, LocalsOK, Working, InLoop, PlacedSoFar,
        RememberedPlaced, VerdictReady, Steps
<1>4. ASSUME TInv, ObjectGone PROVE TInv'
  BY <1>4, ReturnTyped
  DEF ObjectGone, Requeue, Working, RememberedPlaced
<1>. QED
  BY <1>1, <1>2, <1>3, <1>4 DEF Admission

\* Validation and bundling keep the types.
LEMMA ValidationTyped == TInv /\ Validation => TInv'
<1>. USE DEF TInv, TypeOK, HubOK, QueuesOK, hub, queues, budgets
<1>1. ASSUME TInv, Refuse PROVE TInv'
  <2>1. Report(Misconfigured, {}, FALSE) \/ Report(Failed, {}, FALSE)
    BY <1>1 DEF Refuse
  <2>2. /\ pc' = "report" /\ verdict' \in Verdicts /\ ~verdict'.save
    BY <2>1, StatesAreStates, ReportTyped
  <2>. QED
    BY <1>1, <2>2
    DEF Refuse, LocalsOK, Working, InLoop, PlacedSoFar, RememberedPlaced,
        VerdictReady, Steps
<1>2. ASSUME TInv, AnalysisFails PROVE TInv'
  BY <1>2, ReturnTyped
  DEF AnalysisFails, Requeue, Working, RememberedPlaced
<1>3. ASSUME TInv, BundleForTarget PROVE TInv'
  <2>. DEFINE bs == BundlesOf(cur, obj.spec)
  <2>1. cur \in CRs /\ obj \in CRRecords /\ obj.spec \in Specs
    BY <1>3 DEF BundleForTarget, Working, CRRecords
  <2>2. bs \subseteq Bundles
    BY <1>3, <2>1, BundlesOfTyped DEF BundleForTarget
  <2>3. \A b \in bs : Placed(b)
    <3>1. obj.spec.cluster \in Clusters
      BY <1>3, SchedulerAssumption
      DEF BundleForTarget, Accepted, BadTarget, SchedulerAssumption
    <3>. QED
      BY <1>3, <3>1 DEF BundleForTarget, BundlesOf, WholeBundle, Placed
  <2>4. Stale(bs) \subseteq Bundles
    BY <1>3, <2>1, StaleTyped
  <2>5. bundles' = bs /\ pc' \in {"clean", "push", "check"}
        /\ todo' \subseteq Bundles /\ (pc' = "push" => todo' = bs)
    <3>. HIDE DEF bs
    <3>. QED
      BY <1>3, <2>2, <2>4 DEF BundleForTarget, GoClean, GoPush, bs
  <2>. HIDE DEF bs
  <2>. QED
    BY <1>3, <2>1, <2>2, <2>3, <2>5
    DEF BundleForTarget, LocalsOK, Working, InLoop, PlacedSoFar,
        RememberedPlaced, VerdictReady, Steps, Placed
<1>4. ASSUME TInv, BundleForPlacement PROVE TInv'
  <2>1. cur \in CRs /\ obj \in CRRecords /\ obj.spec \in Specs
    BY <1>4 DEF BundleForPlacement, Working, CRRecords
  <2>2. bundles' \subseteq Bundles
    BY <1>4, <2>1, BundlesOfTyped DEF BundleForPlacement
  <2>3. todo' = bundles' /\ pc' = (IF bundles' = {} THEN "announce" ELSE "place")
    BY <1>4 DEF BundleForPlacement, GoPlace
  <2>. QED
    BY <1>4, <2>1, <2>2, <2>3
    DEF BundleForPlacement, LocalsOK, Working, InLoop, PlacedSoFar,
        RememberedPlaced, VerdictReady, Steps
<1>. QED
  BY <1>1, <1>2, <1>3, <1>4 DEF Validation

\* Placing keeps the types.
LEMMA PlacingTyped == TInv /\ Placing => TInv'
<1>. USE DEF TInv, TypeOK, HubOK, QueuesOK, hub, queues, budgets
<1>1. ASSUME TInv, NEW b \in todo, CreatePlacement(b) PROVE TInv'
  <2>1. /\ cur \in CRs /\ obj.spec \in Specs
        /\ b \in Bundles
    BY <1>1 DEF CreatePlacement, Working, CRRecords, LocalsOK
  <2>2. NewPlacement(b) \in PlacementRecords
    BY <2>1 DEF NewPlacement, PlacementRecords, SetNames, Bundles
  <2>. QED
    BY <1>1, <2>1, <2>2, ReturnTyped
    DEF CreatePlacement, Requeue, RememberedPlaced
<1>2. ASSUME TInv, NEW b \in todo, UpdatePlacement(b) PROVE TInv'
  <2>. DEFINE p == placements[b.resourceName]
  <2>1. b \in Bundles /\ b.resourceName \in ResourceNames /\ b.rules \subseteq Rules
    BY <1>2 DEF UpdatePlacement, LocalsOK, Bundles
  <2>2. p \in PlacementRecords
    BY <1>2, <2>1 DEF UpdatePlacement
  <2>3. p.owner \in CRs /\ [p EXCEPT !.rules = b.rules] \in PlacementRecords
    BY <2>1, <2>2 DEF PlacementRecords
  <2>4. placements' \in [ResourceNames -> PlacementRecords \cup {Nil}]
    BY <1>2, <2>1, <2>3 DEF UpdatePlacement
  <2>5. queue' \subseteq CRs
    BY <1>2, <2>3 DEF UpdatePlacement
  <2>. QED
    BY <1>2, <2>1, <2>4, <2>5
    DEF UpdatePlacement, LocalsOK, Working, InLoop, PlacedSoFar,
        RememberedPlaced, VerdictReady, Steps
<1>3. ASSUME TInv, PlacementGone \/ DecisionPending PROVE TInv'
  BY <1>3, ReturnTyped
  DEF PlacementGone, DecisionPending, Requeue, Working, RememberedPlaced
<1>4. ASSUME TInv, PlacementUnsatisfied PROVE TInv'
  <2>1. pc' = "report" /\ verdict' \in Verdicts /\ ~verdict'.save
    BY <1>4, StatesAreStates, ReportTyped DEF PlacementUnsatisfied
  <2>. QED
    BY <1>4, <2>1
    DEF PlacementUnsatisfied, LocalsOK, Working, InLoop, PlacedSoFar,
        RememberedPlaced, VerdictReady, Steps
<1>5. ASSUME TInv, PlacementSatisfied PROVE TInv'
  <2>. DEFINE x == placements[turn.resourceName].decision
              moved == [turn EXCEPT !.cluster = x]
  <2>1. turn \in todo /\ turn \in Bundles /\ x \in Clusters
    BY <1>5 DEF PlacementSatisfied, InLoop, LocalsOK
  <2>2. moved \in Bundles /\ Placed(moved)
    <3>. HIDE DEF x
    <3>. QED
      BY <2>1 DEF Bundles, Placed
  <2>3. bundles' = (bundles \ {turn}) \cup {moved} /\ todo' = todo \ {turn}
        /\ pc' = (IF todo' = {} THEN "announce" ELSE "place")
    BY <1>5 DEF PlacementSatisfied, GoPlace
  <2>4. \A b \in bundles' : Placed(b) \/ b \in todo'
    BY <1>5, <2>2, <2>3 DEF PlacementSatisfied, PlacedSoFar
  <2>. HIDE DEF moved
  <2>. QED
    BY <1>5, <2>1, <2>2, <2>3, <2>4
    DEF PlacementSatisfied, LocalsOK, Working, InLoop, PlacedSoFar,
        RememberedPlaced, VerdictReady, Steps, Placed
<1>6. ASSUME TInv, AnnounceDecisions PROVE TInv'
  <2>1. /\ cur \in CRs /\ InProgress \in States
        /\ DecisionsOf(bundles) \in SUBSET Decisions
    BY <1>6, StatesAreStates, DecisionsTyped
    DEF AnnounceDecisions, Working, LocalsOK, PlacedSoFar
  <2>2. cr' \in [CRs -> CRRecords \cup {Nil}] /\ cr'[cur] \in CRRecords
    BY <1>6, <2>1, UpdateStatusTyped DEF AnnounceDecisions
  <2>3. Stale(bundles) \subseteq Bundles
    BY <1>6, <2>1, StaleTyped
  <2>4. pc' \in {"clean", "push", "check"} /\ todo' \subseteq Bundles
        /\ (pc' = "push" => todo' = bundles)
    BY <1>6, <2>3 DEF AnnounceDecisions, GoClean, GoPush, LocalsOK
  <2>. QED
    BY <1>6, <2>1, <2>2, <2>4
    DEF AnnounceDecisions, LocalsOK, Working, InLoop, PlacedSoFar,
        RememberedPlaced, VerdictReady, Steps
<1>. QED
  BY <1>1, <1>2, <1>3, <1>4, <1>5, <1>6 DEF Placing

\* The clean-up keeps the types, also when it skips a deletion.
LEMMA CleaningTyped ==
  TInv /\ (Cleaning \/ \E b \in todo : SkipDeletion(b)) => TInv'
<1>. USE DEF TInv, TypeOK, HubOK, QueuesOK, hub, queues, budgets
<1>1. ASSUME TInv, pc \in {"clean", "drop"}, NEW b, GoClean(todo \ {b}, bundles)
      PROVE  /\ pc' \in {"clean", "push", "check"} /\ todo' \subseteq Bundles
             /\ pc' = "push" => todo' = bundles
  BY <1>1 DEF GoClean, GoPush, LocalsOK
<1>2. ASSUME TInv, NEW b \in todo, MoveBundle(b) PROVE TInv'
  <2>1. works' \in [Keys -> WorkRecords \cup {Nil}]
    BY <1>2, DeleteTyped DEF MoveBundle
  <2>. QED
    BY <1>1, <1>2, <2>1
    DEF MoveBundle, LocalsOK, Working, InLoop, PlacedSoFar,
        RememberedPlaced, VerdictReady, Steps
<1>3. ASSUME TInv, NEW b \in todo, DropPlacement(b) PROVE TInv'
  <2>. DEFINE p == placements[b.resourceName]
  <2>1. b \in Bundles /\ b.resourceName \in ResourceNames
    BY <1>3 DEF DropPlacement, LocalsOK, Bundles
  <2>2. p # Nil => p.owner \in CRs
    BY <1>3, <2>1 DEF PlacementRecords
  <2>3. queue' \subseteq CRs
    BY <1>3, <2>2 DEF DropPlacement
  <2>. QED
    BY <1>3, <2>1, <2>3
    DEF DropPlacement, LocalsOK, Working, InLoop, PlacedSoFar,
        RememberedPlaced, VerdictReady, Steps
<1>4. ASSUME TInv, DropWork PROVE TInv'
  <2>1. works' \in [Keys -> WorkRecords \cup {Nil}]
    BY <1>4, DeleteTyped DEF DropWork
  <2>. QED
    BY <1>1, <1>4, <2>1
    DEF DropWork, LocalsOK, Working, InLoop, PlacedSoFar,
        RememberedPlaced, VerdictReady, Steps
<1>5. ASSUME TInv, NEW b \in todo, SkipDeletion(b) PROVE TInv'
  <2>1. faults' \in 0..MaxFaults /\ b \in todo
    BY <1>5, SchedulerAssumption DEF SkipDeletion, SchedulerAssumption
  <2>2. CASE pc' = "drop"
    BY <1>5, <2>1, <2>2
    DEF SkipDeletion, LocalsOK, Working, InLoop, PlacedSoFar,
        RememberedPlaced, VerdictReady, Steps, GoClean, GoPush
  <2>3. CASE pc' # "drop"
    BY <1>1, <1>5, <2>1, <2>3
    DEF SkipDeletion, LocalsOK, Working, InLoop, PlacedSoFar,
        RememberedPlaced, VerdictReady, Steps
  <2>. QED
    BY <2>2, <2>3
<1>. QED
  BY <1>2, <1>3, <1>4, <1>5 DEF Cleaning

\* Pushing the bundles keeps the types.
LEMMA PushingTyped == TInv /\ Pushing => TInv'
<1>. USE DEF TInv, TypeOK, HubOK, QueuesOK, hub, queues, budgets
<1>1. ASSUME TInv, pc = "push", NEW b \in todo
      PROVE  cur \in CRs /\ b \in Bundles /\ KeyOf(b) \in Keys
  BY <1>1 DEF Working, LocalsOK, PlacedSoFar, Placed, Bundles, KeyOf, Keys
<1>2. ASSUME TInv, pc = "push", NEW b \in todo, GoPush(todo \ {b})
      PROVE  /\ pc' \in {"push", "check"} /\ todo' \subseteq Bundles
             /\ todo' \subseteq todo
  BY <1>2 DEF GoPush, LocalsOK
<1>3. ASSUME TInv, NEW b \in todo, CreateWork(b) PROVE TInv'
  <2>1. cur \in CRs /\ b \in Bundles /\ KeyOf(b) \in Keys
    BY <1>1, <1>3 DEF CreateWork
  <2>2. NewWork(b) \in WorkRecords
    BY <2>1 DEF NewWork, WorkRecords, Bundles
  <2>. QED
    BY <1>2, <1>3, <2>1, <2>2
    DEF CreateWork, LocalsOK, Working, InLoop, PlacedSoFar,
        RememberedPlaced, VerdictReady, Steps
<1>4. ASSUME TInv, NEW b \in todo, UpdateWork(b) PROVE TInv'
  <2>1. cur \in CRs /\ b \in Bundles /\ KeyOf(b) \in Keys
    BY <1>1, <1>4 DEF UpdateWork
  <2>2. works[KeyOf(b)] \in WorkRecords
    BY <1>4, <2>1 DEF UpdateWork, Visible
  <2>3. [works[KeyOf(b)] EXCEPT !.res = b.res] \in WorkRecords
    BY <2>1, <2>2 DEF WorkRecords, Bundles
  <2>4. works' \in [Keys -> WorkRecords \cup {Nil}]
    BY <1>4, <2>1, <2>3 DEF UpdateWork
  <2>. QED
    BY <1>2, <1>4, <2>1, <2>4
    DEF UpdateWork, LocalsOK, Working, InLoop, PlacedSoFar,
        RememberedPlaced, VerdictReady, Steps
<1>5. ASSUME TInv, WorksNotReady \/ \E b \in todo : WorkAlreadyExists(b)
      PROVE  TInv'
  BY <1>5, ReturnTyped
  DEF WorksNotReady, WorkAlreadyExists, Requeue, Working, RememberedPlaced
<1>6. ASSUME TInv, WorksFailed PROVE TInv'
  <2>1. DecisionsOf(bundles) \in SUBSET Decisions
    BY <1>6, DecisionsTyped DEF WorksFailed, LocalsOK, PlacedSoFar
  <2>2. pc' = "report" /\ verdict' \in Verdicts /\ ~verdict'.save
    BY <1>6, <2>1, StatesAreStates, ReportTyped DEF WorksFailed
  <2>. QED
    BY <1>6, <2>2
    DEF WorksFailed, LocalsOK, Working, InLoop, PlacedSoFar,
        RememberedPlaced, VerdictReady, Steps
<1>7. ASSUME TInv, WorksApplied PROVE TInv'
  BY <1>7
  DEF WorksApplied, LocalsOK, Working, InLoop, PlacedSoFar,
      RememberedPlaced, VerdictReady, Steps
<1>. QED
  BY <1>3, <1>4, <1>5, <1>6, <1>7 DEF Pushing

\* Linking the bundles and reporting the final status keep the types.
LEMMA ConcludingTyped == TInv /\ Concluding => TInv'
<1>. USE DEF TInv, TypeOK, HubOK, QueuesOK, hub, queues, budgets
<1>1. ASSUME TInv, RemoveOldLinks PROVE TInv'
  BY <1>1
  DEF RemoveOldLinks, LocalsOK, Working, InLoop, PlacedSoFar,
      RememberedPlaced, VerdictReady, Steps
<1>2. ASSUME TInv, RegisterLinks PROVE TInv'
  <2>1. DecisionsOf(bundles) \in SUBSET Decisions
    BY <1>2, DecisionsTyped DEF RegisterLinks, LocalsOK, PlacedSoFar
  <2>2. Remembered(obj.spec, bundles) \in BOOLEAN
    BY DEF Remembered
  <2>3. pc' = "report" /\ verdict' \in Verdicts
    BY <1>2, <2>1, <2>2, StatesAreStates, ReportTyped DEF RegisterLinks
  <2>4. links' \subseteq Links
    BY <1>2 DEF RegisterLinks, Connections
  <2>. QED
    BY <1>2, <2>3, <2>4
    DEF RegisterLinks, LocalsOK, Working, InLoop, PlacedSoFar,
        RememberedPlaced, VerdictReady, Steps, Placed
<1>3. ASSUME TInv, ReportStatus PROVE TInv'
  <2>1. /\ cur \in CRs /\ verdict.state \in States
        /\ verdict.decisions \in SUBSET Decisions
    BY <1>3 DEF ReportStatus, Working, VerdictReady, Verdicts
  <2>2. cr' \in [CRs -> CRRecords \cup {Nil}]
    BY <1>3, <2>1, UpdateStatusTyped DEF ReportStatus
  <2>3. memory' \in [CRs -> SUBSET Bundles]
    BY <1>3, <2>1 DEF ReportStatus, LocalsOK
  <2>4. RememberedPlaced'
    BY <1>3, <2>1 DEF ReportStatus, RememberedPlaced, VerdictReady, Placed
  <2>. QED
    BY <1>3, <2>2, <2>3, <2>4, ReturnTyped DEF ReportStatus
<1>. QED
  BY <1>1, <1>2, <1>3 DEF Concluding

\* Finalization keeps the types.
LEMMA DeletingTyped == TInv /\ Deleting => TInv'
<1>. USE DEF TInv, TypeOK, HubOK, QueuesOK, hub, queues, budgets
<1>1. ASSUME TInv, BeginFinalizing PROVE TInv'
  <2>1. cur \in CRs /\ Finalizing \in States /\ {} \in SUBSET Decisions
    BY <1>1, StatesAreStates DEF BeginFinalizing, Working
  <2>2. cr' \in [CRs -> CRRecords \cup {Nil}] /\ cr'[cur] \in CRRecords
    BY <1>1, <2>1, UpdateStatusTyped DEF BeginFinalizing
  <2>3. /\ todo' \subseteq Keys
        /\ pc' = (IF todo' = {} THEN "deleteLinks" ELSE "deleteWorks")
    BY <1>1 DEF BeginFinalizing, Owned
  <2>. QED
    BY <1>1, <2>1, <2>2, <2>3
    DEF BeginFinalizing, LocalsOK, Working, InLoop, PlacedSoFar,
        RememberedPlaced, VerdictReady, Steps
<1>2. ASSUME TInv, NEW k \in todo, DeleteOwnedWork(k) PROVE TInv'
  <2>1. k \in Keys /\ todo' \subseteq Keys
    BY <1>2 DEF DeleteOwnedWork, LocalsOK
  <2>2. [works[k] EXCEPT !.terminating = TRUE] \in WorkRecords
    BY <1>2, <2>1 DEF DeleteOwnedWork, WorkRecords
  <2>3. works' \in [Keys -> WorkRecords \cup {Nil}]
    BY <1>2, <2>1, <2>2 DEF DeleteOwnedWork
  <2>4. pc' = (IF todo' = {} THEN "deleteLinks" ELSE "deleteWorks")
    BY <1>2 DEF DeleteOwnedWork
  <2>. QED
    BY <1>2, <2>1, <2>3, <2>4
    DEF DeleteOwnedWork, LocalsOK, Working, InLoop, PlacedSoFar,
        RememberedPlaced, VerdictReady, Steps
<1>3. ASSUME TInv, NEW k, WorkGone(k) PROVE TInv'
  BY <1>3, ReturnTyped DEF WorkGone, Requeue, Working, RememberedPlaced
<1>4. ASSUME TInv, DeleteLinks PROVE TInv'
  BY <1>4
  DEF DeleteLinks, LocalsOK, Working, InLoop, PlacedSoFar,
      RememberedPlaced, VerdictReady, Steps
<1>5. ASSUME TInv, RemoveFinalizer PROVE TInv'
  <2>1. \A n \in ResourceNames : placements[n] # Nil =>
          [placements[n] EXCEPT !.orphaned = TRUE] \in PlacementRecords
    BY <1>5 DEF PlacementRecords
  <2>2. placements' \in [ResourceNames -> PlacementRecords \cup {Nil}]
    BY <1>5, <2>1 DEF RemoveFinalizer
  <2>. QED
    BY <1>5, <2>2, ReturnTyped DEF RemoveFinalizer, Working, RememberedPlaced
<1>. QED
  BY <1>1, <1>2, <1>3, <1>4, <1>5 DEF Deleting

\* Taking a manifest off the queue, failing and restarting keep the types.
LEMMA ControlTyped ==
  TInv /\ (CallFails \/ Restart \/ \E c \in CRs : Start(c)) => TInv'
<1>. USE SchedulerAssumption
     DEF TInv, TypeOK, HubOK, QueuesOK, hub, queues, budgets, SchedulerAssumption
<1>1. ASSUME TInv, CallFails PROVE TInv'
  BY <1>1, ReturnTyped DEF CallFails, Requeue, Working, RememberedPlaced
<1>2. ASSUME TInv, Restart PROVE TInv'
  BY <1>2, ReturnTyped DEF Restart, RememberedPlaced
<1>3. ASSUME TInv, NEW c \in CRs, Start(c) PROVE TInv'
  BY <1>3
  DEF Start, LocalsOK, Working, InLoop, PlacedSoFar, RememberedPlaced,
      VerdictReady, Steps
<1>. QED
  BY <1>1, <1>2, <1>3

\* TInv is inductive.
LEMMA TypeStep == TInv /\ [Next]_vars => TInv'
<1>1. ASSUME TInv, UNCHANGED vars PROVE TInv'
  BY <1>1, OutsideTyped DEF vars, hub, queues, locals, budgets, TInv, TypeOK,
     HubOK, QueuesOK
<1>2. TInv /\ Reconcile => TInv'
  BY AdmissionTyped, ValidationTyped, PlacingTyped, CleaningTyped,
     PushingTyped, ConcludingTyped, DeletingTyped DEF Reconcile
<1>. QED
  BY <1>1, <1>2, CleaningTyped, ControlTyped, EnvironmentTyped DEF Next

\* The state of the scheduler is well-formed at every moment: names, keys and
\* clusters are those of its manifests, and every local of Reconcile is what
\* the next call expects.
THEOREM TypeCorrect == Spec => []TypeOK
<1>1. Init => TInv
  BY TypeInit
<1>2. TInv /\ [Next]_vars => TInv'
  BY TypeStep
<1>3. TInv => TypeOK
  BY DEF TInv
<1>. QED
  BY <1>1, <1>2, <1>3, PTL DEF Spec

-----------------------------------------------------------------------------
\* A step that pushes content is CreateWork or UpdateWork: no other step
\* gives a ManifestWork new content.
LEMMA PushSteps ==
  ASSUME TInv, [Next]_vars, NEW k \in Keys, Pushed(k)
  PROVE  pc = "push"
<1>. USE DEF TInv, TypeOK, HubOK
<1>1. ASSUME NEW j, DeleteManifestWork(j) PROVE FALSE
  BY <1>1 DEF DeleteManifestWork, Visible, Pushed, WorkRecords
<1>2. ASSUME NEW b \in todo, MoveBundle(b) PROVE FALSE
  BY <1>1, <1>2 DEF MoveBundle
<1>3. ASSUME DropWork PROVE FALSE
  BY <1>1, <1>3 DEF DropWork
<1>4. ASSUME NEW j \in todo, DeleteOwnedWork(j) PROVE FALSE
  BY <1>4 DEF DeleteOwnedWork, Pushed, WorkRecords
<1>5. ASSUME NEW j \in Keys, AgentReports(j) PROVE FALSE
  BY <1>5 DEF AgentReports, Pushed, WorkRecords
<1>6. ASSUME NEW j \in Keys, AgentFinalizes(j) PROVE FALSE
  BY <1>6 DEF AgentFinalizes, Pushed
<1>7. works' # works
  BY DEF Pushed
<1>8. ASSUME Reconcile PROVE pc = "push"
  BY <1>2, <1>3, <1>4, <1>7, <1>8
  DEF Reconcile, Admission, Validation, Placing, Cleaning, Pushing, Concluding,
      Deleting, MarkInProgress, RejectNamespace, EnsureFinalizer, ObjectGone,
      Refuse, AnalysisFails, BundleForTarget, BundleForPlacement,
      CreatePlacement, UpdatePlacement, PlacementGone, DecisionPending,
      PlacementUnsatisfied, PlacementSatisfied, AnnounceDecisions,
      DropPlacement, CreateWork, UpdateWork, WorkAlreadyExists, WorksNotReady,
      WorksFailed, WorksApplied, RemoveOldLinks, RegisterLinks, ReportStatus,
      BeginFinalizing, WorkGone, DeleteLinks, RemoveFinalizer, hub
<1>9. ASSUME Users \/ OCM PROVE FALSE
  BY <1>5, <1>6, <1>7, <1>9
  DEF Users, OCM, UserCreate, UserEdit, UserDelete, OCMDecides, GarbageCollect
<1>. QED
  BY <1>7, <1>8, <1>9
  DEF Next, vars, hub, Start, TimerFires, CallFails, SkipDeletion, Restart, CacheSync

\* No content reaches a ManifestWork, to be applied by an agent, before all
\* bundles of the manifest have their cluster: one unsatisfied placement and
\* none of the manifest's workloads is pushed.
THEOREM PushCorrect == Spec => PushOnlyWhenAllPlaced
<1>1. Init => TInv
  BY TypeInit
<1>2. TInv /\ [Next]_vars => TInv'
  BY TypeStep
<1>3. TInv /\ [Next]_vars =>
        [(\E k \in Keys : Pushed(k)) => \A b \in bundles : b.cluster \in Clusters]_vars
  BY PushSteps DEF TInv, PlacedSoFar, Placed
<1>. QED
  BY <1>1, <1>2, <1>3, PTL DEF Spec, PushOnlyWhenAllPlaced

-----------------------------------------------------------------------------
(***************************************************************************)
(* A manifest that is deleted, in two proofs, for every set of manifests,  *)
(* specs and clusters, any number of edits, failed calls and restarts, and *)
(* labels that may even be shared by manifests.                            *)
(*                                                                         *)
(* The finalizer protects the ManifestWorks.  This is not inductive:       *)
(* besides the types it needs to know that the manifest holds the          *)
(* finalizer whenever its reconciliation is past the admission, and which  *)
(* ManifestWorks a finalization has still to delete.  It holds only for a  *)
(* client that sees its own writes: with a cache that lags, the list a     *)
(* finalization works on can be too short.                                 *)
(*                                                                         *)
(* And a manifest that is being finalized stays in that state until it is  *)
(* gone, with or without a lagging cache.  Between reading the manifest    *)
(* and writing its status a reconciliation makes many calls, and the       *)
(* manifest can be deleted at each.  What keeps it from overwriting the    *)
(* state Finalizing is that only it could have written that state: it      *)
(* decides once, by the copy it admitted, whether it schedules or          *)
(* finalizes, and the next one starts when it is over.                     *)
(***************************************************************************)

\* The finalizer.

Held(c) == cr[c] # Nil /\ cr[c].fin

\* The finalizer is there before anything is created, and a copy of the
\* manifest that shows it is right.
Admitted ==
  /\ pc \notin {"idle", "mark", "admit"} => Held(cur)
  /\ pc \in {"mark", "admit"} /\ obj.fin => Held(cur)

\* The ManifestWorks of the manifest being finalized that are not yet being
\* deleted are among those the loop has left.
Alive(k) == works[k] # Nil /\ ~works[k].terminating

Emptied ==
  /\ pc = "deleteWorks" =>
       \A k \in Keys : Alive(k) /\ works[k].label = OwnerLabel(cur) => k \in todo
  /\ pc \in {"deleteLinks", "release"} =>
       \A k \in Keys : Alive(k) => works[k].label # OwnerLabel(cur)

FInv == TInv /\ Admitted /\ Emptied /\ unseen = {} /\ FinalizerProtectsWorks

-----------------------------------------------------------------------------
\* Steps that disturb nothing.

\* No finalizer is taken away and no ManifestWork appears.
Kept ==
  /\ \A c \in CRs : Held(c) => Held(c)'
  /\ \A k \in Keys : Alive(k)' => Alive(k) /\ works'[k].label = works[k].label

LEMMA KeptProtects ==
  ASSUME FinalizerProtectsWorks, Kept
  PROVE  FinalizerProtectsWorks'
BY DEF FinalizerProtectsWorks, Protected, Kept, Held, Alive

\* A reconciliation ends.
LEMMA EndsKept ==
  ASSUME FInv, TInv', Kept, unseen' = {}, Return
  PROVE  FInv'
BY KeptProtects DEF FInv, Admitted, Emptied, Return

\* A reconciliation goes on, not with its finalization.
LEMMA GoesOn ==
  ASSUME FInv, TInv', Kept, unseen' = {}, cur' = cur,
         pc \notin {"idle", "mark", "admit"},
         pc' \notin {"mark", "admit", "deleteWorks", "deleteLinks", "release"}
  PROVE  FInv'
<1>1. cur \in CRs
  BY DEF FInv, TInv, Working
<1>2. Held(cur)'
  BY <1>1 DEF FInv, Admitted, Kept, Held
<1>. QED
  BY <1>2, KeptProtects DEF FInv, Admitted, Emptied, Held

\* A step that leaves the reconciliation alone.
LEMMA OutsideKept ==
  ASSUME FInv, TInv', Kept, unseen' = {}, UNCHANGED <<pc, cur, obj, todo>>
  PROVE  FInv'
<1>1. CASE pc = "idle"
  BY <1>1, KeptProtects DEF FInv, Admitted, Emptied
<1>2. CASE pc # "idle"
  <2>1. cur \in CRs
    BY <1>2 DEF FInv, TInv, Working
  <2>2. Held(cur) => Held(cur)'
    BY <2>1 DEF Kept, Held
  <2>3. Admitted'
    BY <2>2 DEF FInv, Admitted, Held
  <2>4. Emptied'
    BY DEF FInv, Emptied, Kept, Alive
  <2>. QED
    BY <2>3, <2>4, KeptProtects DEF FInv
<1>. QED
  BY <1>1, <1>2

\* Nothing but the manifests' status and the placements change.
LEMMA StatusKept ==
  ASSUME TInv, cur \in CRs, works' = works, NEW st \in States,
         NEW ds \in SUBSET Decisions, UpdateStatus(st, ds)
  PROVE  Kept
BY UpdateStatusTyped DEF TInv, TypeOK, Kept, Held, Alive

LEMMA HubKept ==
  ASSUME UNCHANGED <<cr, works>>
  PROVE  Kept
BY DEF Kept, Held, Alive

LEMMA DeleteKept ==
  ASSUME TInv, cr' = cr, NEW k, DeleteManifestWork(k)
  PROVE  Kept
BY DeleteTyped DEF TInv, TypeOK, Kept, Held, Alive

-----------------------------------------------------------------------------
\* The reconciliation, stage by stage.

\* Every step of the admission leaves the finalizer where the copy says.
LEMMA AdmissionProtects == FInv /\ TInv' /\ Admission => FInv'
<1>1. ASSUME FInv, TInv', MarkInProgress PROVE FInv'
  <2>1. cur \in CRs /\ InProgress \in States /\ {} \in SUBSET Decisions
    BY <1>1, StatesAreStates DEF FInv, TInv, MarkInProgress, Working
  <2>2. Kept
    BY <1>1, <2>1, StatusKept DEF FInv, MarkInProgress
  <2>3. cr'[cur] # Nil
    BY <1>1, <2>1, UpdateStatusTyped, NilAssumption
    DEF FInv, TInv, TypeOK, MarkInProgress, NilAssumption
  <2>4. Admitted' /\ Emptied'
    BY <1>1, <2>3 DEF Admitted, Emptied, MarkInProgress, Held
  <2>. QED
    BY <1>1, <2>2, <2>4, KeptProtects DEF FInv, MarkInProgress
<1>2. ASSUME FInv, TInv', RejectNamespace PROVE FInv'
  <2>1. cur \in CRs /\ Misconfigured \in States /\ {} \in SUBSET Decisions
    BY <1>2, StatesAreStates DEF FInv, TInv, RejectNamespace, Working
  <2>2. Kept
    BY <1>2, <2>1, StatusKept DEF FInv, RejectNamespace
  <2>. QED
    BY <1>2, <2>2, EndsKept DEF FInv, RejectNamespace
<1>3. ASSUME FInv, TInv', EnsureFinalizer PROVE FInv'
  <2>1. cur \in CRs
    BY <1>3 DEF FInv, TInv, EnsureFinalizer, Working
  <2>2. Held(cur)' /\ \A c \in CRs : Held(c) => Held(c)'
    <3>1. CASE obj.fin
      BY <1>3, <3>1 DEF FInv, Admitted, EnsureFinalizer, Held
    <3>2. CASE ~obj.fin
      <4>1. cr[cur] \in CRRecords /\ cr \in [CRs -> CRRecords \cup {Nil}]
        BY <1>3, <2>1, <3>2 DEF FInv, TInv, TypeOK, HubOK, EnsureFinalizer
      <4>2. [cr[cur] EXCEPT !.fin = TRUE] \in CRRecords
        BY <4>1 DEF CRRecords
      <4>3. [cr[cur] EXCEPT !.fin = TRUE].fin = TRUE
        BY <4>1 DEF CRRecords
      <4>4. cr' = [cr EXCEPT ![cur] = [cr[cur] EXCEPT !.fin = TRUE]]
        BY <1>3, <3>2 DEF EnsureFinalizer
      <4>5. cr'[cur] # Nil /\ cr'[cur].fin = TRUE
        BY <2>1, <4>1, <4>2, <4>3, <4>4, NilAssumption DEF NilAssumption
      <4>6. \A c \in CRs : c # cur => cr'[c] = cr[c]
        BY <2>1, <4>1, <4>4
      <4>7. cur' = cur
        BY <1>3 DEF EnsureFinalizer
      <4>. QED
        BY <2>1, <4>5, <4>6, <4>7, Zenon DEF Held
    <3>. QED
      BY <3>1, <3>2
  <2>3. Kept
    BY <1>3, <2>2 DEF EnsureFinalizer, Kept, Alive
  <2>4. pc' \in {"finalize", "analyse"} /\ cur' = cur /\ unseen' = unseen
    BY <1>3 DEF EnsureFinalizer, AfterAdmission
  <2>5. Admitted' /\ Emptied'
    BY <2>2, <2>4 DEF Admitted, Emptied, Held
  <2>. QED
    BY <1>3, <2>3, <2>4, <2>5, KeptProtects DEF FInv
<1>4. ASSUME FInv, TInv', ObjectGone PROVE FInv'
  BY <1>4, HubKept, EndsKept DEF FInv, ObjectGone, Requeue, hub
<1>. QED
  BY <1>1, <1>2, <1>3, <1>4 DEF Admission

\* From the validation to the clean-up no ManifestWork is created.
LEMMA MiddleProtects ==
  FInv /\ TInv' /\ (Validation \/ Placing \/ Cleaning \/ Concluding) => FInv'
<1>. USE DEF hub
<1>1. ASSUME FInv, TInv', Validation PROVE FInv'
  <2>1. Kept
    BY <1>1, HubKept
    DEF Validation, Refuse, AnalysisFails, BundleForTarget, BundleForPlacement
  <2>2. ASSUME AnalysisFails PROVE FInv'
    BY <1>1, <2>1, <2>2, EndsKept DEF FInv, AnalysisFails, Requeue
  <2>3. ASSUME Refuse \/ BundleForTarget \/ BundleForPlacement PROVE FInv'
    <3>1. pc = "analyse" /\ cur' = cur /\ unseen' = unseen
      BY <2>3 DEF Refuse, BundleForTarget, BundleForPlacement
    <3>2. pc' \in {"report", "clean", "push", "check", "announce", "place"}
      BY <2>3 DEF Refuse, BundleForTarget, BundleForPlacement, Report, GoClean,
         GoPush, GoPlace
    <3>. QED
      BY <1>1, <2>1, <3>1, <3>2, GoesOn DEF FInv
  <2>. QED
    BY <1>1, <2>2, <2>3 DEF Validation
<1>2. ASSUME FInv, TInv', AnnounceDecisions PROVE FInv'
  <2>1. /\ cur \in CRs /\ InProgress \in States
        /\ DecisionsOf(bundles) \in SUBSET Decisions
    BY <1>2, StatesAreStates, DecisionsTyped
    DEF FInv, TInv, TypeOK, AnnounceDecisions, Working, LocalsOK, PlacedSoFar
  <2>2. Kept
    BY <1>2, <2>1, StatusKept DEF FInv, AnnounceDecisions
  <2>3. pc' \in {"clean", "push", "check"}
    BY <1>2 DEF AnnounceDecisions, GoClean, GoPush
  <2>. QED
    BY <1>2, <2>2, <2>3, GoesOn DEF FInv, AnnounceDecisions
<1>3. ASSUME FInv, TInv', Placing, ~AnnounceDecisions PROVE FInv'
  <2>1. Kept
    BY <1>3, HubKept
    DEF Placing, CreatePlacement, UpdatePlacement, PlacementGone,
        DecisionPending, PlacementUnsatisfied, PlacementSatisfied
  <2>2. ASSUME PlacementGone \/ DecisionPending \/ \E b \in todo : CreatePlacement(b)
        PROVE  FInv'
    BY <1>3, <2>1, <2>2, EndsKept
    DEF FInv, PlacementGone, DecisionPending, CreatePlacement, Requeue
  <2>3. ASSUME \/ PlacementUnsatisfied \/ PlacementSatisfied
               \/ \E b \in todo : UpdatePlacement(b)
        PROVE  FInv'
    <3>1. pc \in {"place", "settle"} /\ cur' = cur /\ unseen' = unseen
      BY <2>3 DEF PlacementUnsatisfied, PlacementSatisfied, UpdatePlacement
    <3>2. pc' \in {"report", "announce", "place", "settle"}
      BY <2>3 DEF PlacementUnsatisfied, PlacementSatisfied, UpdatePlacement,
         Report, GoPlace
    <3>. QED
      BY <1>3, <2>1, <3>1, <3>2, GoesOn DEF FInv
  <2>. QED
    BY <1>3, <2>2, <2>3 DEF Placing
<1>4. ASSUME FInv, TInv', Cleaning PROVE FInv'
  <2>1. Kept
    BY <1>4, HubKept, DeleteKept DEF FInv, Cleaning, DropWork, MoveBundle, DropPlacement
  <2>2. pc \in {"clean", "drop"} /\ cur' = cur /\ unseen' = unseen
    BY <1>4 DEF Cleaning, DropWork, MoveBundle, DropPlacement
  <2>3. pc' \in {"clean", "drop", "push", "check"}
    BY <1>4 DEF Cleaning, DropWork, MoveBundle, DropPlacement, GoClean, GoPush
  <2>. QED
    BY <1>4, <2>1, <2>2, <2>3, GoesOn DEF FInv
<1>5. ASSUME FInv, TInv', ReportStatus PROVE FInv'
  <2>1. /\ cur \in CRs /\ verdict.state \in States
        /\ verdict.decisions \in SUBSET Decisions
    BY <1>5 DEF FInv, TInv, ReportStatus, Working, VerdictReady, Verdicts
  <2>2. Kept
    BY <1>5, <2>1, StatusKept DEF FInv, ReportStatus
  <2>. QED
    BY <1>5, <2>2, EndsKept DEF FInv, ReportStatus
<1>6. ASSUME FInv, TInv', RemoveOldLinks \/ RegisterLinks PROVE FInv'
  <2>1. Kept
    BY <1>6, HubKept DEF RemoveOldLinks, RegisterLinks
  <2>2. pc \in {"unlink", "link"} /\ cur' = cur /\ unseen' = unseen
    BY <1>6 DEF RemoveOldLinks, RegisterLinks
  <2>3. pc' \in {"link", "report"}
    BY <1>6 DEF RemoveOldLinks, RegisterLinks, Report
  <2>. QED
    BY <1>6, <2>1, <2>2, <2>3, GoesOn DEF FInv
<1>. QED
  BY <1>1, <1>2, <1>3, <1>4, <1>5, <1>6 DEF Concluding

\* A ManifestWork is created with the label of a manifest that holds the
\* finalizer, and an update keeps its label.
LEMMA PushingProtects ==
  ASSUME CacheLag = FALSE
  PROVE  FInv /\ TInv' /\ Pushing => FInv'
<1>1. ASSUME FInv, TInv', NEW b \in todo, CreateWork(b) PROVE FInv'
  <2>1. cur \in CRs /\ Held(cur)
    BY <1>1 DEF FInv, TInv, Admitted, Working, CreateWork
  <2>2. pc = "push" /\ pc' \in {"push", "check"} /\ cur' = cur /\ unseen' = {}
    BY <1>1 DEF FInv, CreateWork, GoPush
  <2>3. \A c \in CRs : Held(c)' <=> Held(c)
    BY <1>1 DEF CreateWork, Held
  <2>4. \A k \in Keys : k # KeyOf(b) => works'[k] = works[k]
    BY <1>1 DEF FInv, TInv, TypeOK, HubOK, CreateWork
  <2>5. KeyOf(b) \in Keys => works'[KeyOf(b)].label = OwnerLabel(cur)
    BY <1>1 DEF FInv, TInv, TypeOK, HubOK, CreateWork, NewWork
  <2>6. FinalizerProtectsWorks'
    <3>. SUFFICES ASSUME NEW k \in Keys, Alive(k)'
                  PROVE  \E c \in CRs : Held(c)' /\ OwnerLabel(c) = works'[k].label
      BY DEF FinalizerProtectsWorks, Protected, Alive, Held
    <3>1. CASE k = KeyOf(b)
      BY <2>1, <2>3, <2>5, <3>1
    <3>2. CASE k # KeyOf(b)
      BY <1>1, <2>3, <2>4, <3>2
      DEF FInv, FinalizerProtectsWorks, Protected, Alive, Held
    <3>. QED
      BY <3>1, <3>2
  <2>7. Admitted' /\ Emptied'
    BY <2>1, <2>2, <2>3 DEF Admitted, Emptied, Held
  <2>. QED
    BY <1>1, <2>2, <2>6, <2>7 DEF FInv
<1>2. ASSUME FInv, TInv', NEW b \in todo, UpdateWork(b) PROVE FInv'
  <2>1. pc = "push" /\ pc' \in {"push", "check"} /\ cur' = cur /\ unseen' = unseen
    BY <1>2 DEF UpdateWork, GoPush
  <2>2. Kept
    <3>1. \A k \in Keys : Alive(k)' => Alive(k) /\ works'[k].label = works[k].label
      BY <1>2 DEF FInv, TInv, TypeOK, HubOK, UpdateWork, Visible, Alive, WorkRecords
    <3>. QED
      BY <1>2, <3>1 DEF UpdateWork, Kept, Held
  <2>. QED
    BY <1>2, <2>1, <2>2, GoesOn DEF FInv
<1>3. ASSUME FInv, TInv', WorksNotReady \/ \E b \in todo : WorkAlreadyExists(b)
      PROVE  FInv'
  <2>1. Kept /\ Return /\ unseen' = unseen
    BY <1>3, HubKept DEF WorksNotReady, WorkAlreadyExists, Requeue, hub
  <2>. QED
    BY <1>3, <2>1, EndsKept DEF FInv
<1>4. ASSUME FInv, TInv', WorksFailed \/ WorksApplied PROVE FInv'
  <2>1. Kept
    BY <1>4, HubKept DEF WorksFailed, WorksApplied, hub
  <2>2. pc = "check" /\ pc' \in {"report", "unlink"} /\ cur' = cur /\ unseen' = unseen
    BY <1>4 DEF WorksFailed, WorksApplied, Report, hub
  <2>. QED
    BY <1>4, <2>1, <2>2, GoesOn DEF FInv
<1>. QED
  BY <1>1, <1>2, <1>3, <1>4 DEF Pushing

\* The finalizer is removed when no ManifestWork with the manifest's label is
\* left that is not being deleted.
LEMMA DeletingProtects == FInv /\ TInv' /\ Deleting => FInv'
<1>1. ASSUME FInv, TInv', BeginFinalizing PROVE FInv'
  <2>1. cur \in CRs /\ Finalizing \in States /\ {} \in SUBSET Decisions
    BY <1>1, StatesAreStates DEF FInv, TInv, BeginFinalizing, Working
  <2>2. Kept
    BY <1>1, <2>1, StatusKept DEF FInv, BeginFinalizing
  <2>3. Held(cur)'
    BY <1>1, <2>1, <2>2 DEF FInv, Admitted, BeginFinalizing, Kept, Held
  <2>4. \A k \in Keys : Alive(k)' /\ works'[k].label = OwnerLabel(cur) => k \in Owned(cur)
    BY <1>1 DEF FInv, BeginFinalizing, Owned, Visible, Alive
  <2>5. Emptied'
    BY <1>1, <2>4 DEF BeginFinalizing, Emptied, Alive
  <2>6. Admitted'
    BY <1>1, <2>3 DEF BeginFinalizing, Admitted, Held
  <2>. QED
    BY <1>1, <2>2, <2>5, <2>6, KeptProtects DEF FInv, BeginFinalizing
<1>2. ASSUME FInv, TInv', NEW k \in todo, DeleteOwnedWork(k) PROVE FInv'
  <2>1. \A j \in Keys : Alive(j)' => /\ j # k /\ Alive(j)
                                     /\ works'[j].label = works[j].label
    BY <1>2 DEF FInv, TInv, TypeOK, HubOK, DeleteOwnedWork, Alive, WorkRecords
  <2>2. Kept
    BY <1>2, <2>1 DEF DeleteOwnedWork, Kept, Held
  <2>3. cur \in CRs /\ Held(cur)' /\ cur' = cur
    BY <1>2 DEF FInv, TInv, Working, Admitted, DeleteOwnedWork, Held
  <2>4. Admitted'
    BY <1>2, <2>3 DEF DeleteOwnedWork, Admitted, Held
  <2>5. \A j \in Keys : Alive(j)' /\ works'[j].label = OwnerLabel(cur) => j \in todo \ {k}
    BY <1>2, <2>1 DEF FInv, Emptied, DeleteOwnedWork
  <2>6. Emptied'
    BY <1>2, <2>5 DEF DeleteOwnedWork, Emptied, Alive
  <2>. QED
    BY <1>2, <2>2, <2>4, <2>6, KeptProtects DEF FInv, DeleteOwnedWork
<1>3. ASSUME FInv, TInv', NEW k, WorkGone(k) PROVE FInv'
  BY <1>3, HubKept, EndsKept DEF FInv, WorkGone, Requeue, hub
<1>4. ASSUME FInv, TInv', DeleteLinks PROVE FInv'
  <2>1. Kept
    BY <1>4, HubKept DEF DeleteLinks
  <2>2. Admitted' /\ Emptied'
    BY <1>4 DEF FInv, DeleteLinks, Admitted, Emptied, Held, Alive
  <2>. QED
    BY <1>4, <2>1, <2>2, KeptProtects DEF FInv, DeleteLinks
<1>5. ASSUME FInv, TInv', RemoveFinalizer PROVE FInv'
  <2>1. \A c \in CRs : c # cur => (Held(c) => Held(c)')
    BY <1>5 DEF FInv, TInv, TypeOK, HubOK, RemoveFinalizer, Held
  <2>2. \A k \in Keys : Alive(k) => works[k].label # OwnerLabel(cur)
    BY <1>5 DEF FInv, Emptied, RemoveFinalizer
  <2>3. works' = works
    BY <1>5 DEF RemoveFinalizer
  <2>4. FinalizerProtectsWorks'
    <3>. SUFFICES ASSUME NEW k \in Keys, Alive(k)
                  PROVE  \E c \in CRs : Held(c)' /\ OwnerLabel(c) = works[k].label
      BY <2>3 DEF FinalizerProtectsWorks, Protected, Alive, Held
    <3>1. PICK c \in CRs : Held(c) /\ OwnerLabel(c) = works[k].label
      BY <1>5 DEF FInv, FinalizerProtectsWorks, Protected, Alive, Held
    <3>. QED
      BY <2>1, <2>2, <3>1
  <2>. QED
    BY <1>5, <2>4 DEF FInv, RemoveFinalizer, Return, Admitted, Emptied
<1>. QED
  BY <1>1, <1>2, <1>3, <1>4, <1>5 DEF Deleting

-----------------------------------------------------------------------------
\* The worker, failures and the environment.

\* A restart forgets what was done and nothing that protects.
LEMMA ControlProtects ==
  FInv /\ TInv' /\ (\/ CallFails \/ Restart \/ \E c \in CRs : Start(c)
                   \/ \E b \in todo : SkipDeletion(b)) => FInv'
<1>1. ASSUME FInv, TInv', CallFails \/ Restart PROVE FInv'
  <2>1. Kept /\ Return /\ unseen' = {}
    BY <1>1, HubKept DEF FInv, CallFails, Restart, Requeue, hub
  <2>. QED
    BY <1>1, <2>1, EndsKept
<1>2. ASSUME FInv, TInv', NEW c \in CRs, Start(c) PROVE FInv'
  <2>1. Kept /\ unseen' = {}
    BY <1>2, HubKept DEF FInv, Start, hub
  <2>2. Admitted' /\ Emptied'
    BY <1>2 DEF FInv, Start, Admitted, Emptied, Held, hub
  <2>. QED
    BY <1>2, <2>1, <2>2, KeptProtects DEF FInv
<1>3. ASSUME FInv, TInv', NEW b \in todo, SkipDeletion(b) PROVE FInv'
  <2>1. Kept
    BY <1>3, HubKept DEF SkipDeletion, hub
  <2>2. pc \in {"clean", "drop"} /\ pc' \in {"clean", "drop", "push", "check"}
    BY <1>3 DEF SkipDeletion, GoClean, GoPush
  <2>3. cur' = cur /\ unseen' = {}
    BY <1>3 DEF FInv, SkipDeletion, hub
  <2>. QED
    BY <1>3, <2>1, <2>2, <2>3, GoesOn
<1>. QED
  BY <1>1, <1>2, <1>3

\* Users cannot delete a manifest that holds the finalizer, and agents only
\* remove a ManifestWork that is being deleted.
LEMMA EnvironmentProtects ==
  FInv /\ TInv' /\ (Users \/ OCM \/ CacheSync \/ \E c \in CRs : TimerFires(c))
    => FInv'
<1>1. ASSUME FInv, Users PROVE Kept
  <2>1. works' = works
    BY <1>1 DEF Users, UserCreate, UserEdit, UserDelete
  <2>2. ASSUME NEW c \in CRs, NEW s \in Specs, UserCreate(c, s), NEW d \in CRs, Held(d)
        PROVE  Held(d)'
    BY <1>1, <2>2 DEF FInv, TInv, TypeOK, HubOK, UserCreate, Held
  <2>3. ASSUME NEW c \in CRs, NEW s \in Specs, UserEdit(c, s), NEW d \in CRs, Held(d)
        PROVE  Held(d)'
    <3>1. cr[c] \in CRRecords
      BY <1>1, <2>3 DEF FInv, TInv, TypeOK, HubOK, UserEdit
    <3>2. [cr[c] EXCEPT !.spec = s].fin = cr[c].fin
          /\ [cr[c] EXCEPT !.spec = s] \in CRRecords
      BY <3>1 DEF CRRecords
    <3>. QED
      BY <1>1, <2>3, <3>2, NilAssumption
      DEF FInv, TInv, TypeOK, HubOK, UserEdit, Held, NilAssumption
  <2>4. ASSUME NEW c \in CRs, UserDelete(c), NEW d \in CRs, Held(d)
        PROVE  Held(d)'
    <3>1. cr[c] \in CRRecords
      BY <1>1, <2>4 DEF FInv, TInv, TypeOK, HubOK, UserDelete
    <3>2. [cr[c] EXCEPT !.deleting = TRUE].fin = cr[c].fin
          /\ [cr[c] EXCEPT !.deleting = TRUE] \in CRRecords
      BY <3>1 DEF CRRecords
    <3>. QED
      BY <1>1, <2>4, <3>2, NilAssumption
      DEF FInv, TInv, TypeOK, HubOK, UserDelete, Held, NilAssumption
  <2>. QED
    BY <1>1, <2>1, <2>2, <2>3, <2>4 DEF Users, Kept, Alive
<1>2. ASSUME FInv, OCM PROVE Kept
  <2>1. cr' = cr
    BY <1>2 DEF OCM, OCMDecides, GarbageCollect, AgentReports, AgentFinalizes
  <2>2. ASSUME NEW k \in Keys, AgentReports(k), NEW j \in Keys, Alive(j)'
        PROVE  Alive(j) /\ works'[j].label = works[j].label
    BY <1>2, <2>2 DEF FInv, TInv, TypeOK, HubOK, AgentReports, Alive, WorkRecords
  <2>3. ASSUME NEW k \in Keys, AgentFinalizes(k), NEW j \in Keys, Alive(j)'
        PROVE  Alive(j) /\ works'[j].label = works[j].label
    BY <1>2, <2>3 DEF FInv, TInv, TypeOK, HubOK, AgentFinalizes, Alive
  <2>4. ASSUME NEW n, OCMDecides(n) \/ GarbageCollect(n) PROVE works' = works
    BY <2>4 DEF OCMDecides, GarbageCollect
  <2>. QED
    BY <1>2, <2>1, <2>2, <2>3, <2>4 DEF OCM, Kept, Held, Alive
<1>3. ASSUME FInv, CacheSync \/ \E c \in CRs : TimerFires(c) PROVE Kept
  BY <1>3, HubKept DEF CacheSync, TimerFires, hub
<1>4. ASSUME FInv, Users \/ OCM \/ CacheSync \/ \E c \in CRs : TimerFires(c)
      PROVE  unseen' = {} /\ UNCHANGED <<pc, cur, obj, todo>>
  BY <1>4 DEF FInv, Users, UserCreate, UserEdit, UserDelete, OCM, OCMDecides,
     GarbageCollect, AgentReports, AgentFinalizes, CacheSync, TimerFires, hub, locals
<1>. QED
  BY <1>1, <1>2, <1>3, <1>4, OutsideKept

-----------------------------------------------------------------------------
LEMMA FinalizerInit == Init => FInv
BY TypeInit DEF Init, FInv, Admitted, Emptied, FinalizerProtectsWorks

LEMMA FinalizerStep ==
  ASSUME CacheLag = FALSE
  PROVE  FInv /\ [Next]_vars => FInv'
<1>. SUFFICES ASSUME FInv, [Next]_vars PROVE FInv'
  OBVIOUS
<1>1. TInv'
  BY TypeStep DEF FInv
<1>2. CASE UNCHANGED vars
  BY <1>1, <1>2, HubKept, OutsideKept DEF FInv, vars, hub, locals
<1>3. CASE Reconcile
  BY <1>1, <1>3, AdmissionProtects, MiddleProtects, PushingProtects,
     DeletingProtects DEF Reconcile
<1>. QED
  BY <1>1, <1>2, <1>3, ControlProtects, EnvironmentProtects DEF Next

\* A manifest that goes does not leave a ManifestWork behind: whatever is
\* created for it is created after its finalizer is added, and the finalizer
\* is removed only when the deletion of all of it has begun.  Failed calls,
\* restarts, edits and names that collide do not break this.
THEOREM FinalizerCorrect ==
  ASSUME CacheLag = FALSE
  PROVE  Spec => []FinalizerProtectsWorks
<1>1. FInv => FinalizerProtectsWorks
  BY DEF FInv
<1>. QED
  BY <1>1, FinalizerInit, FinalizerStep, PTL DEF Spec

-----------------------------------------------------------------------------
\* The state Finalizing.

Dying(c)   == cr[c] # Nil /\ cr[c].deleting = TRUE
Closing(c) == cr[c] # Nil /\ cr[c].state = Finalizing

SchedulingSteps == {"analyse", "place", "settle", "announce", "clean", "drop",
                    "push", "check", "unlink", "link", "report"}
FinalizingSteps == {"finalize", "deleteWorks", "deleteLinks", "release"}

\* Only manifests that are deleted, and were admitted, are finalized.
ClosingIsDying == \A c \in CRs : Closing(c) => Dying(c) /\ c \in InNamespace

\* A copy that says the manifest is deleted is right for good, as nobody else
\* can remove the manifest; one that says it is not may be old.
CopyDying == pc \in {"mark", "admit"} /\ obj.deleting => Dying(cur)

\* Nothing is scheduled for a manifest whose finalization has begun.
NotClosing ==
  /\ pc \in SchedulingSteps \cup {"mark"} => ~Closing(cur)
  /\ pc = "admit" /\ ~obj.deleting => ~Closing(cur)
  /\ pc = "report" => verdict.state # Finalizing

FinalizesDying == pc \in FinalizingSteps => Dying(cur) /\ cur \in InNamespace

GInv == TInv /\ ClosingIsDying /\ CopyDying /\ NotClosing /\ FinalizesDying

\* What the property asks of a step.
StaysClosing ==
  \A c \in CRs : Closing(c) => cr'[c] = Nil \/ cr'[c].state = Finalizing

-----------------------------------------------------------------------------
\* Steps that begin no finalization and remove no manifest that is deleted.
Steady == \A c \in CRs : (Dying(c) => Dying(c)') /\ (Closing(c)' => Closing(c))

LEMMA EndsSteady ==
  ASSUME GInv, TInv', Steady, Return
  PROVE  GInv'
BY DEF GInv, ClosingIsDying, CopyDying, NotClosing, FinalizesDying, Steady,
   Return, SchedulingSteps, FinalizingSteps

LEMMA SchedulesOn ==
  ASSUME GInv, TInv', Steady, cur' = cur, pc \in SchedulingSteps,
         pc' \in SchedulingSteps, pc' = "report" => verdict'.state # Finalizing
  PROVE  GInv'
<1>1. cur \in CRs /\ ~Closing(cur)
  BY DEF GInv, TInv, Working, NotClosing, SchedulingSteps
<1>2. ~Closing(cur)'
  BY <1>1 DEF Steady, Closing
<1>. QED
  BY <1>2 DEF GInv, ClosingIsDying, CopyDying, NotClosing, FinalizesDying,
     Steady, SchedulingSteps, FinalizingSteps, Closing, Dying

LEMMA FinalizesOn ==
  ASSUME GInv, TInv', Steady, cur' = cur, pc \in FinalizingSteps,
         pc' \in FinalizingSteps
  PROVE  GInv'
<1>1. cur \in CRs /\ Dying(cur) /\ cur \in InNamespace
  BY DEF GInv, TInv, Working, FinalizesDying, FinalizingSteps
<1>2. Dying(cur)'
  BY <1>1 DEF Steady, Dying
<1>. QED
  BY <1>1, <1>2 DEF GInv, ClosingIsDying, CopyDying, NotClosing, FinalizesDying,
     Steady, SchedulingSteps, FinalizingSteps, Closing, Dying

\* A step that leaves the reconciliation alone.
LEMMA OutsideSteady ==
  ASSUME GInv, TInv', Steady, UNCHANGED <<pc, cur, obj, verdict>>
  PROVE  GInv'
<1>1. CASE pc = "idle"
  BY <1>1 DEF GInv, ClosingIsDying, CopyDying, NotClosing, FinalizesDying,
     Steady, SchedulingSteps, FinalizingSteps
<1>2. CASE pc # "idle"
  <2>1. cur \in CRs
    BY <1>2 DEF GInv, TInv, Working
  <2>2. (Dying(cur) => Dying(cur)') /\ (Closing(cur)' => Closing(cur))
    BY <2>1 DEF Steady, Dying, Closing
  <2>. QED
    BY <2>2 DEF GInv, ClosingIsDying, CopyDying, NotClosing, FinalizesDying,
       Steady, Closing, Dying
<1>. QED
  BY <1>1, <1>2

LEMMA HubSteady ==
  ASSUME cr' = cr
  PROVE  Steady /\ StaysClosing
BY DEF Steady, StaysClosing, Dying, Closing

-----------------------------------------------------------------------------
\* Writing a status.

LEMMA StatusWritten ==
  ASSUME TInv, cur \in CRs, NEW st \in States, NEW ds \in SUBSET Decisions,
         UpdateStatus(st, ds)
  PROVE  /\ cr[cur] # Nil /\ cr'[cur] # Nil
         /\ cr'[cur].state = st /\ cr'[cur].deleting = cr[cur].deleting
         /\ \A c \in CRs \ {cur} : cr'[c] = cr[c]
<1>1. cr[cur] \in CRRecords /\ cr \in [CRs -> CRRecords \cup {Nil}]
  BY DEF TInv, TypeOK, HubOK, UpdateStatus
<1>. DEFINE r == [cr[cur] EXCEPT !.state = st, !.decisions = ds]
<1>2. r \in CRRecords /\ r.state = st /\ r.deleting = cr[cur].deleting
  BY <1>1 DEF CRRecords
<1>3. cr' = [cr EXCEPT ![cur] = r]
  BY <1>1 DEF UpdateStatus
<1>. QED
  BY <1>1, <1>2, <1>3, NilAssumption DEF UpdateStatus, NilAssumption

\* A state other than Finalizing, written for a manifest that is not closing.
LEMMA StatusSteady ==
  ASSUME TInv, cur \in CRs, NEW st \in States, NEW ds \in SUBSET Decisions,
         UpdateStatus(st, ds), st # Finalizing, ~Closing(cur)
  PROVE  Steady /\ StaysClosing
BY StatusWritten DEF Steady, StaysClosing, Dying, Closing

-----------------------------------------------------------------------------
\* The reconciliation, stage by stage: each step keeps the invariant and does
\* what the property asks.

LEMMA AdmissionSteady == GInv /\ TInv' /\ Admission => GInv' /\ StaysClosing
<1>1. ASSUME GInv, TInv', MarkInProgress PROVE GInv' /\ StaysClosing
  <2>1. /\ cur \in CRs /\ InProgress \in States /\ {} \in SUBSET Decisions
        /\ UpdateStatus(InProgress, {}) /\ ~Closing(cur) /\ TInv
    BY <1>1, StatesAreStates DEF GInv, TInv, MarkInProgress, Working, NotClosing
  <2>2. Steady /\ StaysClosing
    BY <2>1, StatusSteady DEF InProgress, Finalizing
  <2>3. cr'[cur] # Nil /\ cr'[cur].state = InProgress
    BY <2>1, StatusWritten
  <2>4. pc' = "admit" /\ cur' = cur /\ obj' = cr'[cur]
    BY <1>1 DEF MarkInProgress
  <2>5. obj' \in CRRecords
    BY <2>4, TInv' DEF TInv, Working
  <2>6. CopyDying' /\ NotClosing' /\ FinalizesDying'
    BY <2>3, <2>4, <2>5 DEF CopyDying, NotClosing, FinalizesDying, Closing, Dying,
       SchedulingSteps, FinalizingSteps, InProgress, Finalizing, CRRecords
  <2>7. ClosingIsDying'
    BY <1>1, <2>2 DEF GInv, ClosingIsDying, Steady
  <2>. QED
    BY <1>1, <2>2, <2>6, <2>7 DEF GInv
<1>2. ASSUME GInv, TInv', RejectNamespace PROVE GInv' /\ StaysClosing
  <2>1. /\ cur \in CRs /\ Misconfigured \in States /\ {} \in SUBSET Decisions
        /\ UpdateStatus(Misconfigured, {}) /\ TInv
    BY <1>2, StatesAreStates DEF GInv, TInv, RejectNamespace, Working
  <2>2. ~Closing(cur)
    BY <1>2, <2>1 DEF GInv, ClosingIsDying, RejectNamespace
  <2>3. Steady /\ StaysClosing
    BY <2>1, <2>2, StatusSteady DEF Misconfigured, Finalizing
  <2>. QED
    BY <1>2, <2>3, EndsSteady DEF RejectNamespace
<1>3. ASSUME GInv, TInv', EnsureFinalizer PROVE GInv' /\ StaysClosing
  <2>1. cur \in CRs /\ cur \in InNamespace /\ pc = "admit" /\ cur' = cur
    BY <1>3 DEF GInv, TInv, Working, EnsureFinalizer
  <2>2. pc' = IF obj'.deleting THEN "finalize" ELSE "analyse"
    BY <1>3 DEF EnsureFinalizer, AfterAdmission
  <2>3. /\ Steady /\ StaysClosing
        /\ obj'.deleting => Dying(cur)'
        /\ ~obj'.deleting => ~Closing(cur)'
    <3>1. CASE obj.fin
      <4>1. cr' = cr /\ obj' = obj
        BY <1>3, <3>1 DEF EnsureFinalizer
      <4>. QED
        BY <1>3, <2>1, <4>1, HubSteady DEF GInv, CopyDying, NotClosing, Dying, Closing
    <3>2. CASE ~obj.fin
      <4>1. cr[cur] \in CRRecords /\ cr \in [CRs -> CRRecords \cup {Nil}]
        BY <1>3, <2>1, <3>2 DEF GInv, TInv, TypeOK, HubOK, EnsureFinalizer
      <4>. DEFINE r == [cr[cur] EXCEPT !.fin = TRUE]
      <4>2. /\ r \in CRRecords /\ r.state = cr[cur].state
            /\ r.deleting = cr[cur].deleting
        BY <4>1 DEF CRRecords
      <4>3. cr' = [cr EXCEPT ![cur] = r] /\ obj' = cr'[cur] /\ cr[cur] # Nil
        BY <1>3, <3>2 DEF EnsureFinalizer
      <4>4. obj' = r /\ cr'[cur] = r /\ r # Nil
        BY <2>1, <4>1, <4>2, <4>3, NilAssumption DEF NilAssumption
      <4>5. \A c \in CRs \ {cur} : cr'[c] = cr[c]
        BY <4>1, <4>3
      <4>6. Steady /\ StaysClosing
        BY <2>1, <4>2, <4>3, <4>4, <4>5 DEF Steady, StaysClosing, Dying, Closing
      <4>7. r.deleting \in BOOLEAN
        BY <4>2 DEF CRRecords
      <4>8. obj'.deleting => Dying(cur)'
        BY <2>1, <4>4, <4>7 DEF Dying
      <4>9. ~obj'.deleting => ~Closing(cur)'
        BY <1>3, <2>1, <4>2, <4>3, <4>4 DEF GInv, ClosingIsDying, Closing, Dying
      <4>. QED
        BY <4>6, <4>8, <4>9
    <3>. QED
      BY <3>1, <3>2
  <2>4. CopyDying' /\ NotClosing' /\ FinalizesDying'
    BY <2>1, <2>2, <2>3 DEF CopyDying, NotClosing, FinalizesDying,
       SchedulingSteps, FinalizingSteps, Dying, Closing
  <2>5. ClosingIsDying'
    BY <1>3, <2>3 DEF GInv, ClosingIsDying, Steady
  <2>. QED
    BY <1>3, <2>3, <2>4, <2>5 DEF GInv
<1>4. ASSUME GInv, TInv', ObjectGone PROVE GInv' /\ StaysClosing
  BY <1>4, HubSteady, EndsSteady DEF ObjectGone, Requeue, hub
<1>. QED
  BY <1>1, <1>2, <1>3, <1>4 DEF Admission

\* A reconciliation that schedules writes no state over Finalizing, and does
\* not write Finalizing itself.
LEMMA SchedulingSteady ==
  GInv /\ TInv' /\ (Validation \/ Placing \/ Cleaning \/ Pushing \/ Concluding)
    => GInv' /\ StaysClosing
<1>1. ASSUME GInv, TInv', AnnounceDecisions PROVE GInv' /\ StaysClosing
  <2>1. /\ cur \in CRs /\ InProgress \in States /\ TInv /\ ~Closing(cur)
        /\ DecisionsOf(bundles) \in SUBSET Decisions
        /\ UpdateStatus(InProgress, DecisionsOf(bundles))
    BY <1>1, StatesAreStates, DecisionsTyped
    DEF GInv, TInv, TypeOK, AnnounceDecisions, Working, LocalsOK, PlacedSoFar,
        NotClosing, SchedulingSteps
  <2>2. Steady /\ StaysClosing
    BY <2>1, StatusSteady DEF InProgress, Finalizing
  <2>3. pc = "announce" /\ pc' \in {"clean", "push", "check"} /\ cur' = cur
    BY <1>1 DEF AnnounceDecisions, GoClean, GoPush
  <2>. QED
    BY <1>1, <2>2, <2>3, SchedulesOn DEF SchedulingSteps
<1>2. ASSUME GInv, TInv', ReportStatus PROVE GInv' /\ StaysClosing
  <2>1. /\ cur \in CRs /\ verdict.state \in States /\ TInv /\ ~Closing(cur)
        /\ verdict.decisions \in SUBSET Decisions /\ verdict.state # Finalizing
        /\ UpdateStatus(verdict.state, verdict.decisions)
    BY <1>2 DEF GInv, TInv, ReportStatus, Working, VerdictReady, Verdicts,
       NotClosing, SchedulingSteps
  <2>2. Steady /\ StaysClosing
    BY <2>1, StatusSteady
  <2>. QED
    BY <1>2, <2>2, EndsSteady DEF ReportStatus
<1>3. ASSUME GInv, TInv', Return, cr' = cr PROVE GInv' /\ StaysClosing
  BY <1>3, HubSteady, EndsSteady
<1>4. ASSUME GInv, TInv', cr' = cr, cur' = cur, pc \in SchedulingSteps,
             pc' \in SchedulingSteps \ {"report"}
      PROVE  GInv' /\ StaysClosing
  BY <1>4, HubSteady, SchedulesOn
<1>5. ASSUME GInv, TInv', cr' = cr, cur' = cur, pc \in SchedulingSteps,
             NEW st \in Terminal, NEW ds, NEW save, Report(st, ds, save)
      PROVE  GInv' /\ StaysClosing
  <2>1. verdict'.state # Finalizing /\ pc' = "report"
    BY <1>5 DEF Report, Terminal, Delivered, Successful, Unreliable, Tentative,
       Failed, Misconfigured, Finalizing
  <2>. QED
    BY <1>5, <2>1, HubSteady, SchedulesOn DEF SchedulingSteps
<1>6. Failed \in Terminal /\ Misconfigured \in Terminal
  BY DEF Terminal
<1>7. ASSUME GInv, TInv', Validation PROVE GInv' /\ StaysClosing
  <2>1. ASSUME Refuse PROVE GInv' /\ StaysClosing
    BY <1>5, <1>6, <1>7, <2>1 DEF Refuse, hub, SchedulingSteps
  <2>2. ASSUME AnalysisFails PROVE GInv' /\ StaysClosing
    BY <1>3, <1>7, <2>2 DEF AnalysisFails, Requeue, hub
  <2>3. ASSUME BundleForTarget \/ BundleForPlacement PROVE GInv' /\ StaysClosing
    <3>1. cr' = cr /\ cur' = cur /\ pc = "analyse"
      BY <2>3 DEF BundleForTarget, BundleForPlacement, hub
    <3>2. pc' \in {"clean", "push", "check", "announce", "place"}
      BY <2>3 DEF BundleForTarget, BundleForPlacement, GoClean, GoPush, GoPlace
    <3>. QED
      BY <1>4, <1>7, <3>1, <3>2 DEF SchedulingSteps
  <2>. QED
    BY <1>7, <2>1, <2>2, <2>3 DEF Validation
<1>8. ASSUME GInv, TInv', Placing, ~AnnounceDecisions PROVE GInv' /\ StaysClosing
  <2>1. ASSUME PlacementGone \/ DecisionPending \/ \E b \in todo : CreatePlacement(b)
        PROVE  GInv' /\ StaysClosing
    BY <1>3, <1>8, <2>1 DEF PlacementGone, DecisionPending, CreatePlacement, Requeue, hub
  <2>2. ASSUME PlacementUnsatisfied PROVE GInv' /\ StaysClosing
    BY <1>5, <1>6, <1>8, <2>2 DEF PlacementUnsatisfied, hub, SchedulingSteps
  <2>3. ASSUME PlacementSatisfied \/ \E b \in todo : UpdatePlacement(b)
        PROVE  GInv' /\ StaysClosing
    <3>1. cr' = cr /\ cur' = cur /\ pc \in {"settle", "place"}
      BY <2>3 DEF PlacementSatisfied, UpdatePlacement, hub
    <3>2. pc' \in {"announce", "place", "settle"}
      BY <2>3 DEF PlacementSatisfied, UpdatePlacement, GoPlace
    <3>. QED
      BY <1>4, <1>8, <3>1, <3>2 DEF SchedulingSteps
  <2>. QED
    BY <1>8, <2>1, <2>2, <2>3 DEF Placing
<1>9. ASSUME GInv, TInv', Cleaning PROVE GInv' /\ StaysClosing
  <2>1. cr' = cr /\ cur' = cur /\ pc \in {"clean", "drop"}
    BY <1>9 DEF Cleaning, DropWork, MoveBundle, DropPlacement
  <2>2. pc' \in {"clean", "drop", "push", "check"}
    BY <1>9 DEF Cleaning, DropWork, MoveBundle, DropPlacement, GoClean, GoPush
  <2>. QED
    BY <1>4, <1>9, <2>1, <2>2 DEF SchedulingSteps
<1>10. ASSUME GInv, TInv', Pushing PROVE GInv' /\ StaysClosing
  <2>1. ASSUME WorksNotReady \/ \E b \in todo : WorkAlreadyExists(b)
        PROVE  GInv' /\ StaysClosing
    BY <1>3, <1>10, <2>1 DEF WorksNotReady, WorkAlreadyExists, Requeue, hub
  <2>2. ASSUME WorksFailed PROVE GInv' /\ StaysClosing
    BY <1>5, <1>6, <1>10, <2>2 DEF WorksFailed, hub, SchedulingSteps
  <2>3. ASSUME WorksApplied \/ \E b \in todo : CreateWork(b) \/ UpdateWork(b)
        PROVE  GInv' /\ StaysClosing
    <3>1. /\ cr' = cr /\ cur' = cur /\ pc \in {"push", "check"}
          /\ pc' \in {"push", "check", "unlink"}
      BY <2>3 DEF WorksApplied, CreateWork, UpdateWork, GoPush, hub
    <3>. QED
      BY <1>4, <1>10, <3>1 DEF SchedulingSteps
  <2>. QED
    BY <1>10, <2>1, <2>2, <2>3 DEF Pushing
<1>11. ASSUME GInv, TInv', RemoveOldLinks PROVE GInv' /\ StaysClosing
  BY <1>4, <1>11 DEF RemoveOldLinks, SchedulingSteps
<1>12. ASSUME GInv, TInv', RegisterLinks PROVE GInv' /\ StaysClosing
  <2>1. FinalState(obj.spec, bundles) \in Terminal
    BY DEF FinalState, Terminal, Delivered
  <2>. QED
    BY <1>5, <1>12, <2>1 DEF RegisterLinks, SchedulingSteps
<1>. QED
  BY <1>1, <1>2, <1>7, <1>8, <1>9, <1>10, <1>11, <1>12 DEF Concluding

\* A finalization is of a manifest that is deleted, and is over when it goes.
LEMMA DeletingSteady == GInv /\ TInv' /\ Deleting => GInv' /\ StaysClosing
<1>1. ASSUME GInv, TInv', BeginFinalizing PROVE GInv' /\ StaysClosing
  <2>1. /\ cur \in CRs /\ Finalizing \in States /\ {} \in SUBSET Decisions
        /\ UpdateStatus(Finalizing, {}) /\ TInv
        /\ Dying(cur) /\ cur \in InNamespace
    BY <1>1, StatesAreStates
    DEF GInv, TInv, BeginFinalizing, Working, FinalizesDying, FinalizingSteps
  <2>2. /\ cr'[cur] # Nil /\ cr'[cur].state = Finalizing
        /\ cr'[cur].deleting = cr[cur].deleting
        /\ \A c \in CRs \ {cur} : cr'[c] = cr[c]
    BY <2>1, StatusWritten
  <2>3. cur' = cur /\ pc' \in FinalizingSteps
    BY <1>1 DEF BeginFinalizing, FinalizingSteps
  <2>4. Dying(cur)'
    BY <2>1, <2>2, <2>3 DEF Dying
  <2>5. ClosingIsDying' /\ StaysClosing
    BY <1>1, <2>1, <2>2, <2>4, <2>3 DEF GInv, ClosingIsDying, StaysClosing, Closing, Dying
  <2>6. CopyDying' /\ NotClosing' /\ FinalizesDying'
    BY <2>1, <2>3, <2>4 DEF CopyDying, NotClosing, FinalizesDying,
       SchedulingSteps, FinalizingSteps
  <2>. QED
    BY <1>1, <2>5, <2>6 DEF GInv
<1>2. ASSUME GInv, TInv', DeleteLinks \/ \E k \in todo : DeleteOwnedWork(k)
      PROVE  GInv' /\ StaysClosing
  <2>1. /\ cr' = cr /\ cur' = cur
        /\ pc \in FinalizingSteps /\ pc' \in FinalizingSteps
    BY <1>2 DEF DeleteLinks, DeleteOwnedWork, FinalizingSteps
  <2>. QED
    BY <1>2, <2>1, HubSteady, FinalizesOn
<1>3. ASSUME GInv, TInv', NEW k, WorkGone(k) PROVE GInv' /\ StaysClosing
  BY <1>3, HubSteady, EndsSteady DEF WorkGone, Requeue, hub
<1>4. ASSUME GInv, TInv', RemoveFinalizer PROVE GInv' /\ StaysClosing
  <2>1. /\ cur \in CRs /\ cr'[cur] = Nil
        /\ \A c \in CRs \ {cur} : cr'[c] = cr[c]
    BY <1>4 DEF GInv, TInv, TypeOK, HubOK, Working, RemoveFinalizer
  <2>2. ClosingIsDying' /\ StaysClosing
    BY <1>4, <2>1 DEF GInv, ClosingIsDying, StaysClosing, Closing, Dying
  <2>. QED
    BY <1>4, <2>2 DEF GInv, RemoveFinalizer, Return, CopyDying, NotClosing,
       FinalizesDying, SchedulingSteps, FinalizingSteps
<1>. QED
  BY <1>1, <1>2, <1>3, <1>4 DEF Deleting

-----------------------------------------------------------------------------
\* The worker, failures and the environment.

LEMMA ControlSteady ==
  GInv /\ TInv' /\ (\/ CallFails \/ Restart \/ \E c \in CRs : Start(c)
                   \/ \E b \in todo : SkipDeletion(b))
    => GInv' /\ StaysClosing
<1>1. ASSUME GInv, TInv', CallFails \/ Restart PROVE GInv' /\ StaysClosing
  BY <1>1, HubSteady, EndsSteady DEF CallFails, Restart, Requeue, hub
<1>2. ASSUME GInv, TInv', NEW c \in CRs, Start(c) PROVE GInv' /\ StaysClosing
  <2>1. cr' = cr /\ Steady /\ StaysClosing
    BY <1>2, HubSteady DEF Start, hub
  <2>2. CASE cr[c] = Nil
    BY <1>2, <2>1, <2>2, OutsideSteady DEF Start
  <2>3. CASE cr[c] # Nil
    <3>1. /\ cur' = c /\ obj' = cr[c] /\ cr[c] \in CRRecords
          /\ pc' = IF NeedsProgressMark(cr[c]) THEN "mark" ELSE "admit"
      BY <1>2, <2>3 DEF Start, GInv, TInv, TypeOK, HubOK
    <3>2. cr[c].deleting => Dying(c)
      BY <2>3, <3>1 DEF Dying, CRRecords
    <3>3. ~cr[c].deleting \/ NeedsProgressMark(cr[c]) => ~Closing(c)
      BY <1>2, <3>1 DEF GInv, ClosingIsDying, NeedsProgressMark, Closing, Dying,
         NoState, Finalizing
    <3>4. CopyDying' /\ NotClosing' /\ FinalizesDying'
      BY <2>1, <3>1, <3>2, <3>3 DEF CopyDying, NotClosing, FinalizesDying,
         SchedulingSteps, FinalizingSteps, Dying, Closing
    <3>. QED
      BY <1>2, <2>1, <3>4 DEF GInv, ClosingIsDying, Steady
  <2>. QED
    BY <2>2, <2>3
<1>3. ASSUME GInv, TInv', NEW b \in todo, SkipDeletion(b) PROVE GInv' /\ StaysClosing
  <2>1. /\ cr' = cr /\ cur' = cur /\ pc \in {"clean", "drop"}
        /\ pc' \in {"clean", "drop", "push", "check"}
    BY <1>3 DEF SkipDeletion, GoClean, GoPush, hub
  <2>. QED
    BY <1>3, <2>1, HubSteady, SchedulesOn DEF SchedulingSteps
<1>. QED
  BY <1>1, <1>2, <1>3

\* Users can neither edit nor remove a manifest that is deleted.
LEMMA UsersSteady == GInv /\ Users => Steady /\ StaysClosing
<1>1. ASSUME GInv, NEW c \in CRs, NEW s \in Specs, UserCreate(c, s)
      PROVE  Steady /\ StaysClosing
  BY <1>1 DEF GInv, TInv, TypeOK, HubOK, UserCreate, Steady, StaysClosing, Dying,
     Closing, NoState, Finalizing
<1>2. ASSUME GInv, NEW c \in CRs, NEW s, UserEdit(c, s) \/ UserDelete(c)
      PROVE  Steady /\ StaysClosing
  <2>1. cr[c] \in CRRecords /\ cr \in [CRs -> CRRecords \cup {Nil}] /\ ~Dying(c)
    BY <1>2 DEF GInv, TInv, TypeOK, HubOK, UserEdit, UserDelete, Dying
  <2>2. ~Closing(c)
    BY <1>2, <2>1 DEF GInv, ClosingIsDying
  <2>3. /\ [cr[c] EXCEPT !.spec = s].state = cr[c].state
        /\ [cr[c] EXCEPT !.deleting = TRUE].state = cr[c].state
    BY <2>1 DEF CRRecords
  <2>4. cr'[c] = Nil \/ cr'[c].state = cr[c].state
    BY <1>2, <2>1, <2>3 DEF UserEdit, UserDelete
  <2>5. \A d \in CRs \ {c} : cr'[d] = cr[d]
    BY <1>2, <2>1 DEF UserEdit, UserDelete
  <2>6. cr[c] # Nil
    BY <1>2 DEF UserEdit, UserDelete
  <2>. QED
    BY <2>1, <2>2, <2>4, <2>5, <2>6 DEF Steady, StaysClosing, Dying, Closing
<1>. QED
  BY <1>1, <1>2 DEF Users

LEMMA EnvironmentSteady ==
  GInv /\ TInv' /\ (Users \/ OCM \/ CacheSync \/ \E c \in CRs : TimerFires(c))
    => GInv' /\ StaysClosing
<1>1. ASSUME OCM \/ CacheSync \/ \E c \in CRs : TimerFires(c) PROVE cr' = cr
  BY <1>1 DEF OCM, OCMDecides, GarbageCollect, AgentReports, AgentFinalizes,
     CacheSync, TimerFires, hub
<1>2. ASSUME Users \/ OCM \/ CacheSync \/ \E c \in CRs : TimerFires(c)
      PROVE  UNCHANGED <<pc, cur, obj, verdict>>
  BY <1>2 DEF Users, UserCreate, UserEdit, UserDelete, OCM, OCMDecides,
     GarbageCollect, AgentReports, AgentFinalizes, CacheSync, TimerFires, locals
<1>. QED
  BY <1>1, <1>2, UsersSteady, HubSteady, OutsideSteady

-----------------------------------------------------------------------------
LEMMA FinalizingInit == Init => GInv
BY TypeInit DEF Init, GInv, ClosingIsDying, CopyDying, NotClosing,
   FinalizesDying, Closing, SchedulingSteps, FinalizingSteps

LEMMA FinalizingStep == GInv /\ [Next]_vars => GInv' /\ StaysClosing
<1>. SUFFICES ASSUME GInv, [Next]_vars PROVE GInv' /\ StaysClosing
  OBVIOUS
<1>1. TInv'
  BY TypeStep DEF GInv
<1>2. CASE UNCHANGED vars
  BY <1>1, <1>2, HubSteady, OutsideSteady DEF vars, hub, locals
<1>3. CASE Reconcile
  BY <1>1, <1>3, AdmissionSteady, SchedulingSteady, DeletingSteady DEF Reconcile
<1>. QED
  BY <1>1, <1>2, <1>3, ControlSteady, EnvironmentSteady DEF Next

\* A manifest that began to be finalized shows no other state until it is
\* gone: no reconciliation that was under way when it was deleted, failed call,
\* restart or user brings it back.
THEOREM FinalizingCorrect == Spec => FinalizingIsFinal
<1>1. GInv /\ [Next]_vars => GInv'
  BY FinalizingStep
<1>2. GInv /\ [Next]_vars =>
        [\A c \in CRs : cr[c] # Nil /\ cr[c].state = Finalizing
           => cr'[c] = Nil \/ cr'[c].state = Finalizing]_vars
  BY FinalizingStep DEF StaysClosing, Closing
<1>. QED
  BY <1>1, <1>2, FinalizingInit, PTL DEF Spec, FinalizingIsFinal
=============================================================================
