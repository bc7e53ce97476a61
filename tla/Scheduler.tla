------------------------------ MODULE Scheduler ------------------------------
(***************************************************************************)
(* The reconcile loop of the P2CodeSchedulingManifest controller and the   *)
(* hub cluster it works on.                                                *)
(*                                                                         *)
(* A single worker takes one manifest (the custom resource, "CR" below)    *)
(* off the work queue at a time and runs Reconcile on it.  Reconcile is    *)
(* modelled as one action for each call it makes to the API server, so     *)
(* that users, Open Cluster Management (OCM) and a crash can come between  *)
(* any two calls; what the code computes between two calls is part of the  *)
(* action of the call before or after.  A call may also fail, which ends   *)
(* the reconciliation with an error and brings the CR back to the queue.   *)
(*                                                                         *)
(* The Kubernetes API server, the placement controller and the work agents *)
(* of OCM, the garbage collector and the users are the environment; they   *)
(* are modelled only as far as the controller can see them.                *)
(*                                                                         *)
(* A definition Wrong_X is X with a mistake in it.  Nothing uses it: put   *)
(* in the place of X it makes a property of SchedulerProperties fail,      *)
(* which is how the properties are known to say something of the code.     *)
(***************************************************************************)
EXTENDS Naming, FiniteSets

CONSTANTS
  CRs,            \* names of the manifests users may create
  InNamespace,    \* those in the p2code-scheduler-system namespace
  Specs,          \* the specs users may give them
  Clusters,       \* managed clusters; a cluster is a token of a name too
  Members,        \* function: existing cluster set -> its clusters
  BoundSets,      \* cluster sets bound to the scheduler's namespace
  Claims,         \* function: cluster -> the placement rules it satisfies
  Installed,      \* is the MultiClusterNetwork resource installed?
  AgentOutcomes,  \* what a work agent may report: TRUE applied, FALSE not
  PromptOCM,      \* OCM decides within the 15 seconds the code waits
  CacheLag,       \* the client's cache may miss a ManifestWork just created
  MaxUserOps,     \* bound: how often users create, edit or delete
  MaxFaults,      \* bound: how many calls fail or processes crash
  Nil,            \* no object, no value, no cluster
  Unsatisfied     \* a decided placement without a cluster

VARIABLES
  \* objects in the hub cluster
  cr,             \* the manifests, Nil when there is none
  placements,     \* Placements of the scheduler's namespace, by name
  works,          \* ManifestWorks, by name and managed cluster
  unseen,         \* ManifestWorks created and not yet in the client's cache
  links,          \* links of the one MultiClusterNetwork, per service
  \* the controller's work queue
  queue,          \* CRs to reconcile
  delayed,        \* CRs to be queued when a requeue or back-off timer ends
  \* the reconciler, lost when it restarts
  memory,         \* r.Bundles: the bundles last scheduled, per CR
  pc,             \* the next call of the reconciliation in progress
  cur,            \* its CR
  obj,            \* its copy of the CR
  bundles,        \* its bundles
  todo,           \* what its current loop has still to visit
  turn,           \* the bundle it is in the middle of
  verdict,        \* the status it is about to report
  \* bounds
  userOps,
  faults

hub     == <<cr, placements, works, unseen, links>>
queues  == <<queue, delayed>>
locals  == <<cur, obj, bundles, todo, turn, verdict>>
budgets == <<userOps, faults>>
vars    == <<hub, queues, memory, pc, locals, budgets>>

-----------------------------------------------------------------------------
\* States of a manifest, status.go.
InProgress    == "SchedulingInProgress"
Successful    == "SchedulingSuccessful"
Unreliable    == "ScheduledWithUnreliableConnectivity"
Tentative     == "TentativelyScheduled"
Failed        == "SchedulingFailed"
Finalizing    == "Finalizing"
Misconfigured == "Misconfigured"

Delivered == {Successful, Unreliable, Tentative}
Terminal  == Delivered \cup {Failed, Misconfigured}
NoState   == ""
States    == Terminal \cup {NoState, InProgress, Finalizing}

\* A spec is [set, cluster, rules, annotated, workloads, manifests, fault]:
\* its target annotations, its global filter rules, whether it has workload
\* annotations, its workloads in order, the manifests in it, and the fault
\* in it that stops the scheduler.  A workload is [name, rules, res, absent,
\* needs]: what the analysis of its manifest yields.
SetNames == DOMAIN Members \cup {s.set : s \in Specs}
Faults   == {"none", "unsupportedAnnotation", "targetWithoutValue",
             "invalidManifest", "unparsedManifest", "filterWithoutValue",
             "invalidWorkloadAnnotation", "analysisError"}

DefaultName == <<"default">>
GlobalName  == <<"global">>

Workloads(s) == {s.workloads[i] : i \in DOMAIN s.workloads}
BundleNames  == CRs \cup {DefaultName, GlobalName}
                    \cup UNION {{w.name : w \in Workloads(s)} : s \in Specs}
Prefixes     == BundleNames \cup {<<c>> : c \in Clusters}
ResourceNames == {ResourceName(p, c) : p \in Prefixes, c \in CRs}
Keys         == ResourceNames \X Clusters

Rules     == UNION ({s.rules : s \in Specs}
                \cup {w.rules : w \in UNION {Workloads(s) : s \in Specs}})
Manifests == UNION ({s.manifests : s \in Specs}
                \cup {w.res : w \in UNION {Workloads(s) : s \in Specs}})
Services  == UNION {w.needs : w \in UNION {Workloads(s) : s \in Specs}}
Decisions == BundleNames \X Clusters

CRRecords ==
  [deleting : BOOLEAN, fin : BOOLEAN, spec : Specs,
   state : States, decisions : SUBSET Decisions]
PlacementRecords ==
  [owner : CRs, set : SetNames, rules : SUBSET Rules,
   decision : Clusters \cup {Nil, Unsatisfied}, orphaned : BOOLEAN]
Reports ==
  [res : SUBSET Manifests, ok : BOOLEAN]
WorkRecords ==
  [label : {OwnerLabel(c) : c \in CRs}, res : SUBSET Manifests,
   terminating : BOOLEAN, report : Reports \cup {Nil}]
Links ==
  [svc : Services, src : Clusters, tgt : Clusters]
Bundles ==
  [name : BundleNames, resourceName : ResourceNames, rules : SUBSET Rules,
   res : SUBSET Manifests, absent : BOOLEAN, needs : SUBSET Services,
   cluster : Clusters \cup {Nil}]
Verdicts ==
  [state : States, decisions : SUBSET Decisions, save : BOOLEAN]
Steps == {"idle", "mark", "admit", "analyse", "place", "settle", "announce",
          "clean", "drop", "push", "check", "unlink", "link", "report",
          "finalize", "deleteWorks", "deleteLinks", "release"}

ASSUME SchedulerAssumption ==
  /\ InNamespace \subseteq CRs
  /\ DOMAIN Claims = Clusters
  /\ \A s \in DOMAIN Members : Members[s] \subseteq Clusters
  /\ {Installed, PromptOCM, CacheLag} \subseteq BOOLEAN
  /\ AgentOutcomes \subseteq BOOLEAN
  /\ MaxUserOps \in Nat /\ MaxFaults \in Nat
  /\ \A s \in Specs : /\ s.fault \in Faults
                      /\ Len(s.workloads) \in Nat
                      /\ DOMAIN s.workloads = 1..Len(s.workloads)
                      /\ \A w \in Workloads(s) : w.absent \in BOOLEAN

\* Nil is no object and no place of one, and neither it nor Unsatisfied is a
\* cluster.
ASSUME NilAssumption ==
  /\ Nil \notin CRRecords
  /\ Nil \notin WorkRecords
  /\ Nil \notin PlacementRecords
  /\ {Nil, Unsatisfied} \cap Clusters = {}
  /\ Nil \notin CRs
  /\ Nil \notin Keys

-----------------------------------------------------------------------------
\* What a spec asks for.

\* What is wrong with it, in the order of the code's checks.  A spec is
\* refused, or an error or a panic that the manager recovers has it tried again.
TargetPanics(s) == s.fault = "targetWithoutValue"

BadAnnotations(s) ==
  \/ s.fault = "unsupportedAnnotation"
  \/ s.set = Nil /\ ~TargetPanics(s)

BadTarget(s) ==
  \/ s.set \notin DOMAIN Members
  \/ Members[s.set] = {}
  \/ s.set \notin BoundSets
  \/ s.cluster # Nil /\ s.cluster \notin Members[s.set]

PerWorkload(s) == s.cluster = Nil /\ s.annotated

BadManifests(s) ==
  \/ s.fault = "invalidManifest"
  \/ s.fault = "invalidWorkloadAnnotation" /\ PerWorkload(s)

\* With a target cluster only the parsing of the manifests is left to fail;
\* a bundle gets its name when its workload has been analysed.
BadAnalysis(c, s) ==
  \/ s.fault = "unparsedManifest"
  \/ s.fault = "filterWithoutValue" /\ s.cluster = Nil
  \/ /\ PerWorkload(s)
     /\ \/ s.fault = "analysisError"
        \/ \E w \in Workloads(s) : ResourceName(w.name, c) = Panic

Accepted(s) ==
  ~TargetPanics(s) /\ ~BadAnnotations(s) /\ ~BadTarget(s) /\ ~BadManifests(s)

\* Every attempt to schedule the spec ends with an error or a panic.
TriedAgain(c, s) == TargetPanics(s) \/ (Accepted(s) /\ BadAnalysis(c, s))

\* A bundle of all the manifests, for a single cluster; the rules are not
\* looked at when the user says which.
WholeBundle(name, prefix, c, s, where) ==
  [name |-> name, resourceName |-> ResourceName(prefix, c),
   rules |-> IF where = Nil THEN s.rules ELSE {}, res |-> s.manifests,
   absent |-> FALSE, needs |-> {}, cluster |-> where]

\* A bundle for one workload and the manifests it depends on.
WorkloadBundle(w, c, s) ==
  [name |-> w.name, resourceName |-> ResourceName(w.name, c),
   rules |-> s.rules \cup w.rules, res |-> w.res, absent |-> w.absent,
   needs |-> w.needs, cluster |-> Nil]

\* Of two workloads with one name the later takes over the bundle.
LastOfName(s, i) ==
  \A j \in DOMAIN s.workloads : j > i => s.workloads[j].name # s.workloads[i].name

BundlesOf(c, s) ==
  IF s.cluster # Nil
  THEN {WholeBundle(c, <<s.cluster>>, c, s, s.cluster)}
  ELSE IF s.annotated
  THEN {WorkloadBundle(s.workloads[i], c, s) :
          i \in {j \in DOMAIN s.workloads : LastOfName(s, j)}}
  ELSE IF s.rules = {}
  THEN {WholeBundle(DefaultName, DefaultName, c, s, Nil)}
  ELSE {WholeBundle(GlobalName, GlobalName, c, s, Nil)}

KeyOf(b) == <<b.resourceName, b.cluster>>

DecisionsOf(bs) == {<<b.name, b.cluster>> : b \in bs}

\* One link for each service a bundle needs and another bundle, placed on
\* another cluster, contains.
Connections(bs) ==
  {l \in Links : \E a, b \in bs : /\ a.name # b.name
                                  /\ l.svc \in a.needs \cap b.res
                                  /\ l.tgt = a.cluster /\ l.src = b.cluster
                                  /\ l.src # l.tgt}

\* The clusters a placement may be decided to be satisfied by.
Eligible(p) ==
  IF p.set \in BoundSets
  THEN {c \in Members[p.set] : p.rules \subseteq Claims[c]}
  ELSE {}

\* A decision stands as long as its cluster is eligible.
Settled(p) ==
  p.decision \in IF Eligible(p) = {} THEN {Unsatisfied} ELSE Eligible(p)

-----------------------------------------------------------------------------
\* The steps common to the actions of Reconcile.

\* The reconciliation is over.
Return ==
  /\ pc' = "idle"
  /\ cur' = Nil /\ obj' = Nil /\ bundles' = {} /\ todo' = {}
  /\ turn' = Nil /\ verdict' = Nil

\* RequeueAfter, or an error and its back-off.
Requeue == Return /\ delayed' = delayed \cup {cur}

Report(state, decisions, save) ==
  /\ pc' = "report"
  /\ verdict' = [state |-> state, decisions |-> decisions, save |-> save]

\* UpdateStatus refetches the manifest, writes its status and leaves the
\* fresh copy with the caller.
UpdateStatus(state, decisions) ==
  /\ cr[cur] # Nil
  /\ cr' = [cr EXCEPT ![cur].state = state, ![cur].decisions = decisions]

\* The client reads ManifestWorks from a cache.
Visible(k) == works[k] # Nil /\ k \notin unseen

\* As if the bundles remembered were all there is.
Wrong_Owned(c) == {k \in Keys : Visible(k) /\ \E b \in memory[c] : KeyOf(b) = k}

Owned(c) == {k \in Keys : Visible(k) /\ works[k].label = OwnerLabel(c)}

\* deleteManifestWork: nothing to do when the Get finds nothing.
DeleteManifestWork(k) ==
  works' = IF Visible(k) THEN [works EXCEPT ![k].terminating = TRUE] ELSE works

\* The bundles a loop has left, or the next stage with what it will visit.
Wrong_GoPlace(rest) == pc' = "announce" /\ todo' = rest

GoPlace(rest) ==
  pc' = (IF rest = {} THEN "announce" ELSE "place") /\ todo' = rest

GoPush(bs) == pc' = (IF bs = {} THEN "check" ELSE "push") /\ todo' = bs

GoClean(rest, bs) ==
  IF rest = {} THEN GoPush(bs) ELSE pc' = "clean" /\ todo' = rest

\* Bundles of the last scheduling that are gone, or are now placed elsewhere.
Wrong_Moved(b, bs) == \E n \in bs : n.name = b.name

Dropped(b, bs) == \A n \in bs : n.name # b.name
Moved(b, bs)   == \E n \in bs : n.name = b.name /\ n.cluster # b.cluster
Stale(bs)      == {b \in memory[cur] : Dropped(b, bs) \/ Moved(b, bs)}

\* The links of the last scheduling.
Wrong_OldLinks == {}
OldLinks       == Connections(memory[cur])

-----------------------------------------------------------------------------
\* Reconcile: admission.

\* The status has to be set to in progress: it is empty, or a change brought
\* a manifest back that was done with.
Wrong_NeedsProgressMark(o) == o.state # InProgress

NeedsProgressMark(o) ==
  \/ o.state = NoState
  \/ ~o.deleting /\ o.state # InProgress

\* The worker takes a CR off the queue and gets it.
Start(c) ==
  /\ pc = "idle" /\ c \in queue
  /\ queue' = queue \ {c}
  /\ IF cr[c] = Nil
     THEN UNCHANGED <<pc, cur, obj>>
     ELSE /\ cur' = c /\ obj' = cr[c]
          /\ pc' = IF NeedsProgressMark(cr[c]) THEN "mark" ELSE "admit"
  /\ UNCHANGED <<hub, delayed, memory, bundles, todo, turn, verdict, budgets>>

MarkInProgress ==
  /\ pc = "mark"
  /\ UpdateStatus(InProgress, {})
  /\ obj' = cr'[cur] /\ pc' = "admit"
  /\ UNCHANGED <<placements, works, unseen, links, queues, memory, cur,
                 bundles, todo, turn, verdict, budgets>>

\* A manifest of another namespace gets no finalizer and is not scheduled.
RejectNamespace ==
  /\ pc = "admit" /\ cur \notin InNamespace
  /\ UpdateStatus(Misconfigured, {})
  /\ Return
  /\ UNCHANGED <<placements, works, unseen, links, queues, memory, budgets>>

\* Deletion is looked at before anything else.
Wrong_AfterAdmission(o) ==
  IF o.deleting /\ o.decisions # {} THEN "finalize" ELSE "analyse"

AfterAdmission(o) == IF o.deleting THEN "finalize" ELSE "analyse"

\* The finalizer is added before anything is created for the manifest.
EnsureFinalizer ==
  /\ pc = "admit" /\ cur \in InNamespace
  /\ IF obj.fin
     THEN UNCHANGED <<cr, obj>>
     ELSE /\ cr[cur] # Nil
          /\ cr' = [cr EXCEPT ![cur].fin = TRUE]
          /\ obj' = cr'[cur]
  /\ pc' = AfterAdmission(obj')
  /\ UNCHANGED <<placements, works, unseen, links, queues, memory, cur,
                 bundles, todo, turn, verdict, budgets>>

\* The manifest was deleted since the worker got it: the refetch fails.
ObjectGone ==
  /\ pc \in {"mark", "admit"} /\ cr[cur] = Nil
  /\ Requeue
  /\ UNCHANGED <<hub, queue, memory, budgets>>

-----------------------------------------------------------------------------
\* Reconcile: validation and bundling.  The lists of cluster sets, bindings
\* and clusters do not change, so all checks are one step.

Refuse ==
  /\ pc = "analyse"
  /\ LET s == obj.spec IN
       \/ BadAnnotations(s) /\ Report(Misconfigured, {}, FALSE)
       \/ /\ ~BadAnnotations(s) /\ ~TargetPanics(s) /\ BadTarget(s)
          /\ Report(Failed, {}, FALSE)
       \/ /\ ~BadAnnotations(s) /\ ~TargetPanics(s) /\ ~BadTarget(s)
          /\ BadManifests(s)
          /\ Report(Misconfigured, {}, FALSE)
  /\ UNCHANGED <<hub, queues, memory, cur, obj, bundles, todo, turn, budgets>>

AnalysisFails ==
  /\ pc = "analyse" /\ TriedAgain(cur, obj.spec)
  /\ Requeue
  /\ UNCHANGED <<hub, queue, memory, budgets>>

\* A target cluster needs no placement: on to the clean-up.
BundleForTarget ==
  /\ pc = "analyse" /\ Accepted(obj.spec) /\ ~BadAnalysis(cur, obj.spec)
  /\ obj.spec.cluster # Nil
  /\ LET bs == BundlesOf(cur, obj.spec) IN
       bundles' = bs /\ GoClean(Stale(bs), bs)
  /\ UNCHANGED <<hub, queues, memory, cur, obj, turn, verdict, budgets>>

BundleForPlacement ==
  /\ pc = "analyse" /\ Accepted(obj.spec) /\ ~BadAnalysis(cur, obj.spec)
  /\ obj.spec.cluster = Nil
  /\ bundles' = BundlesOf(cur, obj.spec)
  /\ GoPlace(bundles')
  /\ UNCHANGED <<hub, queues, memory, cur, obj, turn, verdict, budgets>>

-----------------------------------------------------------------------------
\* Reconcile: placing every bundle.

NewPlacement(b) ==
  [owner |-> cur, set |-> obj.spec.set, rules |-> b.rules,
   decision |-> Nil, orphaned |-> FALSE]

\* The placement just created has no decision yet: try again in 10 seconds.
\* Its creation is an event that queues its owner, too.
CreatePlacement(b) ==
  /\ pc = "place" /\ b \in todo /\ placements[b.resourceName] = Nil
  /\ placements' = [placements EXCEPT ![b.resourceName] = NewPlacement(b)]
  /\ queue' = queue \cup {cur}
  /\ Requeue
  /\ UNCHANGED <<cr, works, unseen, links, memory, budgets>>

\* An existing placement is left as it is.
Wrong_UpdatePlacement(b) ==
  /\ pc = "place" /\ b \in todo /\ placements[b.resourceName] # Nil
  /\ pc' = "settle" /\ turn' = b
  /\ UNCHANGED <<hub, queues, memory, cur, obj, bundles, todo, verdict, budgets>>

\* Only the predicates of an existing placement are updated.  A change of its
\* spec is an event for its owner.
UpdatePlacement(b) ==
  /\ pc = "place" /\ b \in todo /\ placements[b.resourceName] # Nil
  /\ LET p == placements[b.resourceName] IN
       /\ placements' = [placements EXCEPT ![b.resourceName].rules = b.rules]
       /\ queue' = IF p.rules = b.rules THEN queue ELSE queue \cup {p.owner}
  /\ pc' = "settle" /\ turn' = b
  /\ UNCHANGED <<cr, works, unseen, links, delayed, memory, cur, obj, bundles,
                 todo, verdict, budgets>>

\* The refetch after 15 seconds.  Whether OCM has looked at the update by
\* then is not in the code's hands.
PlacementGone ==
  /\ pc = "settle" /\ placements[turn.resourceName] = Nil
  /\ Requeue
  /\ UNCHANGED <<hub, queue, memory, budgets>>

Readable(p) == p # Nil /\ (PromptOCM => Settled(p))

DecisionPending ==
  /\ pc = "settle"
  /\ LET p == placements[turn.resourceName] IN Readable(p) /\ p.decision = Nil
  /\ Requeue
  /\ UNCHANGED <<hub, queue, memory, budgets>>

\* One placement that is not satisfied ends the scheduling.
PlacementUnsatisfied ==
  /\ pc = "settle"
  /\ LET p == placements[turn.resourceName] IN
       Readable(p) /\ p.decision = Unsatisfied
  /\ Report(Failed, {}, FALSE)
  /\ UNCHANGED <<hub, queues, memory, cur, obj, bundles, todo, turn, budgets>>

PlacementSatisfied ==
  /\ pc = "settle"
  /\ LET p == placements[turn.resourceName] IN
       /\ Readable(p) /\ p.decision \in Clusters
       /\ bundles' = (bundles \ {turn})
                       \cup {[turn EXCEPT !.cluster = p.decision]}
  /\ GoPlace(todo \ {turn})
  /\ turn' = Nil
  /\ UNCHANGED <<hub, queues, memory, cur, obj, verdict, budgets>>

\* What is placed is pushed, whatever becomes of the rest.
Wrong_AnnounceDecisions ==
  /\ pc \in {"place", "announce"}
  /\ UpdateStatus(InProgress, DecisionsOf(bundles))
  /\ obj' = cr'[cur]
  /\ GoClean(Stale(bundles), {b \in bundles : b.cluster # Nil})
  /\ UNCHANGED <<placements, works, unseen, links, queues, memory, cur,
                 bundles, turn, verdict, budgets>>

AnnounceDecisions ==
  /\ pc = "announce"
  /\ UpdateStatus(InProgress, DecisionsOf(bundles))
  /\ obj' = cr'[cur]
  /\ GoClean(Stale(bundles), bundles)
  /\ UNCHANGED <<placements, works, unseen, links, queues, memory, cur,
                 bundles, turn, verdict, budgets>>

-----------------------------------------------------------------------------
\* Reconcile: clean-up after the bundles of the last scheduling.

\* A bundle placed elsewhere leaves its old cluster.
MoveBundle(b) ==
  /\ pc = "clean" /\ b \in todo /\ Moved(b, bundles)
  /\ DeleteManifestWork(KeyOf(b))
  /\ GoClean(todo \ {b}, bundles)
  /\ UNCHANGED <<cr, placements, unseen, links, queues, memory, cur, obj,
                 bundles, turn, verdict, budgets>>

\* A bundle that is gone loses its placement, if it has one, and then its
\* ManifestWork.
DropPlacement(b) ==
  /\ pc = "clean" /\ b \in todo /\ Dropped(b, bundles)
  /\ LET p == placements[b.resourceName] IN
       /\ placements' = [placements EXCEPT ![b.resourceName] = Nil]
       /\ queue' = IF p = Nil THEN queue ELSE queue \cup {p.owner}
  /\ pc' = "drop" /\ turn' = b
  /\ UNCHANGED <<cr, works, unseen, links, delayed, memory, cur, obj, bundles,
                 todo, verdict, budgets>>

DropWork ==
  /\ pc = "drop"
  /\ DeleteManifestWork(KeyOf(turn))
  /\ GoClean(todo \ {turn}, bundles)
  /\ turn' = Nil
  /\ UNCHANGED <<cr, placements, unseen, links, queues, memory, cur, obj,
                 bundles, verdict, budgets>>

-----------------------------------------------------------------------------
\* Reconcile: pushing the bundles and waiting for them to be applied.

NewWork(b) ==
  [label |-> OwnerLabel(cur), res |-> b.res,
   terminating |-> FALSE, report |-> Nil]

CreateWork(b) ==
  /\ pc = "push" /\ b \in todo /\ works[KeyOf(b)] = Nil
  /\ works' = [works EXCEPT ![KeyOf(b)] = NewWork(b)]
  /\ unseen' = IF CacheLag THEN unseen \cup {KeyOf(b)} ELSE unseen
  /\ GoPush(todo \ {b})
  /\ UNCHANGED <<cr, placements, links, queues, memory, cur, obj, bundles,
                 turn, verdict, budgets>>

\* Only the content of an existing ManifestWork is replaced: its label and
\* its status stay, and so does its deletion if it is being deleted.
UpdateWork(b) ==
  /\ pc = "push" /\ b \in todo /\ Visible(KeyOf(b))
  /\ works' = [works EXCEPT ![KeyOf(b)].res = b.res]
  /\ GoPush(todo \ {b})
  /\ UNCHANGED <<cr, placements, unseen, links, queues, memory, cur, obj,
                 bundles, turn, verdict, budgets>>

\* The cache does not have it and the API server does.
WorkAlreadyExists(b) ==
  /\ pc = "push" /\ b \in todo
  /\ works[KeyOf(b)] # Nil /\ KeyOf(b) \in unseen
  /\ Requeue
  /\ UNCHANGED <<hub, queue, memory, budgets>>

Wrong_AllListed == Cardinality(Owned(cur)) >= Cardinality(bundles)

AllListed == Cardinality(Owned(cur)) = Cardinality(bundles)

NotReady(w)    == w.report = Nil
ApplyFailed(w) == w.report # Nil /\ ~w.report.ok

\* Fewer or more ManifestWorks than bundles, or one without a status: try
\* again in 10 seconds.  The list comes in no order, so either a missing or
\* a bad status can be met first.
Wrong_WorksNotReady ==
  /\ pc = "check"
  /\ AllListed => \E k \in Owned(cur) : NotReady(works[k])
  /\ Return
  /\ UNCHANGED <<hub, queues, memory, budgets>>

WorksNotReady ==
  /\ pc = "check"
  /\ AllListed => \E k \in Owned(cur) : NotReady(works[k])
  /\ Requeue
  /\ UNCHANGED <<hub, queue, memory, budgets>>

WorksFailed ==
  /\ pc = "check" /\ AllListed
  /\ \E k \in Owned(cur) : ApplyFailed(works[k])
  /\ Report(Failed, DecisionsOf(bundles), FALSE)
  /\ UNCHANGED <<hub, queues, memory, cur, obj, bundles, todo, turn, budgets>>

WorksApplied ==
  /\ pc = "check" /\ AllListed
  /\ \A k \in Owned(cur) : ~NotReady(works[k]) /\ ~ApplyFailed(works[k])
  /\ pc' = "unlink"
  /\ UNCHANGED <<hub, queues, memory, cur, obj, bundles, todo, turn, verdict,
                 budgets>>

-----------------------------------------------------------------------------
\* Reconcile: network links and the final status.

\* The links of the last scheduling are removed before the new ones are added.
RemoveOldLinks ==
  /\ pc = "unlink"
  /\ links' = IF Installed THEN links \ OldLinks ELSE links
  /\ pc' = "link"
  /\ UNCHANGED <<cr, placements, works, unseen, queues, memory, cur, obj,
                 bundles, todo, turn, verdict, budgets>>

\* More manifests in the spec than in all the bundles: by count alone.
SomeOrphaned(s, bs) ==
  Cardinality(s.manifests) > MapThenSumSet(LAMBDA b : Cardinality(b.res), bs)

\* The bundles are remembered only after a success without reservations.
FinalState(s, bs) ==
  IF Connections(bs) # {} /\ ~Installed THEN Unreliable
  ELSE IF SomeOrphaned(s, bs) THEN Tentative
  ELSE Successful

Remembered(s, bs) ==
  FinalState(s, bs) = Successful /\ \A b \in bs : ~b.absent

\* The old links are removed after the new ones were added.
Wrong_RegisterLinks ==
  /\ pc = "link"
  /\ links' = IF Installed THEN (links \cup Connections(bundles)) \ OldLinks ELSE links
  /\ Report(FinalState(obj.spec, bundles), DecisionsOf(bundles),
            Remembered(obj.spec, bundles))
  /\ UNCHANGED <<cr, placements, works, unseen, queues, memory, cur, obj,
                 bundles, todo, turn, budgets>>

RegisterLinks ==
  /\ pc = "link"
  /\ links' = IF Installed THEN links \cup Connections(bundles) ELSE links
  /\ Report(FinalState(obj.spec, bundles), DecisionsOf(bundles),
            Remembered(obj.spec, bundles))
  /\ UNCHANGED <<cr, placements, works, unseen, queues, memory, cur, obj,
                 bundles, todo, turn, budgets>>

ReportStatus ==
  /\ pc = "report"
  /\ UpdateStatus(verdict.state, verdict.decisions)
  /\ memory' = IF verdict.save THEN [memory EXCEPT ![cur] = bundles] ELSE memory
  /\ Return
  /\ UNCHANGED <<placements, works, unseen, links, queues, budgets>>

-----------------------------------------------------------------------------
\* Reconcile: finalization of a manifest marked for deletion.

\* The status is set and the ManifestWorks with the manifest's label listed.
BeginFinalizing ==
  /\ pc = "finalize"
  /\ UpdateStatus(Finalizing, {})
  /\ obj' = cr'[cur]
  /\ todo' = Owned(cur)
  /\ pc' = IF Owned(cur) = {} THEN "deleteLinks" ELSE "deleteWorks"
  /\ UNCHANGED <<placements, works, unseen, links, queues, memory, cur,
                 bundles, turn, verdict, budgets>>

DeleteOwnedWork(k) ==
  /\ pc = "deleteWorks" /\ k \in todo /\ works[k] # Nil
  /\ works' = [works EXCEPT ![k].terminating = TRUE]
  /\ todo' = todo \ {k}
  /\ pc' = IF todo \ {k} = {} THEN "deleteLinks" ELSE "deleteWorks"
  /\ UNCHANGED <<cr, placements, unseen, links, queues, memory, cur, obj,
                 bundles, turn, verdict, budgets>>

\* The agent was faster: the Delete of a listed ManifestWork fails.
WorkGone(k) ==
  /\ pc = "deleteWorks" /\ k \in todo /\ works[k] = Nil
  /\ Requeue
  /\ UNCHANGED <<hub, queue, memory, budgets>>

\* The links are those of the remembered bundles, which are then forgotten.
DeleteLinks ==
  /\ pc = "deleteLinks"
  /\ links' = IF Installed THEN links \ OldLinks ELSE links
  /\ memory' = [memory EXCEPT ![cur] = {}]
  /\ pc' = "release"
  /\ UNCHANGED <<cr, placements, works, unseen, queues, cur, obj, bundles, todo,
                 turn, verdict, budgets>>

\* The status is set once more and the finalizer removed: the API server
\* removes the manifest, which is an event, and leaves its placements to the
\* garbage collector.
RemoveFinalizer ==
  /\ pc = "release"
  /\ cr' = [cr EXCEPT ![cur] = Nil]
  /\ placements' = [n \in ResourceNames |->
       IF placements[n] # Nil /\ placements[n].owner = cur
       THEN [placements[n] EXCEPT !.orphaned = TRUE] ELSE placements[n]]
  /\ queue' = queue \cup {cur}
  /\ Return
  /\ UNCHANGED <<works, unseen, links, delayed, memory, budgets>>

-----------------------------------------------------------------------------
\* Failures.

\* The next call fails: a conflict, a time-out, a panic the manager recovers.
CallFails ==
  /\ pc # "idle" /\ faults < MaxFaults
  /\ faults' = faults + 1
  /\ Requeue
  /\ UNCHANGED <<hub, queue, memory, userOps>>

\* deleteManifestWork and deletePlacement take any failed Get for an object
\* that is not there: the deletion is skipped and the clean-up goes on.
SkipDeletion(b) ==
  /\ faults < MaxFaults /\ faults' = faults + 1
  /\ \/ /\ pc = "clean" /\ Dropped(b, bundles)
        /\ pc' = "drop" /\ turn' = b /\ UNCHANGED todo
     \/ /\ \/ pc = "clean" /\ Moved(b, bundles)
           \/ pc = "drop" /\ turn = b
        /\ GoClean(todo \ {b}, bundles) /\ turn' = Nil
  /\ UNCHANGED <<hub, queues, memory, cur, obj, bundles, verdict, userOps>>

\* The controller crashes and comes back, or another replica takes over: what
\* it remembers is lost, and it lists all manifests again.
Restart ==
  /\ faults < MaxFaults
  /\ faults' = faults + 1
  /\ Return
  /\ memory' = [c \in CRs |-> {}]
  /\ queue' = {c \in CRs : cr[c] # Nil} /\ delayed' = {}
  /\ unseen' = {}
  /\ UNCHANGED <<cr, placements, works, links, userOps>>

-----------------------------------------------------------------------------
\* The environment.

TimerFires(c) ==
  /\ c \in delayed
  /\ delayed' = delayed \ {c} /\ queue' = queue \cup {c}
  /\ UNCHANGED <<hub, memory, pc, locals, budgets>>

UserStep == userOps < MaxUserOps /\ userOps' = userOps + 1

UserCreate(c, s) ==
  /\ UserStep /\ cr[c] = Nil
  /\ cr' = [cr EXCEPT ![c] = [deleting |-> FALSE, fin |-> FALSE, spec |-> s,
                              state |-> NoState, decisions |-> {}]]
  /\ queue' = queue \cup {c}
  /\ UNCHANGED <<placements, works, unseen, links, delayed, memory, pc, locals,
                 faults>>

UserEdit(c, s) ==
  /\ UserStep /\ cr[c] # Nil /\ ~cr[c].deleting /\ cr[c].spec # s
  /\ cr' = [cr EXCEPT ![c].spec = s]
  /\ queue' = queue \cup {c}
  /\ UNCHANGED <<placements, works, unseen, links, delayed, memory, pc, locals,
                 faults>>

\* Without a finalizer the manifest is gone at once.
UserDelete(c) ==
  /\ UserStep /\ cr[c] # Nil /\ ~cr[c].deleting
  /\ cr' = [cr EXCEPT ![c] =
              IF cr[c].fin THEN [cr[c] EXCEPT !.deleting = TRUE] ELSE Nil]
  /\ queue' = queue \cup {c}
  /\ UNCHANGED <<placements, works, unseen, links, delayed, memory, pc, locals,
                 faults>>

\* OCM's placement controller decides, or changes a decision that no longer
\* holds.  That is a change of status, which queues nothing.
OCMDecides(n) ==
  /\ placements[n] # Nil /\ ~Settled(placements[n])
  /\ \E d \in Clusters \cup {Unsatisfied} :
       /\ Settled([placements[n] EXCEPT !.decision = d])
       /\ placements' = [placements EXCEPT ![n].decision = d]
  /\ UNCHANGED <<cr, works, unseen, links, queues, memory, pc, locals, budgets>>

\* Placements of a deleted manifest go; that is an event for its name.
GarbageCollect(n) ==
  /\ placements[n] # Nil /\ placements[n].orphaned
  /\ placements' = [placements EXCEPT ![n] = Nil]
  /\ queue' = queue \cup {placements[n].owner}
  /\ UNCHANGED <<cr, works, unseen, links, delayed, memory, pc, locals, budgets>>

\* The agent of the cluster applies what the ManifestWork holds now and
\* reports on it; what it applied can turn unavailable, and available again.
AgentReports(k) ==
  /\ works[k] # Nil /\ ~works[k].terminating
  /\ \E ok \in AgentOutcomes :
       LET r == [res |-> works[k].res, ok |-> ok] IN
         /\ works[k].report # r
         /\ works' = [works EXCEPT ![k].report = r]
  /\ UNCHANGED <<cr, placements, unseen, links, queues, memory, pc, locals,
                 budgets>>

\* The agent has removed the resources from the cluster: the ManifestWork goes.
AgentFinalizes(k) ==
  /\ works[k] # Nil /\ works[k].terminating
  /\ works' = [works EXCEPT ![k] = Nil]
  /\ unseen' = unseen \ {k}
  /\ UNCHANGED <<cr, placements, links, queues, memory, pc, locals, budgets>>

CacheSync ==
  /\ unseen # {} /\ unseen' = {}
  /\ UNCHANGED <<cr, placements, works, links, queues, memory, pc, locals,
                 budgets>>

-----------------------------------------------------------------------------
Init ==
  /\ cr = [c \in CRs |-> Nil]
  /\ placements = [n \in ResourceNames |-> Nil]
  /\ works = [k \in Keys |-> Nil]
  /\ unseen = {} /\ links = {}
  /\ queue = {} /\ delayed = {}
  /\ memory = [c \in CRs |-> {}]
  /\ pc = "idle"
  /\ cur = Nil /\ obj = Nil /\ bundles = {} /\ todo = {}
  /\ turn = Nil /\ verdict = Nil
  /\ userOps = 0 /\ faults = 0

\* What the worker does once it has taken a CR.
Admission  == MarkInProgress \/ RejectNamespace \/ EnsureFinalizer \/ ObjectGone

Validation == Refuse \/ AnalysisFails \/ BundleForTarget \/ BundleForPlacement

Placing ==
  \/ \E b \in todo : CreatePlacement(b) \/ UpdatePlacement(b)
  \/ PlacementGone \/ DecisionPending \/ PlacementUnsatisfied
  \/ PlacementSatisfied \/ AnnounceDecisions

Cleaning == DropWork \/ \E b \in todo : MoveBundle(b) \/ DropPlacement(b)

Pushing ==
  \/ \E b \in todo : CreateWork(b) \/ UpdateWork(b) \/ WorkAlreadyExists(b)
  \/ WorksNotReady \/ WorksFailed \/ WorksApplied

Concluding == RemoveOldLinks \/ RegisterLinks \/ ReportStatus

Deleting ==
  \/ BeginFinalizing \/ DeleteLinks \/ RemoveFinalizer
  \/ \E k \in todo : DeleteOwnedWork(k) \/ WorkGone(k)

Reconcile ==
  \/ Admission \/ Validation \/ Placing \/ Cleaning
  \/ Pushing \/ Concluding \/ Deleting

Users ==
  \E c \in CRs : UserDelete(c) \/ \E s \in Specs : UserCreate(c, s) \/ UserEdit(c, s)

OCM ==
  \/ \E n \in ResourceNames : OCMDecides(n) \/ GarbageCollect(n)
  \/ \E k \in Keys : AgentReports(k) \/ AgentFinalizes(k)

Next ==
  \/ \E c \in CRs : Start(c) \/ TimerFires(c)
  \/ Reconcile \/ CallFails \/ (\E b \in todo : SkipDeletion(b)) \/ Restart
  \/ Users \/ OCM \/ CacheSync

Spec == Init /\ [][Next]_vars

\* The worker goes on with what it has begun, takes every queued CR in its
\* turn, and timers, OCM, the agents, the garbage collector and the cache do
\* their work in time.  Nothing is assumed of users and failures.
Fairness ==
  /\ WF_vars(Reconcile) /\ WF_vars(CacheSync)
  /\ \A c \in CRs : SF_vars(Start(c)) /\ WF_vars(TimerFires(c))
  /\ \A n \in ResourceNames : WF_vars(OCMDecides(n)) /\ WF_vars(GarbageCollect(n))
  /\ \A k \in Keys : WF_vars(AgentReports(k)) /\ WF_vars(AgentFinalizes(k))

FairSpec == Spec /\ Fairness
=============================================================================
