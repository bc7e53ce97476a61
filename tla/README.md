# A formal model of the P2CODE scheduler operator

The operator schedules `P2CodeSchedulingManifest` resources ("manifests" below)
over the clusters that Open Cluster Management (OCM) manages. A manifest holds
Kubernetes resources and annotations; the operator groups the resources into
bundles, lets OCM choose a cluster for each bundle, pushes every bundle to its
cluster as a ManifestWork and links bundles that need each other across
clusters. This directory holds TLA+ modules that model its reconcile loop, its
bundling and its network links, TLC configurations that check them, and proofs
checked by TLAPS.

`controller:N` below is line N of
`src/internal/controller/p2codeschedulingmanifest_controller.go`; the other files
of that directory are named without it.

## The system

### Inventory

| Component | Source | State | Operations |
|---|---|---|---|
| Reconciler | `p2codeschedulingmanifest_controller.go` | `r.Bundles`: per manifest, the bundles of its last full success, in memory only; `r.OwnerLabel` | `Reconcile`: admission, validation, placing, clean-up, push, check, links, final status, finalization |
| Status | `status.go` | status of a manifest in the API server | `UpdateStatus` (refetch, write, hand back the fresh copy), `getInProgressState` |
| Bundling | `bundle.go` | the bundles of one reconciliation | `buildAndUpdateBundles`, `getBundle`, `deleteBundles` |
| Manifest analysis | `analyse.go`, `resourceset.go` | none | which resources a workload depends on, which are missing, which services it calls |
| Annotations | `annotations.go` | none | supported? target set and cluster, placement rules |
| Cluster sets | `membership.go` | none (reads OCM) | exists, empty, bound, member |
| Network connectivity | `network-connectivity.go` | the links of one `MultiClusterNetwork` shared by all manifests | `getNetworkConnections`, `registerNetworkLinks`, `deleteNetworkLinks`, `fetchMultiClusterNetwork` |
| Names | `utils/utils.go` | none | `TruncateNameIfNeeded` |
| Manager | `cmd/main.go` | work queue, one worker, requeue timers, cache | start, restart, leader election |
| API types | `api/v1alpha1` | none | the manifest's fields |
| OCM, API server, garbage collector, users | external | Placements, ManifestWorks, finalizers, owner references | decide, apply, report, delete, collect |

### How the parts interact

All shared state lives in the API server. The controller reads and writes it by
single calls, and between any two of them a user may edit or delete the
manifest, OCM may decide a placement, an agent may report on or remove a
ManifestWork, a call may fail, or the process may die and lose `r.Bundles`. Only
creation, deletion and changes of a spec wake the controller up
(`GenerationChangedPredicate`, controller:936), so a change of status does not;
the controller polls instead, by requeueing every 10 seconds.

### What is hard in it

- **Two memories.** What was scheduled is known by `r.Bundles`, by the label of
  the ManifestWorks and by the owner references of the Placements. Clean-up and
  links use the first, finalization and the check the second, garbage
  collection the third. They disagree after a restart, after every outcome that
  is not a full success, and after an edit in the middle.
- **A moving copy.** `UpdateStatus` replaces the copy of the manifest that the
  reconciliation works with, spec included.
- **Old answers.** Neither the decision of a Placement nor the status of a
  ManifestWork is tied to the spec it answers.
- **Counting.** Completeness is decided by comparing counts (controller:515, 613).
- **One list for all.** The links of all manifests are one list in one object,
  read from a cache and written back whole.
- **A search with many rules.** What a workload needs is found along a dozen kinds
  of reference, some by name, some by label, some over two steps.
- **Deletion is slow.** A ManifestWork stays until its agent has cleaned up; the
  manifest, and another one with its name, does not wait for that.

`PROJECT.json` lists the hazards, each at its line, with the properties that
cover it or the reason why none does.

### What makes the components correct

- Reconciler: reports only what is the case; pushes nothing before all is
  placed; leaves nothing behind when a manifest goes; ends for every manifest.
- Status: the state follows the life of the manifest and never leaves
  `Finalizing`.
- Bundling and analysis: a bundle has all its workload needs and nothing else; the
  order in which resources are listed decides nothing; no filter is dropped.
- Network: the links are those the placed bundles need; what one manifest does to
  the list leaves the links of another alone.
- Names: different manifests get different names. (They need not, see below.)

## The modules

| Module | What it is |
|---|---|
| `Naming` | names as sequences of tokens: joining, qualified or cut, trimming, owner label |
| `Scheduler` | the reconcile loop, the hub cluster and the environment |
| `SchedulingContract` | what the loop promises its users, without its machinery |
| `SchedulerProperties` | the properties of `Scheduler`, and that it implements the contract |
| `MCScheduler` | a catalogue of specs, clusters and cluster sets for TLC |
| `Resources` | `resourceset.go`: lists of resources, look-up, supported kinds |
| `Annotations` | `annotations.go`: splitting, validation, target, rules |
| `Analysis` | `analyse.go`: what a workload needs, what is missing, what fails |
| `Bundling` | `bundle.go`: from a manifest to its bundles, with every fault on the way |
| `BundlingProperties` | users who write manifests; what Kubernetes understands by them |
| `MCBundling` | a stock of resources and annotations for TLC |
| `NetworkLinks` | `network-connectivity.go`: the shared list of links |
| `LinkSet` | the same as everyone thinks of it: a set |
| `MCNetworkLinks` | two manifests that share locations and a service, for TLC |
| `Scheduler_proofs` | types; nothing is pushed before all is placed; the finalizer protects the ManifestWorks; a manifest that is being finalized stays so until it is gone |
| `Ownership_proofs` | a reconciliation touches only what is its manifest's; when names do not meet; the bundles in hand are those of the spec, from their making to the report |
| `Contract_proofs` | the loop implements the contract |
| `Delivered_proofs` | what is reported as scheduled is the current spec, and all that runs, with its links |
| `NetworkLinks_proofs` | the shared list stays in order, keeps what was written, and implements a set |
| `Folding` | what a loop over a list computes, for any step |
| `Bundling_proofs` | lists, look-ups and faults; filters arrive, order decides nothing, orphans are counted |
| `Analysis_proofs` | the search finds all that a workload needs, and nothing else |

`Scheduler` is at the centre. It takes the result of bundling as given with each
spec, which `Bundling` computes, and sees the links as a set, which
`NetworkLinks` shows to be right (`ImplementsLinkSet`). So the three parts are
checked apart, each with inputs of its own, and meet in two interfaces: the
record of a bundle and the set of connections.

### The reconcile loop: `Scheduler`

`cr`, `placements`, `works`, `links` are the objects in the hub. `queue` and
`delayed` are the work queue and its timers. `memory` is `r.Bundles`. `pc` is the
next call of the reconciliation in progress and `cur`, `obj`, `bundles`, `todo`,
`turn`, `verdict` are its locals: the manifest's name, the copy of it, its
bundles, what the current loop has left, the bundle in the middle of it and the
status to be reported. `unseen` holds ManifestWorks that the client's cache does
not show yet.

| `pc` | Actions | Code |
|---|---|---|
| `idle` | `Start` | controller:91-104 |
| `mark` | `MarkInProgress` | controller:106-112 |
| `admit` | `RejectNamespace`, `EnsureFinalizer`, `ObjectGone` | controller:114-150 |
| `analyse` | `Refuse`, `AnalysisFails`, `BundleForTarget`, `BundleForPlacement` | controller:218-376 |
| `place` | `CreatePlacement`, `UpdatePlacement` | controller:662-690 |
| `settle` | `PlacementGone`, `DecisionPending`, `PlacementUnsatisfied`, `PlacementSatisfied` | controller:387-425, 695 |
| `announce` | `AnnounceDecisions` | controller:428-434 |
| `clean`, `drop` | `MoveBundle`, `DropPlacement`, `DropWork`, `SkipDeletion` | controller:437-477, 736-746, 789-799 |
| `push` | `CreateWork`, `UpdateWork`, `WorkAlreadyExists` | controller:482-505 |
| `check` | `WorksNotReady`, `WorksFailed`, `WorksApplied` | controller:507-546 |
| `unlink`, `link` | `RemoveOldLinks`, `RegisterLinks` | controller:551-607 |
| `report` | `ReportStatus` | controller:613-659 |
| `finalize` | `BeginFinalizing` | controller:154-163, 722 |
| `deleteWorks` | `DeleteOwnedWork`, `WorkGone` | controller:727-731 |
| `deleteLinks`, `release` | `DeleteLinks`, `RemoveFinalizer` | controller:172-213 |
| any | `CallFails`, `Restart` | every error return; `cmd/main.go` |

What the code computes between two calls belongs to one of the two. A local is
reset as soon as the code no longer reads it, so that states that behave alike
are one state. Bundles are visited in any order.

A definition `Wrong_X` is `X` with a plausible mistake in it. No module uses it:
replacing `X` by it breaks a property, which shows that the property depends on
that piece of the code.

### The contract: `SchedulingContract`

A manifest is absent, open or closing; it may have a plan, the set of places (a
name and a cluster) it is being brought to; and it runs at some places. One plan
is carried out at a time; a step starts only what is planned and stops only what
is not; nothing starts or is planned for a closing manifest, and a manifest
leaves when nothing of it runs. `SchedulerProperties` maps the loop to it:

| Contract | Loop |
|---|---|
| `life` | absent: there is no manifest; closing: its state is `Finalizing`; open: otherwise |
| `plan` | the names and clusters of `bundles` while `pc` is one of `Committed` (from the clean-up to the registration of links) |
| `running` | the ManifestWorks with the manifest's label that are not being deleted |

A crash or a failed call in the middle is `GiveUp`: what was started stays, and
the next plan may differ. Everything before the commitment, all reports and all
that OCM does are stutters.

### Bundling: `Resources`, `Annotations`, `Analysis`, `Bundling`

A resource is a record with the fields the code reads: group and version, kind,
name, namespace, and by kind selectors, labels, references, subjects, targets.
What is wrong with its JSON is one of two: it does not parse, or it does not fit
the type of its kind. An annotation is what splitting it at `=` yields. `Outcome`
is the first fault in the order of the code, `BuildBundles` the list of bundles
when there is none, `OrphansReported` the comparison of controller:613. A fault
`misconfigured` refuses the manifest; a fault `retry` is an error, or a panic
that the manager recovers, and is tried again.

`BundlingProperties` has one kind of step, a user who adds a resource at the
front or at the end of a manifest. Its reference is not the code: `Refers` says
with Kubernetes' own rules (a service serves the pods that carry its whole
selector, a monitor watches the services that carry its labels, a name is looked
up in its namespace, a network policy rules the pods it selects) which resource
needs which, and `Needed` is the least set of
resources that has a workload and, with each resource, what that depends on. A
resource also has a field `unread`: references that Kubernetes follows and that
no line of analyse.go reads (projected volumes, ephemeral containers, the pull
secrets of an account, the certificate of an Ingress). `Refers` counts them;
`Analysis` does not know the field.
`WritingAssumption` says what Kubernetes accepts of what users write: every
resource has a name, a binding is to a role, an annotation has a key.

### Links: `NetworkLinks`, `LinkSet`

`net` is the `MultiClusterNetwork` in the API server and `cached` what the client
sees. `stale` says which of the cached and the fetched list is no longer the
version in the API server, so that resource versions need no numbers. `status`
says whether a manifest exists and how far it is, `wish` what its current spec
calls for, `pending` which manifests are queued. A
reconciliation removes the connections in `memory` and adds those its manifest
calls for. With nothing remembered there is no call to remove anything; the
finalization of a deleted manifest (`closing`) makes that call in any case
(controller:179-190), with an empty list too, and then forgets the bundles and
lets the manifest go (`Release`). Each call is a fetch, maybe a creation (`Make`,
whose answer can be lost), one step for each connection that is
changed in the fetched list (`copy`; `todo` is what is left), and an update that
is refused when the fetched list is old. `due` is no state of the code: it
records what was written for each manifest and not deleted for it since.
`LinkSet` has a set of connections, and a request that
is served as a whole, in one step, or withdrawn. The mapping: `links` is the set
of connections in the list (`Flatten`), `request` the operation between its fetch
and its update.

| Actions | Code |
|---|---|
| `Begin`, `NothingThere` | controller:131-137, 172-190, 551-573 |
| `GoOn`, `Conclude`, `Release` | controller:575-600, 609-659, 190-215 |
| `FetchNetwork`, `CreateNetwork`, `EditLink`, `UpdateNetwork`, `Refused` | network-connectivity.go:51-143 |
| `CallFails`, `Restart` | error returns; `cmd/main.go` |

The methods of a single link (`AddService`, the constructor) belong to the network
operator and are modelled from their use.

### Abstractions

- In `Scheduler` a spec carries the results of parsing and analysis: target set
  and cluster, rules, whether there are workload annotations, its workloads in
  order with their resources, missing resources and needed services, and at most
  one fault. Each fault of `Bundling` has its counterpart: what is refused
  (`BadAnnotations`, `BadTarget`, `BadManifests`) and what ends every attempt with
  an error or a panic (`TargetPanics`, before the cluster sets are looked at;
  `BadAnalysis`, after: JSON that does not parse, with or without a target
  cluster; a filter without a value; an error of the analysis; a workload whose
  bundle cannot be named).
- There is one namespace for manifests that are scheduled; a manifest outside it
  is one that is not in `InNamespace`. Names are unique over all namespaces.
- Of the conditions of a manifest only the state is kept, of a placement only its
  set, its rules and its decision, read together with the PlacementDecision.
- Reads see the latest writes, except those of ManifestWorks when `CacheLag` is
  TRUE and those of the `MultiClusterNetwork`. A stale read of a just-updated
  manifest is left out; the write that follows it would be refused, which is a
  `CallFails`.
- Cluster sets, bindings, clusters and their claims do not change.
- The list of `BeginFinalizing` is in one step with the status update before it,
  and the second `Finalizing` status is in one step with the removal of the
  finalizer. Only the controller writes what lies between.
- In `Scheduler` all services share a namespace, so a link is a triple of service
  and clusters; in `NetworkLinks` a location is a cluster and a namespace. A
  service has one port.
- Names are tokens: a cut never falls inside a token. `TruncateNameIfNeeded` cuts
  what is no qualified name, whatever its length, as the code does; a short one
  makes the slice panic (`Panic` stands for the name that was not made). Names of
  manifests are checked by the API server, those of embedded workloads by nobody.
- A bundle placed by OCM gets exactly one cluster (`NumberOfClusters` is 1).
- In `Analysis` the resources of a bundle are a set; only the list in which they
  are looked up keeps its order. A port is a number or one that cannot be parsed.

## What is checked

Two clusters, `k1` and `k2`, that differ by one claim each; the set `edge` with
both, `core` with `k2`, an empty set and one that is not bound. The specs are in
`MCScheduler`: `pair` and `moved` have two workloads that need a link and place
them the other way round, `half` has one that can be placed and one that cannot,
`stray` has a resource that no workload needs, `whole` is one bundle, `unsat`
cannot be placed. `unsupported`, `homeless`, `forbidden`, `outside` and `invalid`
are refused; `broken`, `valueless`, `open`, `torn` and `nameless` end with an
error or a panic.

| Run | Asks | Bounds |
|---|---|---|
| `edits` | Is what is reported the current spec and all that runs, and are the links right? Types. | 1 manifest, 3 user operations, no failures |
| `failures` | Does a failure orphan a workload, push too early, undo a finalization, lose a link in use or break the contract? | 1 manifest, 2 user operations, 1 failure, early reads of decisions |
| `neighbours` | Do manifests keep to their own objects? | 2 manifests, 3 user operations, lagging cache |
| `progress` | Does every manifest settle and every deletion complete? | 2 manifests, one in a wrong namespace, 2 user operations, agents that report success or failure and change their mind, fairness |
| `bundling` | Are the bundles what the resources call for, in any order, and is nothing dropped unnoticed? | up to 4 resources out of 30, a workload among them; 2 with other annotations |
| `links` | Does the shared list behave as a set, and does every manifest get the links that are its own? | 2 manifests, 4 creations, edits or deletions, 1 failure, lagging cache, fairness |
| `recreated`, `reedited`, `retargeted`, `absent_resource`, `resubmitted`, `unplaced` | the disagreements below | 1 manifest, 2 or 3 user operations |

Deadlock is not checked: when all is scheduled and the users have used up their
operations the system rightly stops.

**Why the bounds suffice to be interesting.** Three operations are enough to
create, edit and edit again or delete; every operation can come at each of the
17 points of a reconciliation, so one edit already races with each of them. One
failure splits each multi-step stage at each place. Two clusters are enough for
a bundle to move, two bundles for a link, a partial placement and a partial
deletion. Unbounded many operations and failures are covered for the proved
properties.

The longest chain of references that the analysis follows has four resources
(workload, service account, binding, role), so four resources show each chain
complete, cut at each link, and two rules at work on one workload. The stock has
at least one resource for each rule of the analysis and for the faults that end it:
JSON that does not parse, JSON that does not fit its type, a kind that is not
supported (a group that is not, and a resource without a namespace, are refused
alike), a workload of a kind the analysis does not know, one whose namespace is
missing, a port that is no number, a rule that is not for HTTP. It also has a network policy and a Secret that is referred to where the
code does not look. Resources
are added in the order of the stock, each before or after what is there, so any
two come in both orders. The drafts combine 8 lists of global annotations with 7
of workload annotations.

For the links, a manifest with three connections of which one is named twice and
two share a pair of locations makes every branch of adding and removing happen;
the second manifest shares a service with the first and has one of its own. Four
operations let both be registered, and one be changed and deleted while the
other's write is still missing from the cache.

**Properties and their conditions.** Each condition below is needed: without it
TLC finds a state of this code that breaks the property.

- `DeliveredIsCurrent` holds for an OCM that decides within the 15 seconds the
  code sleeps (`PromptOCM`). Without this the decision read may be for the old
  rules. `failures` and `neighbours` do not assume it.
- `LinksMatchMemory` is checked without failures: a restart forgets the bundles
  whose links have to be removed. What remains true with failures is
  `LinksServeDecisions`: a link too many is possible, one too few is not.
- `FinalizerProtectsWorks` needs `CacheLag = FALSE`: the list of ManifestWorks to
  delete comes from the cache.
- `StaysWithItsOwn` says of every ManifestWork that a reconciliation creates,
  changes or deletes that it has the manifest's label, and of every placement that
  it is owned by the manifest. It is for names that do not meet. They meet when they are cut at
  63 characters, and also when they are short: bundle `web` of manifest `app-x`
  and bundle `web-app` of manifest `x` are both `web-app-x`.
- `DeliveredIsAll` speaks of the moments when all ManifestWorks a manifest should
  have are there. Otherwise a manifest that is deleted, created again and edited
  while the ManifestWorks of the first go away one by one can be counted as
  complete with one missing and one foreign (controller:515).
- `BundlesCover` and `BundlesExact` are for manifests where a kind and a name mean
  one resource (`Unambiguous`; the look-up ignores namespaces), services labelled
  by what they select, StatefulSets whose service selects their pods, and every
  role bound present unless it is a system role (`Conventional`: a monitor is
  matched by the service's selector; of a service that is only named by a
  StatefulSet neither ingress nor monitor is looked for, analyse.go:231-247; a
  binding without its role is left out, and so is a role called `system:...` that
  the manifest brings itself). The namespace `default` is on every cluster and
  counts for nothing.
  Both are for resources with no references but those the code reads and workloads
  that no network policy selects (`ReferencesRead`). The second half of that
  condition is a disagreement with docs/features.md:68: without it, TLC's
  counterexample to `BundlesCover` is a Deployment and the policy for its pods.
  `BundlesExact` also needs selectors that match fully or not at all
  (`AllOrNothing`: one pair is enough for the code) and a single namespace (a
  service is matched with pods of any). That every workload has a bundle needs
  workloads of different names: the second of a name takes over the first's.
- `OrderIrrelevant` needs `Unambiguous` and different workload names, for the same
  reasons.
- `OrphansFlagged`: the warning can be wrong when a manifest is listed twice, and
  missing when one is in two bundles, as only numbers are compared.
- `FiltersReachBundles` is for one entry of annotations per workload: a second
  entry replaces the first.
- `OwnLinksServe` and `WishesServed` are for connections that only one manifest
  has or can ask for (`Private`). A shared one is
  lost when the first of its manifests goes, as the list has no count, and the
  other does not get it back.
- `Settles` has an exception in its formula, for manifests in which an error or a
  panic ends every attempt (`TriedAgain`): they are tried again for ever in the
  state they had (`broken`, `valueless`, `nameless` in `progress`). And the specs
  of `progress` are such that no edit drops a bundle which an earlier version may
  have pushed before its first success, or makes OCM move it; with one that drops
  it `Settles` fails, which is the run `reedited`, and with one that moves it in
  the same way.

**Fairness** (`Fairness` in `Scheduler`). The worker continues what it has begun
(a goroutine that is not blocked), takes every queued manifest in its turn (the
queue is first in, first out: strong fairness, as a manifest may leave and enter
the queue), timers fire, and OCM, agents, garbage collector and caches do their
work. Nothing is assumed of users and failures, and nothing of what agents report:
in `progress` it is success or failure, in any order. For `links` (`Fairness` in
`NetworkLinks`) it is the same: the worker continues, takes every pending manifest
in its turn, and the cache catches up. `WishesServed` is about the list itself: in
the end it has, and keeps, what each manifest calls for and no other can. So being refused
for an old version is not for ever: a reconciliation that removes and then adds
meets its own first write missing from the cache, fails, and succeeds later.

### Disagreements found

Each has a run whose counterexample shows it and an entry in `PROJECT.json` that
quotes the line it disagrees with.

1. `recreated`: a manifest created again adopts ManifestWorks that are being
   deleted, reports success, and its workloads then vanish for good.
2. `reedited`: an edit before the first full success leaves an unknown
   ManifestWork behind, and the manifest stays in progress for ever.
3. `retargeted`: an existing Placement keeps its cluster set.
4. `absent_resource`: links of a manifest with undefined resources are never
   removed.
5. `resubmitted`: the success of an edited manifest rests on the status of the
   content before the edit.
6. `unplaced`: a manifest edited into one that cannot be placed is reported as
   failed while its earlier version runs on, although the comment at
   controller:479 wants nothing to run then.

### Seen while modelling, without a run

- Errors that cannot go away are tried again for ever, in the state the manifest
  had: JSON that does not parse, a resource that does not fit its type, a missing
  namespace, a port that is no number. docs/architecture.md:669-675 has a permanent
  error set a failed condition and end the reconciliation. `Settles` leaves these
  manifests out by name (`TriedAgain`).
- An annotation without `=` passes the validation of its key and panics where its
  value is read (annotations.go:71, 87, 89): the manifest is tried again for ever, where
  docs/features.md:303 has it refused. A value is cut at a second `=`.
- `TruncateNameIfNeeded` takes any name that is not qualified for one that is too
  long (utils.go:18-19): the slice panics on a short one, say for an embedded
  workload with a character in its name that Kubernetes would refuse, and the
  manifest is tried again for ever.
- Network policies: docs/features.md:53-68 has them included with a workload. They
  are bundled only with a manifest that is one bundle; no rule of the analysis
  finds them for a workload.
- A binding to a role that is neither in the manifest nor named `system:...` is
  left out of the bundle; the role is reported as absent, the binding is not.
- An edit that both removes and adds links usually takes two reconciliations: the
  second update is made from a cache that does not show the first.

## What is proved

`tlapm` checks all proofs, for every value of the constants that satisfies the
assumptions of the modules, and for any number of user operations and failures.
Those assumptions are `SchedulerAssumption` and `NilAssumption` in `Scheduler`
(constants are of the right kind, the workloads of a spec are a finite list, and
`Nil` is none of the objects), `NameLengthAssumption` in `Naming`, and in
`NetworkLinks` `WantedAssumption` and `NilAssumption` (manifests call for lists of
connections, and `Nil` is no list of links), and `WritingAssumption` in
`BundlingProperties` (see above). TLC evaluates them in every run.

What a theorem assumes beyond that is in its statement:

| Assumption | Meaning | Why it is needed |
|---|---|---|
| `CacheLag = FALSE` | the client sees the ManifestWorks it has created | finalization and the count of controller:515 go by a list from the cache |
| `PromptOCM = TRUE` | OCM decides anew within the 15 seconds of controller:693 | otherwise the decision read may be for the old rules |
| `NamesApart` | no name is made for two manifests | the code finds objects by name and never looks at their owner |
| `NamesDistinct` | besides, none for two bundles of one manifest, and no workload is called like a cluster | a manifest edited from a target cluster to placement by workload has bundles of both kinds in one reconciliation |
| `LabelsApart` | no two manifests have one owner label | the label decides what is counted and what is finalized |
| `OneManifest` | there is one manifest | links have no owner: of two manifests that need one service, the clean-up for one removes the link of the other. In `Scheduler` any manifest can be given any spec, so nothing less keeps them apart; `OwnLinksStay` is about several manifests |

The constants of a run that checks a property satisfy the assumptions of its
theorem (those on names in `edits`, `failures` and `neighbours`), which TLC has
evaluated. `PlainNamesApart` says when names do not meet.

**Types and pushing** (`Scheduler_proofs`).

- `TypeCorrect`: `Spec => []TypeOK`. `TypeOK` alone is not inductive: that a
  bundle pushed under a key has a cluster depends on where the reconciliation
  stands. `TInv` adds what each step may assume of the locals: a manifest and its
  copy are there (`Working`), the bundle in the middle of a loop is one of the
  loop's (`InLoop`), all bundles are placed from the announcement on
  (`PlacedSoFar`), remembered bundles were placed (`RememberedPlaced`) and the
  verdict is ready (`VerdictReady`). `RememberedPlaced` also shows that the test
  `clusterName != ""` of controller:469 is always true, which is why `DropWork`
  has no such guard.
- `PushCorrect`: `Spec => PushOnlyWhenAllPlaced`. Only the steps at `push` give a
  ManifestWork content (`PushSteps`), and there `PlacedSoFar` holds.

**Deletion** (`Scheduler_proofs`).

- `FinalizerCorrect`: `Spec => []FinalizerProtectsWorks` if `CacheLag = FALSE`.
  The inductive invariant `FInv` adds that past the admission the manifest holds
  the finalizer (`Admitted`), and that a finalization has in its loop all
  ManifestWorks with the manifest's label that are not yet being deleted
  (`Emptied`). Most steps neither take away a finalizer nor add a ManifestWork
  (`Kept`); the proof is about the few others. It does not need the labels of
  manifests to differ.
- `FinalizingCorrect`: `Spec => FinalizingIsFinal`, with any cache. A status
  written late is harmless because only a finalization writes `Finalizing`, and
  none is under way while a reconciliation schedules. `GInv` says so: a manifest
  in that state is deleted (`ClosingIsDying`), a copy that says it is deleted is
  right for good (`CopyDying`), a reconciliation that schedules does so for a
  manifest that is not in that state (`NotClosing`), and one that finalizes does
  so for a deleted one (`FinalizesDying`).

**Ownership and bundles** (`Ownership_proofs`).

- `OwnershipCorrect`: `Spec => StaysWithItsOwn` if `NamesApart`, for what is
  created, changed and deleted. The code never
  looks at the owner of what it finds under a name, so the invariant `OInv`
  follows names: of ManifestWorks (`WorksNamed`), placements (`PlacementsNamed`),
  remembered bundles (`MemoryNamed`) and what a reconciliation has in hand
  (`LocalsNamed`).
- `PlainNamesApart`: `NamesDistinct` and `LabelsApart` hold if every name is
  qualified (so that none is cut), manifests have no hyphen in their names and no bundle is named
  like a cluster. A name `bundle-manifest` is then read backwards to its last
  hyphen. Nothing in the code sees to either.
- The invariant `BInv` is what the next three proofs need. The bundles in hand
  are those of some accepted spec, placed or not, and that spec is the manifest's or the manifest is on the queue again
  (`BundlesCarry` with `UpToDate`): an edit can come at any moment, and
  `UpdateStatus` may bring it into the copy without the bundles being made anew. A
  loop visits what it is for (`LoopsVisit`) and the verdict tells the decisions of
  these bundles (`VerdictTrue`).

**The contract** (`Contract_proofs`).

- `ContractImplemented`: `Spec => ImplementsContract` if `CacheLag = FALSE`,
  `NamesDistinct` and `LabelsApart`. Its invariant joins the four above. Each
  action is shown to be one step of the contract or a stutter. The steps that
  carry weight are the clean-up, which stops only what is not planned because a
  remembered bundle that goes has a key that no bundle in hand has, and the
  removal of the finalizer, when `Emptied` says that nothing of the manifest runs.

**What is reported** (`Delivered_proofs`). The report is the end of a reconciliation
that throws its bundles away, so the invariants speak of some bundles that the
reported decisions stand for (`Told`); they are established while the bundles are
in hand, pass to the manifest with the last status, and last until something puts
the manifest back on the queue.

- `DeliveredCurrent`: `Spec => []DeliveredIsCurrent` if `PromptOCM = TRUE` and
  `NamesDistinct`. `EInv` adds to `BInv` that the rules of the bundle are in its
  placement when the decision is read (`RulesWritten`), that placed bundles fit
  their cluster (`FitsHere`) and that what was pushed has the bundle's content
  (`FedHere`, `ReportedFed`).
- `DeliveredAll`: `Spec => []DeliveredIsAll` if `CacheLag = FALSE`, `NamesDistinct`
  and `LabelsApart`. Completeness is decided by counting ManifestWorks
  (controller:515). `AInv` keeps the count (`CountedHere`, `ReportedCounted`): no
  more ManifestWorks with the label than bundles; so if all that should be there
  are, they are all there are.
- `LinksServed`: `Spec => []LinksServeDecisions` if `OneManifest`, with failures
  and restarts.

**The shared list** (`NetworkLinks_proofs`), for any manifests and any lists of
connections.

- `AddConnectionIs` and `RemoveConnectionIs` say what one turn of the two loops
  does: a list in order stays in order, and the set of its connections gains or
  loses exactly the one. Without order this is false: only the first link of a
  path is looked at.
- `LInv` says that all three lists (stored, cached, copied) are in order (`Lists`),
  and that a copy that is not out of date amounts, with what is left to be done in
  it, to the stored list with the whole request (`Versions`).
- `LinksInOrder`: `Spec => []WellFormed`. `OwnLinksStay`: `Spec =>
  []OwnLinksServe`. `LinkSetImplemented`: `Spec => ImplementsLinkSet`, where the
  write is the step of the set and a refusal, a lost call or a restart withdraws
  the request.

**Loops over lists** (`Folding`). The loops that build something up are folds, and
a fold is defined by a recursive function over sets of indices. `Turns` says of
any list that there is a sequence of intermediate results that begins with the
base, takes one turn for each element and ends with the fold. An induction theorem
with the induction hypothesis as a parameter is out of the prover's reach; here
the induction is on a set of numbers (`UpTo`: a least number left out would have
its predecessor in the set), and the turn of the loop is a constant operator,
which each use gives by an instance of the module.

**Bundling** (`Bundling_proofs`), for manifests of any length. The inductive
invariant `MInv` says only that what is written is of the form Kubernetes accepts
(`MInvSteps`); the work is in what the functions of the code make of it.

- What each loop returns: `BulkIs`, `WorkloadsAre`, `AncillariesAre`, `RulesAre`,
  `FindIs`, `FindWorkloadIs`, `BundlesAre`. The list of resources keeps of equal
  ones the first, the two halves of `Categorise` keep the order, a look-up finds
  one that fits whenever one does. `FaultFree` and `OutcomeIs` say that a manifest
  is accepted when each single check finds nothing.
- `FiltersArrive`: `Spec => []FiltersReachBundles`. The last entry for a workload
  is its only one (`EntryCounts`), and a filter without a value would have been a
  fault.
- `OrderCannotMatter`: `Spec => []OrderIrrelevant`. Lists of the same resources
  are `Alike` when a kind and a name mean one resource: every look-up and every
  search yields the same for both (`AlikeAnalysis`), so the same faults are met
  and each workload has the same bundle. The property is about the reversed list,
  the lemmas are about any other order.
- `OrphansCounted`: `Spec => []OrphansFlagged`. The sum that the code compares is
  at least the number of resources placed, and equal to it if no two bundles share
  (`PlacedIs`).

**Analysis** (`Analysis_proofs`). The code searches along fixed paths of at most
three references and never looks further. `Reached` states the result of these
paths as one predicate.

- `BundlesComplete`: `Spec => []BundlesCover`. `AnalysedAre` shows that the
  searches of `Analysis` find what is `Reached`, and `ReachedComplete` that this,
  less the services that match by a part of their selectors only, depends on
  nothing else; so the least complete set is in it.
- `BundlesMinimal`: `Spec => []BundlesExact`. Each part of `Reached` is at the end
  of a chain of references from the workload (`ReachedNeeded`), so it is in every
  complete set.

The first attempts at these two proofs failed for good reasons. Three conditions
(on the service of a StatefulSet, on system roles and on the namespace `default`)
were missing, because the stock of the run had no resource that showed the need.
It has now: TLC finds a counterexample too when one of them is dropped.

The invariants were checked by TLC on the instances of the runs, except the parts
with `Told`, whose bundles range over more sets than TLC can list.

Only model-checked: `Settles`, `DeletionCompletes` and `WishesServed`, as liveness
under fairness is beyond the prover, and `LinksMatchMemory`. The last is true only of one
manifest without failures whose schedulings are all remembered: a theorem about that
would leave out the ways in which this code leaves links behind (a restart, a
warning, a manifest that shares a link), so it is no more than what the run `edits`
shows. `LinksServed` and `OwnLinksStay` are the theorems about links that hold
through failures. Every other invariant and action property that a passing run checks
is proved, under the assumptions above.

## Not modelled

- Changes of cluster sets, bindings and claims while the system runs: the code
  reads them at the beginning of a reconciliation and nothing wakes it up later.
- The manager's flags, certificates, health checks and metrics (`cmd/main.go`);
  of it the model has the single worker, the queue, its timers and the restart.
- `SentenceCase`, messages and reasons of conditions, logging: wording only.
- The server-side-apply options of a ManifestWork (controller:851): they decide
  how the agent applies a volume claim, which no property looks at.
- Deep copies, the CRD, RBAC and kustomize files: generated or declarative.
- The end-to-end tests, which were read for what they expect.

## The plan for what is left

- The theorems that assume `NamesDistinct` and `LabelsApart` could say more of
  names that are cut and still differ, with names made of characters.
- Changes of cluster sets and claims during a run, if the code comes to watch
  them.
- Each entry of "Disagreements found" is a property that a corrected program
  should have: its run should then pass.
