-------------------------- MODULE BundlingProperties --------------------------
(***************************************************************************)
(* Users write manifests, and what bundling makes of them is compared with *)
(* what Kubernetes understands by the same resources.                      *)
(***************************************************************************)
EXTENDS Bundling

CONSTANTS
  Stock,           \* the resources users may put into a manifest, in sequence
  Drafts,          \* manifests to begin with: [manifest, limit]
  Name             \* the manifest's name

\* What is written is of the form that Kubernetes accepts: everything has a
\* name, a workload refers to Secrets, ConfigMaps and volume claims, a binding to
\* a role; and an annotation has a key.
IsResource(r) ==
  /\ r.name # ""
  /\ IsWorkload(r) /\ r.kind \in PodKinds
       => r.refs \subseteq {<<ref[1], ref[2]>> : ref \in r.refs}
          /\ \A ref \in r.refs : ref[2] \in {"Secret", "ConfigMap", "PersistentVolumeClaim"}
  /\ r.kind = "RoleBinding"
       => r.role = <<r.role[1], r.role[2]>> /\ r.role[2] \in {"Role", "ClusterRole"}
  /\ r.kind = "ClusterRoleBinding" => r.role = <<r.role[1], "ClusterRole">>

IsAnnotationList(as) ==
  /\ as \in Seq(ToSet(as))
  /\ \A a \in ToSet(as) : a \in Seq(ToSet(a)) /\ a # <<>>

IsManifest(m) ==
  /\ m = [name |-> m.name, manifests |-> m.manifests, global |-> m.global,
          perWorkload |-> m.perWorkload]
  /\ m.manifests \in Seq(ToSet(m.manifests))
  /\ \A r \in ToSet(m.manifests) : IsResource(r)
  /\ IsAnnotationList(m.global)
  /\ m.perWorkload \in Seq(ToSet(m.perWorkload))
  /\ \A e \in ToSet(m.perWorkload) : IsAnnotationList(e.annotations)

ASSUME WritingAssumption ==
  /\ Stock \in Seq(ToSet(Stock))
  /\ \A r \in ToSet(Stock) : IsResource(r)
  /\ \A d \in Drafts : IsManifest(d.manifest)

VARIABLES
  manifest,        \* the manifest as it stands
  next,            \* resources of the stock before this one were passed by
  limit            \* bound: how many resources it may get

vars == <<manifest, next, limit>>

Init ==
  /\ next = 1
  /\ \E d \in Drafts : manifest = d.manifest /\ limit = d.limit

\* A resource is put before or after what is there, maybe twice.
Write(i, resources) ==
  /\ Len(manifest.manifests) < limit
  /\ manifest' = [manifest EXCEPT !.manifests = resources]
  /\ next' = i
  /\ UNCHANGED limit

Next ==
  \E i \in next..Len(Stock) :
    \/ Write(i, <<Stock[i]>> \o manifest.manifests)
    \/ Write(i, Append(manifest.manifests, Stock[i]))

Spec == Init /\ [][Next]_vars

-----------------------------------------------------------------------------
\* What Kubernetes makes of the same resources.

Given == ToSet(manifest.manifests)

Accepted   == Outcome(manifest) = "none"
PerWorkload == Accepted /\ ~IsTargeted(manifest) /\ manifest.perWorkload # <<>>
Bundles    == BuildBundles(manifest)

IsNamespaced(r) == r.ns # ""

\* x works only with y, or y is there only for x.
Serves(svc, w)   == svc.selector # {} /\ svc.selector \subseteq w.labels
Watches(mon, svc) ==
  /\ mon.labels \subseteq svc.own
  /\ \A e \in mon.expressions : \E l \in svc.own : l[1] = e.key /\ l[2] \in e.values
  /\ mon.labels # {} \/ mon.expressions # {}

\* Kubernetes follows more references than analyse.go reads.  A resource has
\* them in "unread", which no definition of Analysis looks at: the projected
\* volumes and ephemeral containers of a pod, the pull secrets of an account,
\* the certificate of an Ingress.  And a NetworkPolicy rules the pods that have
\* all it "selects".
Refers(x, y) ==
  \/ <<y.name, y.kind>> \in x.unread
  \/ CASE IsWorkload(x) ->
            \/ <<y.name, y.kind>> \in x.refs \cup {<<x.account, "ServiceAccount">>}
            \/ y.kind = "NetworkPolicy" /\ y.selects \subseteq x.labels
            \/ y.kind = "Service" /\ Serves(y, x)
            \/ y.kind = "Service" /\ x.kind = "StatefulSet" /\ x.service = y.name
            \/ y.kind = "HorizontalPodAutoscaler" /\ y.target = <<x.kind, x.name, x.api>>
       [] x.kind = "ServiceAccount" ->
            y.kind = "RoleBinding" /\ <<"ServiceAccount", x.name, x.ns>> \in y.subjects
       [] x.kind = "Service" ->
            \/ y.kind = "Ingress" /\ x.name \in y.backends
            \/ y.kind = "Route" /\ y.to = <<x.name, "Service">>
            \/ y.kind = "ServiceMonitor" /\ Watches(y, x)
       [] x.kind = "RoleBinding" -> <<y.name, y.kind>> = x.role
       [] OTHER -> FALSE

\* References that reach out of a namespace.  The namespace "default" is on
\* every cluster.
RefersBeyond(x, y) ==
  CASE IsWorkload(x) -> y.kind = "Namespace" /\ y.name = x.ns /\ x.ns # "default"
    [] x.kind = "ServiceAccount" ->
         y.kind = "ClusterRoleBinding" /\ <<"ServiceAccount", x.name, x.ns>> \in y.subjects
    [] x.kind \in {"RoleBinding", "ClusterRoleBinding"} ->
         y.kind = "ClusterRole" /\ <<y.name, y.kind>> = x.role
    [] OTHER -> FALSE

Depends(x, y) == (x.ns = y.ns /\ Refers(x, y)) \/ RefersBeyond(x, y)

\* The least set of resources that has w and with each what it depends on.
Complete(X) ==
  LET directly == [x \in Given |-> {y \in Given : Depends(x, y)}]
  IN  \A x \in X : directly[x] \subseteq X

Needed(w) ==
  LET complete == {X \in SUBSET Given : w \in X /\ Complete(X)}
  IN  {y \in Given : \A X \in complete : y \in X}

\* What a manifest may refer to by kind and name alone.
Unambiguous ==
  \A x, y \in Given : x.kind = y.kind /\ x.name = y.name => x = y

DistinctWorkloads ==
  \A x, y \in {r \in Given : IsWorkload(r)} : x.name = y.name => x = y

\* Services are labelled by what they select, the service of a StatefulSet
\* selects its pods, and the roles that are bound are all in the manifest,
\* except those of the system, of which none is.
Conventional ==
  \A r \in Given :
    /\ r.kind = "Service" => r.own = r.selector
    /\ r.kind = "StatefulSet"
         => \A s \in Given : s.kind = "Service" /\ s.ns = r.ns /\ s.name = r.service
              => Serves(s, r)
    /\ r.kind \in {"RoleBinding", "ClusterRoleBinding"}
         => (r.builtin <=> \A y \in Given : r.role # <<y.name, y.kind>>)

\* Selectors match with all they have or not at all.
AllOrNothing ==
  \A s \in {x \in Given : x.kind = "Service"}, r \in Given :
    /\ IsWorkload(r) /\ s.selector \cap r.labels # {} => Serves(s, r)
    /\ r.kind = "ServiceMonitor"
         /\ (r.labels \cap s.own # {} \/ \E e \in r.expressions, l \in s.own :
                                           l[1] = e.key /\ l[2] \in e.values)
       => Watches(r, s)

\* No reference but those that analyse.go reads, and no pod that a policy
\* rules: policies are in no bundle, though docs/features.md:67-68 has them in
\* every one.
ReferencesRead ==
  \A x \in Given :
    /\ x.unread = {}
    /\ IsWorkload(x) => \A y \in Given : y.kind = "NetworkPolicy" /\ y.ns = x.ns
                                         => ~(y.selects \subseteq x.labels)

OneNamespace == Cardinality({r.ns : r \in {x \in Given : IsNamespaced(x)}}) <= 1

-----------------------------------------------------------------------------
\* Properties.

\* Every workload has a bundle, and in it is all that the workload needs of
\* the manifest, over any number of steps: a workload that is moved to a
\* cluster alone never arrives without the role of its service account or the
\* monitor of its service.  The references must be of those the code reads,
\* which excludes every workload with a network policy.
BundlesCover ==
  PerWorkload /\ Unambiguous /\ Conventional /\ ReferencesRead
    => /\ \A i \in DOMAIN Bundles : \A w \in Bundles[i].resources :
            IsWorkload(w) => Needed(w) \subseteq Bundles[i].resources
       /\ DistinctWorkloads
            => \A w \in Given : IsWorkload(w) =>
                 \E i \in DOMAIN Bundles : w \in Bundles[i].resources

\* It has nothing else in it, and reports as absent just what the workload
\* names and the manifest lacks.
Named(w) ==
  w.refs \cup (IF w.account = "" THEN {} ELSE {<<w.account, "ServiceAccount">>})
         \cup (IF w.kind = "StatefulSet" THEN {<<w.service, "Service">>} ELSE {})

BundlesExact ==
  PerWorkload /\ Unambiguous /\ Conventional /\ ReferencesRead /\ AllOrNothing
    /\ OneNamespace
    => \A i \in DOMAIN Bundles : \A w \in Bundles[i].resources :
         IsWorkload(w) =>
           /\ Bundles[i].resources = Needed(w)
           /\ Bundles[i].absent = Named(w) \ {<<y.name, y.kind>> : y \in Given}

\* The order in which a manifest lists its resources decides nothing, if it
\* has no two of one kind and name: neither whether it is scheduled nor what is
\* in a bundle.
Reordered == [manifest EXCEPT !.manifests = Reverse(@)]

OrderIrrelevant ==
  Unambiguous /\ DistinctWorkloads
    => /\ Accepted <=> Outcome(Reordered) = "none"
       /\ Accepted => ToSet(Bundles) = ToSet(BuildBundles(Reordered))

\* The comparison of two numbers behind the warning about manifests in no
\* bundle is never wrong when it warns, unless a manifest is listed twice, and
\* warns of every such manifest, unless one is in two bundles.
Orphans == {r \in Given : \A i \in DOMAIN Bundles : r \notin Bundles[i].resources}

NoDoubles == \A i, j \in DOMAIN manifest.manifests :
               Equals(manifest.manifests[i], manifest.manifests[j]) => i = j

Unshared == \A i, j \in DOMAIN Bundles :
              i # j => Bundles[i].resources \cap Bundles[j].resources = {}

OrphansFlagged ==
  Accepted => /\ NoDoubles /\ OrphansReported(manifest) => Orphans # {}
              /\ Unshared /\ Orphans # {} => OrphansReported(manifest)

\* When a manifest is scheduled by its annotations, each of its filters has a
\* value and rules the bundles it is meant for; none is dropped.  (Of two
\* entries for one workload the code takes the last.)
OneEntryEach == \A i, j \in DOMAIN manifest.perWorkload :
                  manifest.perWorkload[i].name = manifest.perWorkload[j].name => i = j

Ruled(b, a) == Len(a) > 1 /\ SubSeq(a, 1, 2) \in ToSet(b.rules)

FiltersReachBundles ==
  Accepted /\ ~IsTargeted(manifest) /\ OneEntryEach /\ DistinctWorkloads
    => /\ \A a \in ToSet(manifest.global) :
            IsFilter(a) => \A i \in DOMAIN Bundles : Ruled(Bundles[i], a)
       /\ \A e \in ToSet(manifest.perWorkload) : \A a \in ToSet(e.annotations) :
            \E i \in DOMAIN Bundles : Bundles[i].name = e.name /\ Ruled(Bundles[i], a)
=============================================================================
