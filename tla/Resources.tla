------------------------------ MODULE Resources ------------------------------
(***************************************************************************)
(* The Kubernetes resources in a manifest and the lists the scheduler      *)
(* keeps them in, resourceset.go.                                          *)
(*                                                                         *)
(* A resource is a record [api, kind, name, ns, parsed, sound, ...]: its   *)
(* group and version, its kind, name and namespace ("" for none), whether  *)
(* its JSON is an object with a kind at all, whether it also fits the type *)
(* of its kind, and the fields of that kind which module Analysis reads.   *)
(* Where it fits no type the scheduler knows, only the first fields count. *)
(***************************************************************************)
EXTENDS SequencesExt

IsWorkload(r) ==
  \/ r.api[1] \in {"apps", "batch"}
  \/ r.api[1] = "" /\ r.kind = "Pod"

\* One resource is the other if their kinds, namespaces and names agree; their
\* groups are not compared.
Equals(r1, r2) == <<r1.kind, r1.ns, r1.name>> = <<r2.kind, r2.ns, r2.name>>

Add(rs, r) ==
  IF \E i \in DOMAIN rs : Equals(rs[i], r) THEN rs ELSE Append(rs, r)

\* The resource found at an index: a set of it alone, or empty.
Hit(rs, i) == IF i = 0 THEN {} ELSE {rs[i]}

\* The first that fits.  Namespaces are not compared.
Find(rs, name, kind) ==
  Hit(rs, SelectInSeq(rs, LAMBDA r : r.kind = kind /\ r.name = name))

FindWorkload(rs, name) ==
  Hit(rs, SelectInSeq(rs, LAMBDA r : r.name = name /\ IsWorkload(r)))

FilterByKind(rs, kind) == {r \in ToSet(rs) : r.kind = kind}

\* The two halves of Categorise.
WorkloadsOf(rs) ==
  FoldLeft(LAMBDA ws, r : IF IsWorkload(r) THEN Append(ws, r) ELSE ws, <<>>, rs)
AncillariesOf(rs) ==
  FoldLeft(LAMBDA as, r : IF IsWorkload(r) THEN as ELSE Append(as, r), <<>>, rs)

-----------------------------------------------------------------------------
\* Which resources the scheduler takes.

\* The supported groups, each with the kinds it is limited to and the kinds
\* it is closed to; no kinds in either means no limit.
SupportedAPIGroups ==
  {[api |-> a, allowed |-> {}, blocked |-> {}] :
     a \in {<<"apps", "v1">>, <<"batch", "v1">>,
            <<"rbac.authorization.k8s.io", "v1">>,
            <<"authorization.openshift.io", "v1">>,
            <<"route.openshift.io", "v1">>, <<"networking.k8s.io", "v1">>,
            <<"autoscaling", "v2">>}}
  \cup {[api |-> <<"", "v1">>, allowed |-> {}, blocked |-> {"PersistentVolume"}],
        [api |-> <<"monitoring.coreos.com", "v1">>,
         allowed |-> {"ServiceMonitor"}, blocked |-> {}]}

IsResourceAllowed(g, kind) ==
  \/ g.allowed = {} /\ g.blocked = {}
  \/ kind \in g.allowed
  \/ g.blocked # {} /\ kind \notin g.blocked

IsSupportedResource(r) ==
  \E g \in SupportedAPIGroups : g.api = r.api /\ IsResourceAllowed(g, r.kind)

HasNamespace(r) ==
  r.ns # "" \/ r.kind \in {"Namespace", "ClusterRole", "ClusterRoleBinding"}

IsValid(r) == IsSupportedResource(r) /\ HasNamespace(r)

\* What is wrong with one manifest: "retry" is an error that is returned as
\* it is, so that the reconciliation is tried again.
ManifestFault(r) ==
  IF ~r.parsed THEN "retry" ELSE IF ~IsValid(r) THEN "misconfigured" ELSE "none"

\* Without a fault in any of them, manifests become a list without doubles.
BulkConvertToResourceSet(manifests) == FoldLeft(Add, <<>>, manifests)
=============================================================================
