------------------------------- MODULE Analysis -------------------------------
(***************************************************************************)
(* What a workload needs of the other resources in its manifest,           *)
(* analyse.go.  The order in which resources are found does not matter to  *)
(* anyone, so what is a list in the code is a set here; the list in which  *)
(* they are looked up is kept, as the first of a name is taken.            *)
(*                                                                         *)
(* Fields by kind: a workload has [labels, refs, account, calls], those of *)
(* its pod template: labels, references to Secrets, ConfigMaps and volume  *)
(* claims as <<name, kind>>, its service account ("" for none) and the     *)
(* service:port pairs in its environment; a StatefulSet also has the name  *)
(* of its service.  A Service has its selector; an Ingress the services    *)
(* behind it and whether all its rules are for HTTP; a Route its target; a *)
(* ServiceMonitor its labels and its "In" expressions; an autoscaler its   *)
(* target; a binding its subjects and its role.  Labels are pairs.         *)
(***************************************************************************)
EXTENDS Resources

CONSTANT TooBig      \* a port that strconv.Atoi refuses

PodKinds == {"Pod", "Deployment", "StatefulSet", "DaemonSet", "Job", "CronJob"}

\* Looks references up: those that are there, and those that are not.
LookUp(refs, anc) ==
  [resources |-> UNION {Find(anc, ref[1], ref[2]) : ref \in refs},
   absent    |-> {ref \in refs : Find(anc, ref[1], ref[2]) = {}}]

Nothing == [resources |-> {}, absent |-> {}]
Merge(found1, found2) ==
  [resources |-> found1.resources \cup found2.resources,
   absent    |-> found1.absent \cup found2.absent]

-----------------------------------------------------------------------------
\* The pod template.

Bindings(anc) ==
  FilterByKind(anc, "ClusterRoleBinding") \cup FilterByKind(anc, "RoleBinding")

\* A role whose name begins with "system:" is expected on the cluster.  A
\* binding to any other role that is not in the manifest is left out with it.
AnalyseServiceAccount(account, anc) ==
  LET bound == {b \in Bindings(anc) :
                  <<"ServiceAccount", account.name, account.ns>> \in b.subjects}
      roles == LookUp({b.role : b \in {x \in bound : ~x.builtin}}, anc)
  IN  [resources |-> roles.resources \cup {b \in bound : b.builtin \/ b.role \notin roles.absent},
       absent    |-> roles.absent]

AccountOf(w, anc) == Find(anc, w.account, "ServiceAccount")

\* ("" names no account.)
AnalyseAccounts(w, anc) ==
  LET found == LookUp({<<w.account, "ServiceAccount">>}, anc)
  IN  IF w.account = "" THEN Nothing
      ELSE IF found.resources = {} THEN found
      ELSE Merge(found, AnalyseServiceAccount(CHOOSE a \in found.resources : TRUE, anc))

AnalysePodSpec(w, anc) == Merge(LookUp(w.refs, anc), AnalyseAccounts(w, anc))

-----------------------------------------------------------------------------
\* Services, and what leads to them or watches them.

Wrong_Matched(svc, w) ==
  {p \in svc.selector : \E l \in w.labels : l[1] = p[1]}

\* One pair of the selector among the labels of the pod is enough.
Matched(svc, w) == svc.selector \cap w.labels

SelectedBy(w, anc) == {s \in FilterByKind(anc, "Service") : Matched(s, w) # {}}

Wrong_ExternalAccess(svc, anc) ==
  {g \in FilterByKind(anc, "Ingress") : svc.name \in g.backends}

ExternalAccess(svc, anc) ==
  {g \in FilterByKind(anc, "Ingress") : svc.name \in g.backends}
  \cup {g \in FilterByKind(anc, "Route") : g.to = <<svc.name, "Service">>}

\* A monitor is matched by one of the selector's pairs, in its labels or in
\* one of its expressions; the labels of the service itself are not read.
Monitors(pairs, anc) ==
  {m \in FilterByKind(anc, "ServiceMonitor") :
     \/ m.labels \cap pairs # {}
     \/ \E e \in m.expressions, p \in pairs : e.key = p[1] /\ p[2] \in e.values}

ServiceOfSet(w, anc) ==
  IF w.kind = "StatefulSet" THEN LookUp({<<w.service, "Service">>}, anc) ELSE Nothing

ExtractNetworkResources(w, anc) ==
  LET selected == SelectedBy(w, anc)
  IN  Merge(ServiceOfSet(w, anc),
        [resources |-> selected \cup UNION {ExternalAccess(s, anc)
                           \cup Monitors(Matched(s, w), anc) : s \in selected},
         absent    |-> {}])

FindHPADefinition(w, anc) ==
  {h \in FilterByKind(anc, "HorizontalPodAutoscaler") :
     h.target = <<w.kind, w.name, w.api>>}

-----------------------------------------------------------------------------

\* The namespace "default" is everywhere; any other has to be in the manifest.
NamespaceOf(w, anc) ==
  IF w.ns = "default" THEN {} ELSE Find(anc, w.ns, "Namespace")

AnalyseWorkload(w, anc) ==
  Merge([resources |-> NamespaceOf(w, anc) \cup FindHPADefinition(w, anc),
         absent    |-> {}],
        Merge(AnalysePodSpec(w, anc), ExtractNetworkResources(w, anc)))

\* A resource that does not fit its type, or an Ingress rule that is not for
\* HTTP, ends the analysis where it is read: services and autoscalers always,
\* bindings for an account, the others for a service.
Unsound(anc, kinds) == \E r \in ToSet(anc) : r.kind \in kinds /\ ~r.sound

AnalysisFault(w, anc) ==
  IF \/ w.ns # "default" /\ NamespaceOf(w, anc) = {}
     \/ w.kind \notin PodKinds
     \/ ~w.sound
     \/ \E call \in w.calls : call[2] = TooBig
     \/ Unsound(anc, {"Service", "HorizontalPodAutoscaler"})
     \/ /\ w.account # "" /\ AccountOf(w, anc) # {}
        /\ Unsound(anc, {"ClusterRoleBinding", "RoleBinding"})
     \/ /\ SelectedBy(w, anc) # {}
        /\ \/ Unsound(anc, {"Ingress", "Route", "ServiceMonitor"})
           \/ \E g \in FilterByKind(anc, "Ingress") : ~g.http
  THEN "retry" ELSE "none"
=============================================================================
