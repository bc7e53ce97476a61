------------------------------ MODULE MCBundling ------------------------------
(***************************************************************************)
(* A stock of resources around two workloads, and drafts of manifests with *)
(* all kinds of annotations, for TLC.                                      *)
(***************************************************************************)
EXTENDS BundlingProperties, TLC

CONSTANTS MaxResources,        \* bound: resources in a manifest of each start
          MaxResourcesVariant  \* the same for the manifests of other annotations

Apps == <<"apps", "v1">>
Core == <<"", "v1">>
Rbac == <<"rbac.authorization.k8s.io", "v1">>
Net  == <<"networking.k8s.io", "v1">>

Res(api, kind, name, ns) ==
  [api |-> api, kind |-> kind, name |-> name, ns |-> ns, parsed |-> TRUE, sound |-> TRUE,
   unread |-> {}]

Pods(labels, refs, account, calls) ==
  [labels |-> labels, refs |-> refs, account |-> account, calls |-> calls]

Label(v) == <<"app", v>>
Tier    == <<"tier", "front">>

Web == Res(Apps, "Deployment", "web", "default")
         @@ Pods({Label("web"), Tier}, {<<"cfg", "ConfigMap">>}, "bot", {<<"db", 5432>>})
Db  == Res(Apps, "StatefulSet", "db", "default")
         @@ Pods({Label("db"), Tier}, {<<"cfg", "ConfigMap">>, <<"data", "PersistentVolumeClaim">>}, "", {})
         @@ [service |-> "db"]
LabJob == [Res(<<"batch", "v1">>, "Job", "web", "lab") EXCEPT !.unread = {<<"key", "Secret">>}]
         @@ Pods({Label("web")}, {<<"cfg", "ConfigMap">>}, "", {})
Deaf == Res(Apps, "Deployment", "deaf", "default")
         @@ Pods({}, {}, "", {<<"db", TooBig>>})

Service(name, selector, own) ==
  Res(Core, "Service", name, "default") @@ [selector |-> selector, own |-> own]
Binding(kind, name, ns, role, builtin) ==
  Res(Rbac, kind, name, ns)
    @@ [subjects |-> {<<"ServiceAccount", "bot", "default">>}, role |-> role, builtin |-> builtin]
Monitor(name, labels, expressions) ==
  Res(<<"monitoring.coreos.com", "v1">>, "ServiceMonitor", name, "default")
    @@ [labels |-> labels, expressions |-> expressions]
Ingress(name, http) ==
  Res(Net, "Ingress", name, "default") @@ [backends |-> {"web"}, http |-> http]

MCStock ==
  <<Web, Db, LabJob, Deaf,
    Service("web", {Label("web")}, {Label("web")}),
    Service("db", {Label("db")}, {Label("db")}),
    Service("bare", {Label("db")}, {}),
    Service("db", {}, {}),
    Service("front", {Label("web"), Tier}, {Label("web"), Tier}),
    Res(Core, "ConfigMap", "cfg", "default"),
    Res(Core, "ConfigMap", "cfg", "lab"),
    Res(Core, "Namespace", "lab", ""),
    Res(Core, "Namespace", "default", ""),
    Res(Core, "ServiceAccount", "bot", "default"),
    Binding("RoleBinding", "read", "default", <<"reader", "Role">>, FALSE),
    Binding("ClusterRoleBinding", "auth", "", <<"system:auth", "ClusterRole">>, TRUE),
    Res(Rbac, "Role", "reader", "default"),
    Res(Rbac, "ClusterRole", "system:auth", ""),
    Ingress("in", TRUE),
    Ingress("raw", FALSE),
    Res(<<"route.openshift.io", "v1">>, "Route", "out", "default")
      @@ [to |-> <<"db", "Service">>],
    Monitor("watch", {Label("web")}, {}),
    Monitor("peek", {}, {[key |-> "app", values |-> {"db", "dc"}]}),
    Res(<<"autoscaling", "v2">>, "HorizontalPodAutoscaler", "web", "default")
      @@ [target |-> <<"Deployment", "web", Apps>>],
    Res(Net, "NetworkPolicy", "shut", "default") @@ [selects |-> {Label("web")}],
    [Service("loose", {}, {}) EXCEPT !.sound = FALSE],
    Res(Core, "Secret", "key", "lab"),
    Res(Apps, "ReplicaSet", "old", "default"),
    Res(Core, "PersistentVolume", "disk", "default"),
    [Res(Core, "Secret", "torn", "default") EXCEPT !.parsed = FALSE]>>

-----------------------------------------------------------------------------
Set  == <<TargetClusterSetKey, "edge">>
At   == <<TargetClusterKey, "k1">>
Gpu  == <<"p2code.filter.gpu", "yes">>
Disk == <<"p2code.filter.disk", "ssd">>
NoValue == <<"p2code.filter.gpu">>

MCFilterKeys == {"p2code.filter.gpu", "p2code.filter.disk"}

For(name, as) == [name |-> name, annotations |-> as]

Globals == {<<Set>>, <<Set, Gpu>>, <<Set, At>>, <<Set, NoValue>>, <<At>>, <<Set, <<"owner", "me">>>>,
            <<Set, <<TargetClusterKey>>>>, <<Set, NoValue, At>>}
Entries == {<<>>, <<For("web", <<Disk>>)>>, <<For("web", <<Disk, Gpu>>), For("db", <<Gpu>>)>>,
            <<For("web", <<Disk>>), For("web", <<Gpu>>)>>, <<For("web", <<NoValue>>)>>,
            <<For("web", <<At>>)>>, <<For("ghost", <<Gpu>>)>>}

Draft(resources, global, perWorkload, max) ==
  [manifest |-> [name |-> Name, manifests |-> resources, global |-> global,
                 perWorkload |-> perWorkload],
   limit |-> max]

MCDrafts ==
  {Draft(<<Web>>, <<Set>>, <<For("web", <<Disk>>)>>, MaxResources),
   Draft(<<Db>>, <<Set, Gpu>>, <<For("db", <<Disk>>)>>, MaxResources)}
  \cup {Draft(<<Web>>, g, e, MaxResourcesVariant) : g \in Globals, e \in Entries}
=============================================================================
