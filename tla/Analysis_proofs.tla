---------------------------- MODULE Analysis_proofs ----------------------------
(***************************************************************************)
(* What a workload needs is what is found for it: the proof, for every     *)
(* manifest in which a kind and a name tell a resource, and which has no   *)
(* references but those analyse.go reads.                                  *)
(*                                                                         *)
(* What the analysis finds is first said without look-ups, loops and lists *)
(* (Reached).  All that is Reached from a workload, less the services that *)
(* match it by a part of their selectors, is a complete set; so nothing    *)
(* the workload needs is missing.  And where that part does not occur,     *)
(* every complete set has all that is Reached; so nothing is superfluous.  *)
(***************************************************************************)
EXTENDS Bundling_proofs

-----------------------------------------------------------------------------
\* What a workload's analysis finds, where a kind and a name tell a resource and
\* every role that is bound is at hand.

Setting ==
  /\ IsManifest(manifest) /\ Unambiguous /\ Conventional /\ ReferencesRead
  /\ \A r \in Given : HasNamespace(r) /\ (IsWorkload(r) => r.kind \in PodKinds)

Lookable == {r \in Given : ~IsWorkload(r)}

\* A binding of the account of w, and the account itself.
IsAccount(a, w) == a \in Lookable /\ a.kind = "ServiceAccount" /\ a.name = w.account
IsBound(b, w) ==
  /\ b \in Lookable /\ b.kind \in {"RoleBinding", "ClusterRoleBinding"}
  /\ \E a \in Lookable : IsAccount(a, w) /\ <<"ServiceAccount", a.name, a.ns>> \in b.subjects

LEMMA SettingLists ==
  ASSUME Setting
  PROVE  LET anc == Ancillaries(manifest)
         IN  /\ \A name, kind : Find(anc, name, kind)
                                  = {r \in Lookable : r.kind = kind /\ r.name = name}
             /\ \A kind : FilterByKind(anc, kind) = {r \in Lookable : r.kind = kind}
             /\ \A r \in Given : r.kind \notin PodKinds => r \in Lookable
             /\ \A r \in Given : IsResource(r)
<1> DEFINE anc == Ancillaries(manifest)
<1>1. IsManifest(manifest) /\ Told(Resource(manifest)) /\ Given = Resource(manifest)
  BY DEF Setting, Told, Unambiguous, Given, Resource
<1>2. \A name, kind : Find(anc, name, kind) = {r \in Lookable : r.kind = kind /\ r.name = name}
  <2> TAKE name, kind
  <2> DEFINE fits == {r \in Resource(manifest) : ~IsWorkload(r) /\ r.kind = kind /\ r.name = name}
  <2>1. Find(anc, name, kind) = fits
    BY <1>1, Looked
  <2>2. fits = {r \in Lookable : r.kind = kind /\ r.name = name}
    BY <1>1 DEF Lookable
  <2> HIDE DEF fits
  <2> QED BY <2>1, <2>2
<1>3. ToSet(anc) = Lookable
  BY <1>1, ListsAre, KeptAll DEF Lookable
<1>4. \A kind : FilterByKind(anc, kind) = {r \in Lookable : r.kind = kind}
  BY <1>3 DEF FilterByKind
<1>5. \A r \in Given : r.kind \notin PodKinds => r \in Lookable
  BY DEF Setting, Lookable
<1>6. \A r \in Given : IsResource(r)
  BY <1>1 DEF IsManifest, Given
<1> QED BY <1>2, <1>4, <1>5, <1>6

LEMMA LookUpIs ==
  ASSUME Setting, NEW refs
  PROVE  LET found == LookUp(refs, Ancillaries(manifest))
         IN  /\ found.resources = {r \in Lookable : \E ref \in refs : r.kind = ref[2] /\ r.name = ref[1]}
             /\ found.absent = {ref \in refs : \A r \in Lookable : ~(r.kind = ref[2] /\ r.name = ref[1])}
<1> DEFINE anc == Ancillaries(manifest)
           found == LookUp(refs, anc)
<1>1. \A name, kind : Find(anc, name, kind) = {r \in Lookable : r.kind = kind /\ r.name = name}
  BY SettingLists
<1>2. /\ found.resources = UNION {Find(anc, ref[1], ref[2]) : ref \in refs}
      /\ found.absent = {ref \in refs : Find(anc, ref[1], ref[2]) = {}}
  BY DEF LookUp
<1> HIDE DEF anc, found
<1>3. ASSUME NEW r \in found.resources
      PROVE  r \in Lookable /\ \E ref \in refs : r.kind = ref[2] /\ r.name = ref[1]
  <2>1. PICK ref \in refs : r \in Find(anc, ref[1], ref[2])
    BY <1>2
  <2> QED BY <1>1, <2>1
<1>4. ASSUME NEW r \in Lookable, NEW ref \in refs, r.kind = ref[2], r.name = ref[1]
      PROVE  r \in found.resources
  <2>1. r \in Find(anc, ref[1], ref[2])
    BY <1>1, <1>4
  <2> QED BY <1>2, <2>1
<1>5. ASSUME NEW ref \in refs
      PROVE  Find(anc, ref[1], ref[2]) = {}
               <=> \A r \in Lookable : ~(r.kind = ref[2] /\ r.name = ref[1])
  BY <1>1
<1>6. found.resources = {r \in Lookable : \E ref \in refs : r.kind = ref[2] /\ r.name = ref[1]}
  BY <1>3, <1>4
<1>7. found.absent = {ref \in refs : \A r \in Lookable : ~(r.kind = ref[2] /\ r.name = ref[1])}
  BY <1>2, <1>5
<1> QED BY <1>6, <1>7 DEF anc, found

\* The account, its bindings and their roles.
LEMMA AccountsAre ==
  ASSUME Setting, NEW w \in Given
  PROVE  LET found == AnalyseAccounts(w, Ancillaries(manifest))
         IN  /\ found.resources
                  = IF w.account = "" THEN {}
                    ELSE {r \in Lookable : \/ IsAccount(r, w) \/ IsBound(r, w)
                                           \/ \E b \in Lookable : IsBound(b, w)
                                                /\ b.role = <<r.name, r.kind>>}
             /\ found.absent
                  = IF w.account # "" /\ \A a \in Lookable : ~IsAccount(a, w)
                    THEN {<<w.account, "ServiceAccount">>} ELSE {}
<1> DEFINE anc == Ancillaries(manifest)
           first == LookUp({<<w.account, "ServiceAccount">>}, anc)
           account == CHOOSE a \in first.resources : TRUE
           found == AnalyseAccounts(w, anc)
<1>1. found = IF w.account = "" THEN Nothing
              ELSE IF first.resources = {} THEN first
              ELSE Merge(first, AnalyseServiceAccount(account, anc))
  BY DEF AnalyseAccounts
<1>2. /\ first.resources = {r \in Lookable : IsAccount(r, w)}
      /\ first.absent = IF \A a \in Lookable : ~IsAccount(a, w)
                        THEN {<<w.account, "ServiceAccount">>} ELSE {}
  <2> DEFINE ref == <<w.account, "ServiceAccount">>
  <2>1. ref[1] = w.account /\ ref[2] = "ServiceAccount"
    OBVIOUS
  <2> HIDE DEF ref
  <2>2. /\ first.resources = {r \in Lookable : \E x \in {ref} : r.kind = x[2] /\ r.name = x[1]}
        /\ first.absent = {x \in {ref} : \A r \in Lookable : ~(r.kind = x[2] /\ r.name = x[1])}
    <3> HIDE DEF anc
    <3> QED BY LookUpIs DEF ref, anc
  <2> HIDE DEF first
  <2>3. first.resources = {r \in Lookable : IsAccount(r, w)}
    BY <2>1, <2>2 DEF IsAccount
  <2>4. first.absent = IF \A a \in Lookable : ~IsAccount(a, w) THEN {ref} ELSE {}
    <3>1. CASE \A a \in Lookable : ~IsAccount(a, w)
      <4>1. \A r \in Lookable : ~(r.kind = ref[2] /\ r.name = ref[1])
        BY <2>1, <3>1 DEF IsAccount
      <4> QED BY <2>2, <3>1, <4>1
    <3>2. CASE ~ \A a \in Lookable : ~IsAccount(a, w)
      <4>1. ~ \A r \in Lookable : ~(r.kind = ref[2] /\ r.name = ref[1])
        BY <2>1, <3>2 DEF IsAccount
      <4> QED BY <2>2, <3>2, <4>1
    <3> QED BY <3>1, <3>2
  <2> QED BY <2>3, <2>4 DEF ref
<1> HIDE DEF first
<1>3. CASE w.account = ""
  <2>1. found = Nothing
    BY <1>1, <1>3
  <2> HIDE DEF found
  <2>2. found.resources = {} /\ found.absent = {}
    BY <2>1 DEF Nothing
  <2> QED BY <1>3, <2>2 DEF found
<1>4. CASE w.account # "" /\ first.resources = {}
  <2>1. found = first
    BY <1>1, <1>4
  <2>2. \A a \in Lookable : ~IsAccount(a, w)
    BY <1>2, <1>4
  <2>3. \A b \in Lookable : ~IsBound(b, w)
    BY <2>2 DEF IsBound
  <2>4. /\ {r \in Lookable : \/ IsAccount(r, w) \/ IsBound(r, w)
                               \/ \E b \in Lookable : IsBound(b, w)
                                    /\ b.role = <<r.name, r.kind>>} = {}
        /\ first.absent = {<<w.account, "ServiceAccount">>}
    BY <1>2, <2>2, <2>3
  <2> HIDE DEF found
  <2> QED BY <1>4, <2>1, <2>2, <2>4 DEF found
<1>5. CASE w.account # "" /\ first.resources # {}
  <2>1. IsAccount(account, w) /\ account \in Lookable
    BY <1>2, <1>5
  <2>2. \A a \in Lookable : IsAccount(a, w) => a = account
    BY <2>1 DEF IsAccount, Lookable, Setting, Unambiguous
  <2> DEFINE bound == {b \in Bindings(anc) : <<"ServiceAccount", account.name, account.ns>> \in b.subjects}
             refs == {b.role : b \in {x \in bound : ~x.builtin}}
             roles == LookUp(refs, anc)
             second == AnalyseServiceAccount(account, anc)
  <2>3. found = Merge(first, second)
    BY <1>1, <1>5
  <2> HIDE DEF account, found
  <2>4. bound = {b \in Lookable : IsBound(b, w)}
    <3>1. Bindings(anc) = {b \in Lookable : b.kind \in {"RoleBinding", "ClusterRoleBinding"}}
      BY SettingLists DEF Bindings
    <3>2. \A b \in Lookable :
            IsBound(b, w) <=> b \in Bindings(anc)
                              /\ <<"ServiceAccount", account.name, account.ns>> \in b.subjects
      BY <2>1, <2>2, <3>1 DEF IsBound
    <3> QED BY <3>1, <3>2
  <2>5. /\ second.resources = roles.resources \cup {b \in bound : b.builtin \/ b.role \notin roles.absent}
        /\ second.absent = roles.absent
    BY DEF AnalyseServiceAccount
  <2> HIDE DEF bound, second
  <2>6. /\ roles.resources = {r \in Lookable : \E ref \in refs : r.kind = ref[2] /\ r.name = ref[1]}
        /\ roles.absent = {ref \in refs : \A r \in Lookable : ~(r.kind = ref[2] /\ r.name = ref[1])}
    <3> HIDE DEF refs
    <3> QED BY LookUpIs
  <2> HIDE DEF roles
  <2>7. ASSUME NEW b \in bound
        PROVE  /\ b.role[2] \in {"Role", "ClusterRole"} /\ b.role = <<b.role[1], b.role[2]>>
               /\ b.builtin <=> \A y \in Given : b.role # <<y.name, y.kind>>
    <3>1. b \in Given /\ b.kind \in {"RoleBinding", "ClusterRoleBinding"} /\ IsResource(b)
      BY <2>4, SettingLists DEF IsBound, Lookable
    <3>2. b.builtin <=> \A y \in Given : b.role # <<y.name, y.kind>>
      BY <3>1 DEF Setting, Conventional
    <3>3. b.role[2] \in {"Role", "ClusterRole"} /\ b.role = <<b.role[1], b.role[2]>>
      <4>1. CASE b.kind = "RoleBinding"
        BY <3>1, <4>1 DEF IsResource
      <4>2. CASE b.kind = "ClusterRoleBinding"
        <5>1. b.role = <<b.role[1], "ClusterRole">>
          BY <3>1, <4>2 DEF IsResource
        <5>2. b.role[2] = "ClusterRole"
          BY <5>1
        <5> QED BY <5>1, <5>2
      <4> QED BY <3>1, <4>1, <4>2
    <3> QED BY <3>2, <3>3
  <2>8. ASSUME NEW b \in bound, NEW r \in Given
        PROVE  b.role = <<r.name, r.kind>>
                 <=> /\ ~b.builtin /\ r.kind = b.role[2] /\ r.name = b.role[1]
                     /\ r \in Lookable
    <3>1. r.kind \in {"Role", "ClusterRole"} => r \in Lookable
      <4>1. "Role" \notin PodKinds /\ "ClusterRole" \notin PodKinds
        BY DEF PodKinds
      <4> QED BY <4>1, SettingLists
    <3>2. ASSUME b.role = <<r.name, r.kind>>
          PROVE  /\ ~b.builtin /\ r.kind = b.role[2] /\ r.name = b.role[1]
                 /\ r \in Lookable
      <4>1. r.kind = b.role[2] /\ r.name = b.role[1]
        BY <3>2
      <4> QED BY <2>7, <3>1, <3>2, <4>1
    <3>3. r.kind = b.role[2] /\ r.name = b.role[1] => b.role = <<r.name, r.kind>>
      BY <2>7
    <3> QED BY <3>2, <3>3
  <2>9. \A b \in bound : ~b.builtin => b.role \in refs /\ b.role \notin roles.absent
    <3> SUFFICES ASSUME NEW b \in bound, ~b.builtin PROVE b.role \in refs /\ b.role \notin roles.absent
      OBVIOUS
    <3>1. PICK y \in Given : b.role = <<y.name, y.kind>>
      BY <2>7
    <3>2. y \in Lookable /\ y.kind = b.role[2] /\ y.name = b.role[1]
      BY <2>8, <3>1
    <3> QED BY <2>6, <3>2
  <2>10. roles.absent = {}
    BY <2>6, <2>9
  <2>11. roles.resources = {r \in Lookable : \E b \in Lookable : IsBound(b, w)
                                               /\ b.role = <<r.name, r.kind>>}
    <3>1. ASSUME NEW r \in Lookable
          PROVE  (\E ref \in refs : r.kind = ref[2] /\ r.name = ref[1])
                   <=> \E b \in bound : b.role = <<r.name, r.kind>>
      <4>1. r \in Given
        BY DEF Lookable
      <4>2. ASSUME NEW ref \in refs, r.kind = ref[2] /\ r.name = ref[1]
            PROVE  \E b \in bound : b.role = <<r.name, r.kind>>
        <5>1. PICK b \in bound : ~b.builtin /\ ref = b.role
          OBVIOUS
        <5> QED BY <2>7, <4>2, <5>1
      <4>3. ASSUME NEW b \in bound, b.role = <<r.name, r.kind>>
            PROVE  \E ref \in refs : r.kind = ref[2] /\ r.name = ref[1]
        <5>1. ~b.builtin /\ r.kind = b.role[2] /\ r.name = b.role[1]
          BY <2>8, <4>1, <4>3
        <5>2. b.role \in refs
          BY <5>1
        <5> QED BY <5>1, <5>2
      <4> HIDE DEF refs, bound
      <4> QED BY <4>2, <4>3
    <3>2. roles.resources = {r \in Lookable : \E b \in bound : b.role = <<r.name, r.kind>>}
      <4> HIDE DEF refs, bound
      <4> QED BY <2>6, <3>1
    <3>3. \A r \in Lookable : (\E b \in bound : b.role = <<r.name, r.kind>>)
             <=> \E b \in Lookable : IsBound(b, w) /\ b.role = <<r.name, r.kind>>
      BY <2>4
    <3> QED BY <3>2, <3>3
  <2>12. second.resources = roles.resources \cup bound
    BY <2>5, <2>10
  <2>13. found.resources = first.resources \cup second.resources
         /\ found.absent = first.absent \cup second.absent
    BY <2>3 DEF Merge
  <2>14. ~ \A a \in Lookable : ~IsAccount(a, w)
    BY <2>1
  <2> QED BY <1>2, <1>5, <2>4, <2>5, <2>10, <2>11, <2>12, <2>13, <2>14 DEF found
<1> HIDE DEF found
<1> QED BY <1>3, <1>4, <1>5 DEF found

\* What leads to a service that the workload's labels match, or watches it.
Leads(r, s, w) ==
  \/ r.kind = "Ingress" /\ s.name \in r.backends
  \/ r.kind = "Route" /\ r.to = <<s.name, "Service">>
  \/ /\ r.kind = "ServiceMonitor"
     /\ \/ r.labels \cap Matched(s, w) # {}
        \/ \E e \in r.expressions, p \in Matched(s, w) : e.key = p[1] /\ p[2] \in e.values

Reached(r, w) ==
  \/ w.ns # "default" /\ r.kind = "Namespace" /\ r.name = w.ns
  \/ r.kind = "HorizontalPodAutoscaler" /\ r.target = <<w.kind, w.name, w.api>>
  \/ <<r.name, r.kind>> \in w.refs
  \/ /\ w.account # ""
     /\ \/ IsAccount(r, w) \/ IsBound(r, w)
        \/ \E b \in Lookable : IsBound(b, w) /\ b.role = <<r.name, r.kind>>
  \/ w.kind = "StatefulSet" /\ r.kind = "Service" /\ r.name = w.service
  \/ r.kind = "Service" /\ Matched(r, w) # {}
  \/ \E s \in Lookable : s.kind = "Service" /\ Matched(s, w) # {} /\ Leads(r, s, w)

LEMMA ReferredAre ==
  ASSUME Setting, NEW w \in Given, IsWorkload(w)
  PROVE  LET found == LookUp(w.refs, Ancillaries(manifest))
         IN  /\ found.resources = {r \in Lookable : <<r.name, r.kind>> \in w.refs}
             /\ found.absent = w.refs \ {<<y.name, y.kind>> : y \in Given}
<1> DEFINE found == LookUp(w.refs, Ancillaries(manifest))
<1>1. /\ found.resources = {r \in Lookable : \E ref \in w.refs : r.kind = ref[2] /\ r.name = ref[1]}
      /\ found.absent = {ref \in w.refs : \A r \in Lookable : ~(r.kind = ref[2] /\ r.name = ref[1])}
  BY LookUpIs
<1>2. \A ref \in w.refs : ref = <<ref[1], ref[2]>>
                          /\ ref[2] \in {"Secret", "ConfigMap", "PersistentVolumeClaim"}
  <2>1. /\ w.refs \subseteq {<<ref[1], ref[2]>> : ref \in w.refs}
        /\ \A ref \in w.refs : ref[2] \in {"Secret", "ConfigMap", "PersistentVolumeClaim"}
    <3>1. IsResource(w) /\ w.kind \in PodKinds
      BY SettingLists DEF Setting
    <3> QED BY <3>1 DEF IsResource
  <2>2. ASSUME NEW ref \in w.refs PROVE ref = <<ref[1], ref[2]>>
    <3>1. PICK q \in w.refs : ref = <<q[1], q[2]>>
      BY <2>1
    <3>2. ref[1] = q[1] /\ ref[2] = q[2]
      BY <3>1
    <3> QED BY <3>1, <3>2
  <2> QED BY <2>1, <2>2
<1> HIDE DEF found
<1>3. \A ref \in w.refs : \A r : (r.kind = ref[2] /\ r.name = ref[1]) <=> <<r.name, r.kind>> = ref
  <2> SUFFICES ASSUME NEW ref \in w.refs, NEW r
               PROVE  (r.kind = ref[2] /\ r.name = ref[1]) <=> <<r.name, r.kind>> = ref
    OBVIOUS
  <2>1. ref = <<ref[1], ref[2]>>
    BY <1>2
  <2> QED BY <2>1
<1>4. found.resources = {r \in Lookable : <<r.name, r.kind>> \in w.refs}
  BY <1>1, <1>3
<1>5. ASSUME NEW ref \in w.refs, NEW y \in Given, <<y.name, y.kind>> = ref
      PROVE  y \in Lookable
  <2>1. y.kind = ref[2] /\ ref[2] \in {"Secret", "ConfigMap", "PersistentVolumeClaim"}
    BY <1>2, <1>3, <1>5
  <2>2. y.kind \notin PodKinds
    BY <2>1 DEF PodKinds
  <2> QED BY <2>2, SettingLists
<1>6. \A ref \in w.refs : ref \in found.absent <=> \A y \in Given : <<y.name, y.kind>> # ref
  BY <1>1, <1>3, <1>5 DEF Lookable
<1>7. found.absent \subseteq w.refs
  BY <1>1
<1>8. found.absent = w.refs \ {<<y.name, y.kind>> : y \in Given}
  BY <1>6, <1>7
<1> QED BY <1>4, <1>8 DEF found

LEMMA NetworkIs ==
  ASSUME Setting, NEW w \in Given
  PROVE  LET found == ExtractNetworkResources(w, Ancillaries(manifest))
         IN  /\ found.resources
                  = {r \in Lookable :
                       \/ w.kind = "StatefulSet" /\ r.kind = "Service" /\ r.name = w.service
                       \/ r.kind = "Service" /\ Matched(r, w) # {}
                       \/ \E s \in Lookable :
                            s.kind = "Service" /\ Matched(s, w) # {} /\ Leads(r, s, w)}
             /\ found.absent
                  = IF w.kind = "StatefulSet"
                    THEN {<<w.service, "Service">>} \ {<<y.name, y.kind>> : y \in Given}
                    ELSE {}
<1> DEFINE anc == Ancillaries(manifest)
           own == ServiceOfSet(w, anc)
           selected == SelectedBy(w, anc)
           through(s) == ExternalAccess(s, anc) \cup Monitors(Matched(s, w), anc)
           found == ExtractNetworkResources(w, anc)
<1>1. /\ found.resources = own.resources \cup selected \cup UNION {through(s) : s \in selected}
      /\ found.absent = own.absent
  BY DEF ExtractNetworkResources, Merge
<1>2. selected = {s \in Lookable : s.kind = "Service" /\ Matched(s, w) # {}}
  <2>1. FilterByKind(anc, "Service") = {r \in Lookable : r.kind = "Service"}
    BY SettingLists
  <2> QED BY <2>1 DEF SelectedBy
<1>3. \A s : through(s) = {r \in Lookable : Leads(r, s, w)}
  <2> TAKE s
  <2>1. \A kind : FilterByKind(anc, kind) = {r \in Lookable : r.kind = kind}
    BY SettingLists
  <2>2. ExternalAccess(s, anc)
          = {r \in Lookable : \/ r.kind = "Ingress" /\ s.name \in r.backends
                              \/ r.kind = "Route" /\ r.to = <<s.name, "Service">>}
    BY <2>1 DEF ExternalAccess
  <2> DEFINE pairs == Matched(s, w)
  <2> HIDE DEF pairs
  <2>3. Monitors(pairs, anc)
          = {r \in Lookable : r.kind = "ServiceMonitor" /\
               \/ r.labels \cap pairs # {}
               \/ \E e \in r.expressions, p \in pairs : e.key = p[1] /\ p[2] \in e.values}
    BY <2>1 DEF Monitors
  <2>4. \A r : Leads(r, s, w) <=>
           \/ r.kind = "Ingress" /\ s.name \in r.backends
           \/ r.kind = "Route" /\ r.to = <<s.name, "Service">>
           \/ r.kind = "ServiceMonitor" /\
               (\/ r.labels \cap pairs # {}
                \/ \E e \in r.expressions, p \in pairs : e.key = p[1] /\ p[2] \in e.values)
    BY DEF Leads, pairs
  <2> QED BY <2>2, <2>3, <2>4 DEF pairs
<1>4. /\ own.resources = {r \in Lookable : w.kind = "StatefulSet" /\ r.kind = "Service" /\ r.name = w.service}
      /\ own.absent = IF w.kind = "StatefulSet"
                      THEN {<<w.service, "Service">>} \ {<<y.name, y.kind>> : y \in Given}
                      ELSE {}
  <2>1. CASE w.kind # "StatefulSet"
    <3>1. own = Nothing
      BY <2>1 DEF ServiceOfSet
    <3> HIDE DEF own
    <3>2. own.resources = {} /\ own.absent = {}
      BY <3>1 DEF Nothing
    <3> QED BY <2>1, <3>2
  <2>2. CASE w.kind = "StatefulSet"
    <3> DEFINE ref == <<w.service, "Service">>
               look == LookUp({ref}, anc)
    <3>1. own = look
      BY <2>2 DEF ServiceOfSet
    <3>2. ref[1] = w.service /\ ref[2] = "Service"
          /\ \A r : <<r.name, r.kind>> = ref <=> r.kind = "Service" /\ r.name = w.service
      OBVIOUS
    <3> HIDE DEF ref, own
    <3>3. /\ look.resources = {r \in Lookable : \E x \in {ref} : r.kind = x[2] /\ r.name = x[1]}
          /\ look.absent = {x \in {ref} : \A r \in Lookable : ~(r.kind = x[2] /\ r.name = x[1])}
      BY LookUpIs
    <3> HIDE DEF look
    <3>4. look.resources = {r \in Lookable : r.kind = "Service" /\ r.name = w.service}
      BY <3>2, <3>3
    <3>5. \A y \in Given : y.kind = "Service" => y \in Lookable
      BY SettingLists DEF PodKinds
    <3>6. look.absent = {ref} \ {<<y.name, y.kind>> : y \in Given}
      <4>1. (\A r \in Lookable : ~(r.kind = ref[2] /\ r.name = ref[1]))
              <=> \A y \in Given : <<y.name, y.kind>> # ref
        BY <3>2, <3>5 DEF Lookable
      <4> QED BY <3>3, <4>1
    <3> QED BY <2>2, <3>1, <3>4, <3>6 DEF ref
  <2> QED BY <2>1, <2>2
<1> HIDE DEF own, selected, through, found
<1>5. UNION {through(s) : s \in selected}
        = {r \in Lookable : \E s \in Lookable :
             s.kind = "Service" /\ Matched(s, w) # {} /\ Leads(r, s, w)}
  <2>1. ASSUME NEW r \in UNION {through(s) : s \in selected}
        PROVE  r \in Lookable /\ \E s \in Lookable :
                  s.kind = "Service" /\ Matched(s, w) # {} /\ Leads(r, s, w)
    <3>1. PICK s \in selected : r \in through(s)
      BY <2>1
    <3> QED BY <1>2, <1>3, <3>1
  <2>2. ASSUME NEW r \in Lookable, NEW s \in Lookable, s.kind = "Service", Matched(s, w) # {},
               Leads(r, s, w)
        PROVE  r \in UNION {through(x) : x \in selected}
    <3>1. s \in selected /\ r \in through(s)
      BY <1>2, <1>3, <2>2
    <3> QED BY <3>1
  <2> QED BY <2>1, <2>2
<1>6. found.resources
        = {r \in Lookable :
             \/ w.kind = "StatefulSet" /\ r.kind = "Service" /\ r.name = w.service
             \/ r.kind = "Service" /\ Matched(r, w) # {}
             \/ \E s \in Lookable :
                  s.kind = "Service" /\ Matched(s, w) # {} /\ Leads(r, s, w)}
  BY <1>1, <1>2, <1>4, <1>5
<1> QED BY <1>1, <1>4, <1>6 DEF found

LEMMA AnalysedAre ==
  ASSUME Setting, NEW w \in Given, IsWorkload(w)
  PROVE  LET found == AnalyseWorkload(w, Ancillaries(manifest))
         IN  /\ found.resources = {r \in Lookable : Reached(r, w)}
             /\ found.absent = Named(w) \ {<<y.name, y.kind>> : y \in Given}
<1> DEFINE anc == Ancillaries(manifest)
           referred == LookUp(w.refs, anc)
           accounts == AnalyseAccounts(w, anc)
           network == ExtractNetworkResources(w, anc)
           namespace == NamespaceOf(w, anc)
           scalers == FindHPADefinition(w, anc)
           found == AnalyseWorkload(w, anc)
           names == {<<y.name, y.kind>> : y \in Given}
<1>1. /\ found.resources = namespace \cup scalers \cup referred.resources
                             \cup accounts.resources \cup network.resources
      /\ found.absent = referred.absent \cup accounts.absent \cup network.absent
  BY DEF AnalyseWorkload, AnalysePodSpec, Merge
<1>2. namespace = {r \in Lookable : w.ns # "default" /\ r.kind = "Namespace" /\ r.name = w.ns}
  <2>1. Find(anc, w.ns, "Namespace") = {r \in Lookable : r.kind = "Namespace" /\ r.name = w.ns}
    BY SettingLists
  <2> QED BY <2>1 DEF NamespaceOf
<1>3. scalers = {r \in Lookable : r.kind = "HorizontalPodAutoscaler"
                                  /\ r.target = <<w.kind, w.name, w.api>>}
  <2>1. FilterByKind(anc, "HorizontalPodAutoscaler")
          = {r \in Lookable : r.kind = "HorizontalPodAutoscaler"}
    BY SettingLists
  <2> QED BY <2>1 DEF FindHPADefinition
<1>4. /\ referred.resources = {r \in Lookable : <<r.name, r.kind>> \in w.refs}
      /\ referred.absent = w.refs \ names
  BY ReferredAre
<1>5. /\ accounts.resources
           = IF w.account = "" THEN {}
             ELSE {r \in Lookable : \/ IsAccount(r, w) \/ IsBound(r, w)
                                    \/ \E b \in Lookable : IsBound(b, w)
                                         /\ b.role = <<r.name, r.kind>>}
      /\ accounts.absent
           = IF w.account # "" /\ \A a \in Lookable : ~IsAccount(a, w)
             THEN {<<w.account, "ServiceAccount">>} ELSE {}
  BY AccountsAre
<1>6. /\ network.resources
           = {r \in Lookable :
                \/ w.kind = "StatefulSet" /\ r.kind = "Service" /\ r.name = w.service
                \/ r.kind = "Service" /\ Matched(r, w) # {}
                \/ \E s \in Lookable :
                     s.kind = "Service" /\ Matched(s, w) # {} /\ Leads(r, s, w)}
      /\ network.absent
           = IF w.kind = "StatefulSet" THEN {<<w.service, "Service">>} \ names ELSE {}
  BY NetworkIs
<1> HIDE DEF namespace, scalers, referred, accounts, network, found
<1>7. found.resources = {r \in Lookable : Reached(r, w)}
  BY <1>1, <1>2, <1>3, <1>4, <1>5, <1>6 DEF Reached
<1>8. accounts.absent = (IF w.account = "" THEN {} ELSE {<<w.account, "ServiceAccount">>}) \ names
  <2>1. (\A a \in Lookable : ~IsAccount(a, w)) <=> <<w.account, "ServiceAccount">> \notin names
    <3>1. \A y \in Given : y.kind = "ServiceAccount" => y \in Lookable
      BY SettingLists DEF PodKinds
    <3>2. \A y \in Given : <<y.name, y.kind>> = <<w.account, "ServiceAccount">> <=> IsAccount(y, w)
      BY <3>1 DEF IsAccount
    <3> DEFINE name == <<w.account, "ServiceAccount">>
    <3>3. name \in names <=> \E y \in Given : <<y.name, y.kind>> = name
      OBVIOUS
    <3>4. \A a \in Lookable : a \in Given
      BY DEF Lookable
    <3>5. \A a : IsAccount(a, w) => a \in Lookable
      BY DEF IsAccount
    <3> HIDE DEF name, names
    <3>6. \A y \in Given : <<y.name, y.kind>> = name <=> IsAccount(y, w)
      BY <3>2 DEF name
    <3>7. name \notin names <=> \A a \in Lookable : ~IsAccount(a, w)
      BY <3>3, <3>4, <3>5, <3>6
    <3> QED BY <3>7 DEF name
  <2> HIDE DEF names
  <2> QED BY <1>5, <2>1
<1>9. found.absent = Named(w) \ names
  <2> HIDE DEF names
  <2> QED BY <1>1, <1>4, <1>6, <1>8 DEF Named
<1> QED BY <1>7, <1>9 DEF found

-----------------------------------------------------------------------------
\* The bundles of such a manifest.

LEMMA SettingHolds ==
  ASSUME MInv, PerWorkload, Unambiguous, Conventional, ReferencesRead
  PROVE  Setting
<1> DEFINE m == manifest
<1>1. /\ IsManifest(m) /\ Told(Resource(m)) /\ Given = Resource(m)
      /\ Outcome(m) = "none" /\ ~IsTargeted(m) /\ m.perWorkload # <<>>
  BY DEF MInv, Told, Unambiguous, Given, Resource, PerWorkload, Accepted
<1>2. EntryPassed(m) /\ AnalysisPassed(m)
  <2> HIDE DEF m
  <2> QED BY <1>1, OutcomeIs
<1>3. \A r \in Given : HasNamespace(r)
  <2>1. \A r \in Given : ManifestFault(r) = "none"
    BY <1>1, <1>2 DEF EntryPassed
  <2> QED BY <2>1 DEF ManifestFault, IsValid
<1>4. \A r \in Given : IsWorkload(r) => r.kind \in PodKinds
  <2> SUFFICES ASSUME NEW r \in Given, IsWorkload(r) PROVE r.kind \in PodKinds
    OBVIOUS
  <2>1. r \in ToSet(ListedWorkloads(m))
    <3>1. /\ Kept(m) = Resource(m)
          /\ ToSet(ListedWorkloads(m)) = {x \in Kept(m) : IsWorkload(x)}
      <4> HIDE DEF m
      <4> QED BY <1>1, ListsAre, KeptAll
    <3> QED BY <1>1, <3>1
  <2>2. AnalysisFault(r, Ancillaries(m)) = "none"
    BY <1>1, <1>2, <2>1 DEF AnalysisPassed
  <2> QED BY <2>2 DEF AnalysisFault
<1> QED BY <1>1, <1>3, <1>4 DEF Setting

\* The bundle of a workload.
BundleOf(b, w) ==
  /\ b.resources = {w} \cup {r \in Lookable : Reached(r, w)}
  /\ b.absent = Named(w) \ {<<y.name, y.kind>> : y \in Given}

LEMMA BundlesSet ==
  ASSUME MInv, PerWorkload, Unambiguous, Conventional, ReferencesRead
  PROVE  /\ \A i \in DOMAIN Bundles : \A w \in Bundles[i].resources :
              IsWorkload(w) => w \in Given /\ BundleOf(Bundles[i], w)
         /\ DistinctWorkloads
              => \A w \in Given : IsWorkload(w) =>
                   \E i \in DOMAIN Bundles : w \in Bundles[i].resources
<1> DEFINE m == manifest
           B(w) == WorkloadBundleOf(w, m)
           S == {B(w) : w \in Workloads(m)}
<1>1. Setting
  BY SettingHolds
<1>2. /\ IsManifest(m) /\ ~IsTargeted(m) /\ m.perWorkload # <<>>
      /\ Workloads(m) = {r \in Given : IsWorkload(r)}
  <2>1. Told(Resource(m)) /\ Given = Resource(m) /\ IsManifest(m)
    BY DEF MInv, Told, Unambiguous, Given, Resource
  <2>2. Kept(m) = Resource(m)
    <3> HIDE DEF m
    <3> QED BY <2>1, KeptAll
  <2> QED BY <2>1, <2>2 DEF PerWorkload, Workloads
<1>3. /\ Bundles \in Seq(S) /\ ToSet(Bundles) \subseteq S
      /\ (\A x, y \in Workloads(m) : x.name = y.name => x = y) => ToSet(Bundles) = S
  <2>1. Bundles = BuildBundles(m)
    BY DEF Bundles
  <2> HIDE DEF m
  <2> QED BY <1>2, <2>1, BundlesAre
<1>4. /\ DOMAIN Bundles = 1..Len(Bundles)
      /\ \A i \in 1..Len(Bundles) : Bundles[i] \in S
      /\ \A b \in ToSet(Bundles) : \E i \in 1..Len(Bundles) : b = Bundles[i]
  <2> HIDE DEF S
  <2> QED BY <1>3, Listed
<1>5. ASSUME NEW w \in Workloads(m)
      PROVE  w \in Given /\ IsWorkload(w) /\ BundleOf(B(w), w)
  <2>1. w \in Given /\ IsWorkload(w)
    BY <1>2
  <2> DEFINE found == AnalyseWorkload(w, Ancillaries(manifest))
  <2>2. /\ found.resources = {r \in Lookable : Reached(r, w)}
        /\ found.absent = Named(w) \ {<<y.name, y.kind>> : y \in Given}
    BY <1>1, <2>1, AnalysedAre
  <2>3. B(w).resources = {w} \cup found.resources /\ B(w).absent = found.absent
    BY DEF WorkloadBundleOf
  <2> HIDE DEF found, B
  <2> QED BY <2>1, <2>2, <2>3 DEF BundleOf
<1>6. ASSUME NEW i \in DOMAIN Bundles, NEW w \in Bundles[i].resources, IsWorkload(w)
      PROVE  w \in Given /\ BundleOf(Bundles[i], w)
  <2>1. PICK v \in Workloads(m) : Bundles[i] = B(v)
    BY <1>4
  <2>2. w = v
    BY <1>5, <1>6, <2>1 DEF BundleOf, Lookable
  <2> QED BY <1>5, <2>1, <2>2
<1>7. ASSUME DistinctWorkloads, NEW w \in Given, IsWorkload(w)
      PROVE  \E i \in DOMAIN Bundles : w \in Bundles[i].resources
  <2>1. \A x, y \in Workloads(m) : x.name = y.name => x = y
    BY <1>2, <1>7 DEF DistinctWorkloads
  <2>2. w \in Workloads(m) /\ B(w) \in ToSet(Bundles)
    BY <1>2, <1>3, <1>7, <2>1
  <2>3. PICK i \in DOMAIN Bundles : B(w) = Bundles[i]
    BY <1>4, <2>2
  <2>4. w \in Bundles[i].resources
    BY <1>5, <2>2, <2>3 DEF BundleOf
  <2> QED BY <2>4
<1> QED BY <1>6, <1>7

\* By which references one resource needs another: a workload, or one of four
\* kinds, that are no workloads' kinds.
LEMMA DependsIs ==
  ASSUME Setting, NEW x \in Given, NEW y \in Given
  PROVE  /\ IsWorkload(x) =>
              (Depends(x, y) <=>
                \/ /\ x.ns = y.ns
                   /\ \/ <<y.name, y.kind>> \in x.refs \cup {<<x.account, "ServiceAccount">>}
                      \/ y.kind = "Service" /\ Serves(y, x)
                      \/ y.kind = "Service" /\ x.kind = "StatefulSet" /\ x.service = y.name
                      \/ y.kind = "HorizontalPodAutoscaler" /\ y.target = <<x.kind, x.name, x.api>>
                \/ y.kind = "Namespace" /\ y.name = x.ns /\ x.ns # "default")
         /\ ~IsWorkload(x) /\ x.kind = "ServiceAccount" =>
              (Depends(x, y) <=>
                 /\ \/ x.ns = y.ns /\ y.kind = "RoleBinding"
                    \/ y.kind = "ClusterRoleBinding"
                 /\ <<"ServiceAccount", x.name, x.ns>> \in y.subjects)
         /\ ~IsWorkload(x) /\ x.kind = "Service" =>
              (Depends(x, y) <=>
                 /\ x.ns = y.ns
                 /\ \/ y.kind = "Ingress" /\ x.name \in y.backends
                    \/ y.kind = "Route" /\ y.to = <<x.name, "Service">>
                    \/ y.kind = "ServiceMonitor" /\ Watches(y, x))
         /\ ~IsWorkload(x) /\ x.kind = "RoleBinding" =>
              (Depends(x, y) <=>
                 /\ x.ns = y.ns \/ y.kind = "ClusterRole"
                 /\ <<y.name, y.kind>> = x.role)
         /\ ~IsWorkload(x) /\ x.kind = "ClusterRoleBinding" =>
              (Depends(x, y) <=> y.kind = "ClusterRole" /\ <<y.name, y.kind>> = x.role)
         /\ ~IsWorkload(x)
              /\ x.kind \notin {"ServiceAccount", "Service", "RoleBinding", "ClusterRoleBinding"}
              => ~Depends(x, y)
<1>0. ReferencesRead /\ x.unread = {}
  BY DEF Setting, ReferencesRead
<1>1. IsWorkload(x) => x.kind \notin {"ServiceAccount", "Service", "RoleBinding", "ClusterRoleBinding"}
  BY DEF Setting, PodKinds
<1>2. CASE IsWorkload(x)
  <2>1. y.kind = "NetworkPolicy" /\ x.ns = y.ns => ~(y.selects \subseteq x.labels)
    BY <1>0, <1>2 DEF ReferencesRead
  <2> QED BY <1>0, <1>1, <1>2, <2>1 DEF Depends, Refers, RefersBeyond
<1>3. CASE ~IsWorkload(x) /\ x.kind = "ServiceAccount"
  BY <1>0, <1>3 DEF Depends, Refers, RefersBeyond
<1>4. CASE ~IsWorkload(x) /\ x.kind = "Service"
  BY <1>0, <1>4 DEF Depends, Refers, RefersBeyond
<1>5. CASE ~IsWorkload(x) /\ x.kind = "RoleBinding"
  BY <1>0, <1>5 DEF Depends, Refers, RefersBeyond
<1>6. CASE ~IsWorkload(x) /\ x.kind = "ClusterRoleBinding"
  BY <1>0, <1>6 DEF Depends, Refers, RefersBeyond
<1>7. CASE ~IsWorkload(x)
           /\ x.kind \notin {"ServiceAccount", "Service", "RoleBinding", "ClusterRoleBinding"}
  BY <1>0, <1>7 DEF Depends, Refers, RefersBeyond
<1> QED BY <1>2, <1>3, <1>4, <1>5, <1>6, <1>7

-----------------------------------------------------------------------------
\* Where a service's own labels are its selector, all that matches a service
\* that serves w is found by what matches w.
LEMMA ServedPairs ==
  ASSUME Setting, NEW s \in Given, s.kind = "Service", NEW w, Serves(s, w)
  PROVE  /\ Matched(s, w) = s.own /\ Matched(s, w) # {}
         /\ \A r : r.kind = "ServiceMonitor" /\ Watches(r, s) => Leads(r, s, w)
<1>1. s.own = s.selector /\ s.selector # {} /\ s.selector \subseteq w.labels
  BY DEF Setting, Conventional, Serves
<1>2. Matched(s, w) = s.own /\ s.own # {}
  BY <1>1 DEF Matched
<1>3. ASSUME NEW r, r.kind = "ServiceMonitor", Watches(r, s)
      PROVE  Leads(r, s, w)
  <2>1. /\ r.labels \subseteq s.own
        /\ \A e \in r.expressions : \E l \in s.own : l[1] = e.key /\ l[2] \in e.values
        /\ r.labels # {} \/ r.expressions # {}
    BY <1>3 DEF Watches
  <2>2. CASE r.labels # {}
    <3>1. r.labels \cap Matched(s, w) # {}
      BY <1>2, <2>1, <2>2
    <3> QED BY <1>3, <3>1 DEF Leads
  <2>3. CASE r.expressions # {}
    <3>1. PICK e \in r.expressions : TRUE
      BY <2>3
    <3>2. PICK l \in s.own : l[1] = e.key /\ l[2] \in e.values
      BY <2>1
    <3>3. l \in Matched(s, w) /\ e.key = l[1]
      BY <1>2, <3>2
    <3> QED BY <1>3, <3>2, <3>3 DEF Leads
  <2> QED BY <2>1, <2>2, <2>3
<1> QED BY <1>2, <1>3

\* What a bundle has, without the services that it has only for a part of
\* their selectors, is complete.
LEMMA ReachedComplete ==
  ASSUME Setting, NEW w \in Given, IsWorkload(w)
  PROVE  LET X == {x \in {w} \cup {r \in Lookable : Reached(r, w)} :
                     x.kind = "Service" => Serves(x, w)}
         IN  X \subseteq Given /\ w \in X /\ Complete(X)
<1> DEFINE X == {x \in {w} \cup {r \in Lookable : Reached(r, w)} :
                   x.kind = "Service" => Serves(x, w)}
<1>1. X \subseteq Given
  BY DEF Lookable
<1>2. w.kind \in PodKinds /\ w.kind # "Service" /\ w \in X
  BY DEF Setting, PodKinds
<1>3. \A r \in Given : r.kind \notin PodKinds => r \in Lookable
  BY SettingLists
<1>4. ASSUME NEW y \in Given, y.kind \notin PodKinds, Reached(y, w),
             y.kind = "Service" => Serves(y, w)
      PROVE  y \in X
  BY <1>3, <1>4
<1>5. ASSUME NEW x \in X, NEW y \in Given, Depends(x, y)
      PROVE  y \in X
  <2>1. x \in Given /\ IsResource(y) /\ IsResource(x) /\ IsResource(w)
    BY <1>1, SettingLists
  <2>2. CASE x = w
    <3>1. \/ /\ x.ns = y.ns
             /\ \/ <<y.name, y.kind>> \in x.refs \cup {<<x.account, "ServiceAccount">>}
                \/ y.kind = "Service" /\ Serves(y, x)
                \/ y.kind = "Service" /\ x.kind = "StatefulSet" /\ x.service = y.name
                \/ y.kind = "HorizontalPodAutoscaler" /\ y.target = <<x.kind, x.name, x.api>>
          \/ y.kind = "Namespace" /\ y.name = x.ns /\ x.ns # "default"
      BY <1>5, <2>1, <2>2, DependsIs
    <3>2. CASE <<y.name, y.kind>> \in w.refs
      <4>1. y.kind \in {"Secret", "ConfigMap", "PersistentVolumeClaim"}
        <5> DEFINE ref == <<y.name, y.kind>>
        <5>1. ref[2] \in {"Secret", "ConfigMap", "PersistentVolumeClaim"}
          BY <1>2, <2>1, <3>2 DEF IsResource
        <5> QED BY <5>1
      <4>2. Reached(y, w)
        BY <3>2 DEF Reached
      <4>3. y.kind \notin PodKinds /\ y.kind # "Service"
        BY <4>1 DEF PodKinds
      <4> QED BY <1>4, <4>2, <4>3
    <3>3. CASE <<y.name, y.kind>> = <<w.account, "ServiceAccount">>
      <4>1. y.name = w.account /\ y.kind = "ServiceAccount" /\ w.account # ""
        BY <2>1, <3>3 DEF IsResource
      <4>2. y.kind \notin PodKinds /\ y.kind # "Service"
        BY <4>1 DEF PodKinds
      <4>3. Reached(y, w)
        BY <1>3, <4>1, <4>2 DEF Reached, IsAccount
      <4> QED BY <1>4, <4>2, <4>3
    <3>4. CASE y.kind = "Service" /\ Serves(y, w)
      <4>1. Reached(y, w) /\ y.kind \notin PodKinds
        BY <3>4, ServedPairs DEF Reached, PodKinds
      <4> QED BY <1>4, <3>4, <4>1
    <3>5. CASE /\ y.kind = "Service" /\ w.kind = "StatefulSet" /\ w.service = y.name
               /\ w.ns = y.ns
      <4>1. Serves(y, w)
        BY <3>5 DEF Setting, Conventional
      <4>2. Reached(y, w) /\ y.kind \notin PodKinds
        BY <3>5 DEF Reached, PodKinds
      <4> QED BY <1>4, <4>1, <4>2
    <3>6. CASE y.kind = "HorizontalPodAutoscaler" /\ y.target = <<w.kind, w.name, w.api>>
      <4>1. Reached(y, w) /\ y.kind \notin PodKinds /\ y.kind # "Service"
        BY <3>6 DEF Reached, PodKinds
      <4> QED BY <1>4, <4>1
    <3>7. CASE y.kind = "Namespace" /\ y.name = w.ns /\ w.ns # "default"
      <4>1. Reached(y, w) /\ y.kind \notin PodKinds /\ y.kind # "Service"
        BY <3>7 DEF Reached, PodKinds
      <4> QED BY <1>4, <4>1
    <3> QED BY <2>2, <3>1, <3>2, <3>3, <3>4, <3>5, <3>6, <3>7
  <2>3. CASE x # w
    <3>1. x \in Lookable /\ Reached(x, w) /\ ~IsWorkload(x)
      BY <2>3 DEF Lookable
    <3>2. ASSUME x.kind \in {"ServiceAccount", "RoleBinding", "ClusterRoleBinding"}
          PROVE  w.account # "" /\ (IsAccount(x, w) \/ IsBound(x, w))
      <4>1. <<x.name, x.kind>> \notin w.refs
        <5> DEFINE ref == <<x.name, x.kind>>
        <5>1. ref \in w.refs => ref[2] \in {"Secret", "ConfigMap", "PersistentVolumeClaim"}
          BY <1>2, <2>1 DEF IsResource
        <5> QED BY <3>2, <5>1
      <4>2. ASSUME NEW b \in Lookable, IsBound(b, w), b.role = <<x.name, x.kind>>
            PROVE  FALSE
        <5>1. b.role[2] = x.kind
          BY <4>2
        <5>2. IsResource(b) /\ b.kind \in {"RoleBinding", "ClusterRoleBinding"}
          BY <4>2, SettingLists DEF IsBound, Lookable
        <5>3. b.role[2] \in {"Role", "ClusterRole"}
          <6>1. CASE b.kind = "RoleBinding"
            BY <5>2, <6>1 DEF IsResource
          <6>2. CASE b.kind = "ClusterRoleBinding"
            <7>1. b.role = <<b.role[1], "ClusterRole">>
              BY <5>2, <6>2 DEF IsResource
            <7>2. <<b.role[1], "ClusterRole">>[2] = "ClusterRole"
              OBVIOUS
            <7> QED BY <7>1, <7>2
          <6> QED BY <5>2, <6>1, <6>2
        <5> QED BY <3>2, <5>1, <5>3
      <4>3. \A s : ~Leads(x, s, w)
        BY <3>2 DEF Leads
      <4> QED BY <3>1, <3>2, <4>1, <4>2, <4>3 DEF Reached
    <3>3. CASE x.kind = "ServiceAccount"
      <4>1. w.account # "" /\ IsAccount(x, w)
        BY <3>2, <3>3 DEF IsBound
      <4>2. /\ y.kind \in {"RoleBinding", "ClusterRoleBinding"}
            /\ <<"ServiceAccount", x.name, x.ns>> \in y.subjects
        BY <1>5, <2>1, <3>1, <3>3, DependsIs
      <4>3. y.kind \notin PodKinds /\ y.kind # "Service"
        BY <4>2 DEF PodKinds
      <4>4. IsBound(y, w)
        BY <1>3, <3>1, <4>1, <4>2, <4>3 DEF IsBound
      <4>5. Reached(y, w)
        BY <4>1, <4>4 DEF Reached
      <4> QED BY <1>4, <4>3, <4>5
    <3>4. CASE x.kind \in {"RoleBinding", "ClusterRoleBinding"}
      <4>1. w.account # "" /\ IsBound(x, w)
        BY <3>2, <3>4 DEF IsAccount
      <4>2. x.role = <<y.name, y.kind>>
        BY <1>5, <2>1, <3>1, <3>4, DependsIs
      <4>3. y.kind \in {"Role", "ClusterRole"}
        <5>1. x.role[2] = y.kind
          BY <4>2
        <5>2. CASE x.kind = "RoleBinding"
          BY <2>1, <5>1, <5>2 DEF IsResource
        <5>3. CASE x.kind = "ClusterRoleBinding"
          BY <1>5, <2>1, <3>1, <5>3, DependsIs
        <5> QED BY <3>4, <5>2, <5>3
      <4>4. y.kind \notin PodKinds /\ y.kind # "Service"
        BY <4>3 DEF PodKinds
      <4>5. Reached(y, w)
        BY <3>1, <4>1, <4>2 DEF Reached
      <4> QED BY <1>4, <4>4, <4>5
    <3>5. CASE x.kind = "Service"
      <4>1. Serves(x, w) /\ Matched(x, w) # {}
        BY <2>1, <3>5, ServedPairs
      <4>2. \/ y.kind = "Ingress" /\ x.name \in y.backends
            \/ y.kind = "Route" /\ y.to = <<x.name, "Service">>
            \/ y.kind = "ServiceMonitor" /\ Watches(y, x)
        BY <1>5, <2>1, <3>1, <3>5, DependsIs
      <4>3. Leads(y, x, w)
        <5>1. y.kind = "ServiceMonitor" /\ Watches(y, x) => Leads(y, x, w)
          BY <2>1, <3>5, <4>1, ServedPairs
        <5> QED BY <4>2, <5>1 DEF Leads
      <4>4. Reached(y, w)
        BY <3>1, <3>5, <4>1, <4>3 DEF Reached
      <4>5. y.kind \notin PodKinds /\ y.kind # "Service"
        BY <4>2 DEF PodKinds
      <4> QED BY <1>4, <4>4, <4>5
    <3>6. CASE x.kind \notin {"ServiceAccount", "Service", "RoleBinding", "ClusterRoleBinding"}
      BY <1>5, <2>1, <3>1, <3>6, DependsIs
    <3> QED BY <3>3, <3>4, <3>5, <3>6
  <2> QED BY <2>2, <2>3
<1>6. Complete(X)
  <2> HIDE DEF X
  <2> QED BY <1>1, <1>5 DEF Complete
<1> QED BY <1>1, <1>2, <1>6

LEMMA NeededWithin ==
  ASSUME NEW w, NEW X, X \subseteq Given, w \in X, Complete(X)
  PROVE  Needed(w) \subseteq X
BY DEF Needed

LEMMA CoverHolds == MInv => BundlesCover
<1> SUFFICES ASSUME MInv, PerWorkload, Unambiguous, Conventional, ReferencesRead
             PROVE  /\ \A i \in DOMAIN Bundles : \A w \in Bundles[i].resources :
                         IsWorkload(w) => Needed(w) \subseteq Bundles[i].resources
                    /\ DistinctWorkloads
                         => \A w \in Given : IsWorkload(w) =>
                              \E i \in DOMAIN Bundles : w \in Bundles[i].resources
  BY DEF BundlesCover
<1>1. ASSUME NEW i \in DOMAIN Bundles, NEW w \in Bundles[i].resources, IsWorkload(w)
      PROVE  Needed(w) \subseteq Bundles[i].resources
  <2>1. w \in Given /\ BundleOf(Bundles[i], w)
    BY <1>1, BundlesSet
  <2> DEFINE X == {x \in {w} \cup {r \in Lookable : Reached(r, w)} :
                     x.kind = "Service" => Serves(x, w)}
  <2>2. X \subseteq Given /\ w \in X /\ Complete(X)
    BY <1>1, <2>1, SettingHolds, ReachedComplete
  <2>3. X \subseteq Bundles[i].resources
    BY <2>1 DEF BundleOf
  <2> HIDE DEF X
  <2> QED BY <2>2, <2>3, NeededWithin
<1> QED BY <1>1, BundlesSet

\* The bundle of a workload has all that the workload needs, over any number of
\* references, and every workload has a bundle: what analyseWorkload follows,
\* one kind of reference after another, ends where Kubernetes' own references end.
THEOREM BundlesComplete == Spec => []BundlesCover
BY MInvHolds, CoverHolds, PTL

-----------------------------------------------------------------------------
\* Nothing superfluous.

LEMMA OneNamespaceIs ==
  ASSUME IsManifest(manifest), OneNamespace, NEW x \in Given, NEW y \in Given,
         x.ns # "", y.ns # ""
  PROVE  x.ns = y.ns
<1> DEFINE N == {r \in Given : IsNamespaced(r)}
           T == {r.ns : r \in N}
           f == [r \in N |-> r.ns]
<1>1. IsFiniteSet(Given)
  BY ListedFinite DEF IsManifest, Given
<1>2. IsFiniteSet(N)
  BY <1>1, FS_Subset
<1>3. f \in Surjection(N, T)
  BY DEF Surjection
<1>4. IsFiniteSet(T)
  <2> HIDE DEF f, N, T
  <2> QED BY <1>2, <1>3, FS_Surjection
<1>5. Cardinality(T) <= 1
  BY DEF OneNamespace
<1>6. x.ns \in T /\ y.ns \in T
  BY DEF IsNamespaced
<1> HIDE DEF T
<1> QED BY <1>4, <1>5, <1>6, OnlyOne

\* Nothing is in a bundle that is not in every complete set with its workload.
LEMMA ReachedNeeded ==
  ASSUME Setting, AllOrNothing, OneNamespace, NEW w \in Given, IsWorkload(w),
         NEW X, X \subseteq Given, w \in X, Complete(X), NEW r \in Lookable, Reached(r, w)
  PROVE  r \in X
<1>1. ASSUME NEW x \in X, NEW y \in Given, Depends(x, y)
      PROVE  y \in X
  <2>1. x \in Given /\ y \in {z \in Given : Depends(x, z)}
    BY <1>1
  <2> DEFINE directly == [z \in Given |-> {y_ \in Given : Depends(z, y_)}]
  <2>2. directly[x] \subseteq X
    BY DEF Complete
  <2>3. directly[x] = {z \in Given : Depends(x, z)}
    BY <2>1
  <2> HIDE DEF directly
  <2> QED BY <2>1, <2>2, <2>3
<1>2. /\ r \in Given /\ w.kind \in PodKinds
      /\ \A x \in Given : HasNamespace(x) /\ IsResource(x)
      /\ \A x \in Given : x.kind \notin PodKinds => ~IsWorkload(x)
  BY SettingLists DEF Setting, Lookable
<1>3. \A x, y \in Given :
        /\ x.kind \notin {"Namespace", "ClusterRole", "ClusterRoleBinding"}
        /\ y.kind \notin {"Namespace", "ClusterRole", "ClusterRoleBinding"}
        => x.ns = y.ns
  BY <1>2, OneNamespaceIs DEF HasNamespace, Setting
<1>4. w.kind \notin {"Namespace", "ClusterRole", "ClusterRoleBinding"}
  BY <1>2 DEF PodKinds
<1>5. CASE w.ns # "default" /\ r.kind = "Namespace" /\ r.name = w.ns
  BY <1>1, <1>2, <1>5, DependsIs
<1>6. CASE r.kind = "HorizontalPodAutoscaler" /\ r.target = <<w.kind, w.name, w.api>>
  <2>1. w.ns = r.ns
    BY <1>2, <1>3, <1>4, <1>6
  <2> QED BY <1>1, <1>2, <1>6, <2>1, DependsIs
<1>7. CASE <<r.name, r.kind>> \in w.refs
  <2>1. r.kind \in {"Secret", "ConfigMap", "PersistentVolumeClaim"}
    <3> DEFINE ref == <<r.name, r.kind>>
    <3>1. ref[2] \in {"Secret", "ConfigMap", "PersistentVolumeClaim"}
      BY <1>2, <1>7 DEF IsResource
    <3> QED BY <3>1
  <2>2. w.ns = r.ns
    BY <1>2, <1>3, <1>4, <2>1
  <2> QED BY <1>1, <1>2, <1>7, <2>2, DependsIs
<1>8. ASSUME NEW a \in Lookable, IsAccount(a, w)
      PROVE  a \in X /\ a \in Given /\ ~IsWorkload(a) /\ a.kind = "ServiceAccount"
  <2>1. a \in Given /\ ~IsWorkload(a) /\ a.kind = "ServiceAccount" /\ a.name = w.account
    BY <1>8 DEF IsAccount, Lookable
  <2>2. w.ns = a.ns
    BY <1>3, <1>4, <2>1
  <2>3. Depends(w, a)
    BY <2>1, <2>2, DependsIs
  <2> QED BY <1>1, <2>1, <2>3
<1>9. ASSUME NEW b \in Lookable, IsBound(b, w)
      PROVE  /\ b \in X /\ b \in Given /\ ~IsWorkload(b)
             /\ b.kind \in {"RoleBinding", "ClusterRoleBinding"}
  <2>1. PICK a \in Lookable : IsAccount(a, w) /\ <<"ServiceAccount", a.name, a.ns>> \in b.subjects
    BY <1>9 DEF IsBound
  <2>2. /\ b \in Given /\ ~IsWorkload(b)
        /\ b.kind \in {"RoleBinding", "ClusterRoleBinding"}
    BY <1>9 DEF IsBound, Lookable
  <2>3. a \in X /\ a \in Given /\ ~IsWorkload(a) /\ a.kind = "ServiceAccount"
    BY <1>8, <2>1
  <2>4. b.kind = "RoleBinding" => a.ns = b.ns
    BY <1>3, <2>2, <2>3
  <2>5. Depends(a, b)
    BY <2>1, <2>2, <2>3, <2>4, DependsIs
  <2> QED BY <1>1, <2>2, <2>3, <2>5
<1>10. ASSUME NEW b \in Lookable, IsBound(b, w), b.role = <<r.name, r.kind>>
       PROVE  r \in X
  <2>1. /\ b \in X /\ b \in Given /\ ~IsWorkload(b)
        /\ b.kind \in {"RoleBinding", "ClusterRoleBinding"}
    BY <1>9, <1>10
  <2>2. b.role[2] = r.kind
    BY <1>10
  <2>3. CASE b.kind = "RoleBinding"
    <3>1. r.kind \in {"Role", "ClusterRole"}
      BY <1>2, <2>1, <2>2, <2>3 DEF IsResource
    <3>2. r.kind = "Role" => b.ns = r.ns
      BY <1>2, <1>3, <2>1, <2>3
    <3>3. Depends(b, r)
      BY <1>2, <1>10, <2>1, <2>3, <3>1, <3>2, DependsIs
    <3> QED BY <1>1, <1>2, <2>1, <3>3
  <2>4. CASE b.kind = "ClusterRoleBinding"
    <3>1. r.kind = "ClusterRole"
      <4>1. b.role = <<b.role[1], "ClusterRole">>
        BY <1>2, <2>1, <2>4 DEF IsResource
      <4>2. <<b.role[1], "ClusterRole">>[2] = "ClusterRole"
        OBVIOUS
      <4> QED BY <2>2, <4>1, <4>2
    <3>2. Depends(b, r)
      BY <1>2, <1>10, <2>1, <2>4, <3>1, DependsIs
    <3> QED BY <1>1, <1>2, <2>1, <3>2
  <2> QED BY <2>1, <2>3, <2>4
<1>11. CASE w.kind = "StatefulSet" /\ r.kind = "Service" /\ r.name = w.service
  <2>1. w.ns = r.ns
    BY <1>2, <1>3, <1>4, <1>11
  <2>2. Depends(w, r)
    BY <1>2, <1>11, <2>1, DependsIs
  <2> QED BY <1>1, <1>2, <2>2
<1>12. ASSUME NEW s \in Lookable, s.kind = "Service", Matched(s, w) # {}
       PROVE  s \in X /\ Serves(s, w)
  <2>1. s \in Given
    BY DEF Lookable
  <2>2. Serves(s, w)
    BY <1>12, <2>1 DEF AllOrNothing, Matched
  <2>3. w.ns = s.ns
    BY <1>3, <1>4, <1>12, <2>1
  <2>4. Depends(w, s)
    BY <1>12, <2>1, <2>2, <2>3, DependsIs
  <2> QED BY <1>1, <2>1, <2>2, <2>4
<1>13. ASSUME NEW s \in Lookable, s.kind = "Service", Matched(s, w) # {}, Leads(r, s, w)
       PROVE  r \in X
  <2>1. s \in X /\ Serves(s, w) /\ s \in Given /\ ~IsWorkload(s)
    BY <1>12, <1>13 DEF Lookable
  <2>2. r.kind \in {"Ingress", "Route", "ServiceMonitor"}
    BY <1>13 DEF Leads
  <2>3. s.ns = r.ns
    BY <1>2, <1>3, <1>13, <2>1, <2>2
  <2>4. r.kind = "ServiceMonitor" => Watches(r, s)
    <3> SUFFICES ASSUME r.kind = "ServiceMonitor" PROVE Watches(r, s)
      OBVIOUS
    <3>1. Matched(s, w) = s.own
      BY <1>13, <2>1, ServedPairs
    <3>2. \/ r.labels \cap s.own # {}
          \/ \E e \in r.expressions, l \in s.own : l[1] = e.key /\ l[2] \in e.values
      BY <1>13, <3>1 DEF Leads
    <3> QED BY <1>2, <1>13, <2>1, <3>2 DEF AllOrNothing
  <2>5. Depends(s, r)
    BY <1>2, <1>13, <2>1, <2>2, <2>3, <2>4, DependsIs DEF Leads
  <2> QED BY <1>1, <1>2, <2>1, <2>5
<1> QED BY <1>5, <1>6, <1>7, <1>8, <1>9, <1>10, <1>11, <1>12, <1>13 DEF Reached

LEMMA ExactHolds == MInv => BundlesExact
<1> SUFFICES ASSUME MInv, PerWorkload, Unambiguous, Conventional, ReferencesRead,
                    AllOrNothing, OneNamespace,
                    NEW i \in DOMAIN Bundles, NEW w \in Bundles[i].resources, IsWorkload(w)
             PROVE  /\ Bundles[i].resources = Needed(w)
                    /\ Bundles[i].absent = Named(w) \ {<<y.name, y.kind>> : y \in Given}
  BY DEF BundlesExact
<1>1. Setting /\ w \in Given /\ BundleOf(Bundles[i], w)
  BY SettingHolds, BundlesSet
<1>2. Needed(w) \subseteq Bundles[i].resources
  BY CoverHolds DEF BundlesCover
<1>3. ASSUME NEW r \in Bundles[i].resources
      PROVE  r \in Needed(w)
  <2>1. r = w \/ (r \in Lookable /\ Reached(r, w))
    BY <1>1 DEF BundleOf
  <2>2. ASSUME NEW X \in SUBSET Given, w \in X, Complete(X)
        PROVE  r \in X
    BY <1>1, <2>1, <2>2, ReachedNeeded
  <2>3. r \in Given
    BY <1>1, <2>1 DEF Lookable
  <2> QED BY <2>2, <2>3 DEF Needed
<1> QED BY <1>1, <1>2, <1>3 DEF BundleOf

\* The bundle of a workload has nothing else, and what analyseWorkload reports as
\* absent is what the workload names and the manifest lacks, in one namespace and
\* with selectors that match as a whole or not at all.
THEOREM BundlesMinimal == Spec => []BundlesExact
BY MInvHolds, ExactHolds, PTL
=============================================================================
