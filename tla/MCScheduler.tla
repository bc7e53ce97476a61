----------------------------- MODULE MCScheduler -----------------------------
(***************************************************************************)
(* Small instances of module Scheduler: two clusters that differ by one    *)
(* claim each, four cluster sets, and a catalogue of specs, of which a     *)
(* configuration picks some by name.                                       *)
(***************************************************************************)
EXTENDS SchedulerProperties, TLC

CONSTANT SpecNames    \* the specs of the catalogue that users may give


MCClusters == {"k1", "k2"}
MCMembers  == "edge" :> {"k1", "k2"} @@ "core" :> {"k2"} @@ "void" :> {} @@ "shut" :> {"k1"}
MCBound    == {"edge", "core", "void"}
MCClaims   == "k1" :> {"gpu", "tape"} @@ "k2" :> {"gpu", "ssd"}
MCOne      == {<<"app">>}
MCTwo      == {<<"app">>, <<"web">>}

Base == [set |-> "edge", cluster |-> Nil, rules |-> {}, annotated |-> FALSE,
         workloads |-> <<>>, manifests |-> {"front", "back", "svc"},
         fault |-> "none"]

\* front calls the service svc, which comes with back.
Front(rules, absent) ==
  [name |-> <<"front">>, rules |-> rules, res |-> {"front"},
   absent |-> absent, needs |-> {"svc"}]
Back(rules) ==
  [name |-> <<"back">>, rules |-> rules, res |-> {"back", "svc"},
   absent |-> FALSE, needs |-> {}]

Each(workloads) == [Base EXCEPT !.annotated = TRUE, !.workloads = workloads]

SpecCatalogue ==
  [whole       |-> Base,
   core        |-> [Base EXCEPT !.set = "core"],
   smaller     |-> [Base EXCEPT !.manifests = {"back", "svc"}],
   unsat       |-> [Base EXCEPT !.rules = {"tpu"}],
   target      |-> [Base EXCEPT !.cluster = "k1"],
   pair        |-> Each(<<Front({"ssd"}, FALSE), Back({})>>),
   half        |-> Each(<<Front({"ssd"}, FALSE), Back({"tpu"})>>),
   moved       |-> Each(<<Front({}, FALSE), Back({"ssd"})>>),
   absent      |-> Each(<<Front({"ssd"}, TRUE), Back({"tape"})>>),
   stray       |-> [Each(<<Front({"ssd"}, FALSE), Back({})>>)
                      EXCEPT !.manifests = {"front", "back", "svc", "stray"}],
   unsupported |-> [Base EXCEPT !.fault = "unsupportedAnnotation"],
   homeless    |-> [Base EXCEPT !.set = "void"],
   forbidden   |-> [Base EXCEPT !.set = "shut"],
   outside     |-> [Base EXCEPT !.set = "core", !.cluster = "k1"],
   invalid     |-> [Base EXCEPT !.fault = "invalidManifest"],
   broken      |-> [Each(<<Back({})>>) EXCEPT !.fault = "analysisError"],
   valueless   |-> [Base EXCEPT !.fault = "targetWithoutValue"],
   open        |-> [Base EXCEPT !.fault = "filterWithoutValue"],
   torn        |-> [Base EXCEPT !.cluster = "k1", !.fault = "unparsedManifest"],
   nameless    |-> Each(<<[Back({}) EXCEPT !.name = <<>>]>>)]

MCSpecs == {SpecCatalogue[n] : n \in SpecNames}
=============================================================================
