---------------------------- MODULE MCNetworkLinks ----------------------------
(***************************************************************************)
(* Two manifests that share a pair of locations and one of three services. *)
(***************************************************************************)
EXTENDS NetworkLinks

MCManifests == {"app", "web"}

Conn(src, tgt, service) ==
  [src |-> <<src, "default">>, tgt |-> <<tgt, "default">>, service |-> service]

Db    == Conn("k1", "k2", "db")
Cache == Conn("k1", "k2", "cache")
Auth  == Conn("k1", "k2", "auth")
Back  == Conn("k2", "k1", "db")

MCWanted ==
  [m \in MCManifests |->
     IF m = "app" THEN {<<>>, <<Db, Cache, Db>>, <<Back, Cache>>}
     ELSE {<<>>, <<Auth, Db>>}]
=============================================================================
