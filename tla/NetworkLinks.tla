----------------------------- MODULE NetworkLinks -----------------------------
(***************************************************************************)
(* The MultiClusterNetwork resource: how network-connectivity.go keeps the *)
(* links of all manifests in one list, read through a cache that lags and  *)
(* written back whole, if it is still the version that was read.           *)
(*                                                                         *)
(* A connection is a service reached at one location (a cluster and a      *)
(* namespace) from another.  A link is a pair of locations with the list   *)
(* of the services that go between them.                                   *)
(*                                                                         *)
(* Of the reconciler of module Scheduler only what it does to links is     *)
(* here: for one manifest at a time it deletes those of the bundles it     *)
(* remembers and registers those of the new ones, or deletes them and lets *)
(* a deleted manifest go, and begins again after an error.  (For Wrong_    *)
(* see Scheduler.)                                                         *)
(***************************************************************************)
EXTENDS SequencesExt

CONSTANTS
  Manifests,      \* names of manifests
  Wanted,         \* function: manifest -> the lists of connections that its
                  \* specs may call for
  MaxOps,         \* bound: changes by users
  MaxFaults,      \* bound: failed calls and restarts
  Nil

VARIABLES
  net,            \* its list of links, Nil when there is no such resource
  cached,         \* what the client's cache shows of it
  stale,          \* which of "cached" and "copy" are older than net
  status,         \* whether there is a manifest, and how far it is
  wish,           \* the connections each manifest calls for now
  pending,        \* the manifests to reconcile
  pc,             \* "idle", "decide", or the next call: "fetch" or "update"
  op,             \* what the call is for: "remove" or "add"
  cur,            \* the manifest being reconciled, or Nil
  closing,        \* it was found deleted, and is being finalized
  new,            \* the connections it called for when that began
  copy,           \* the list as it was fetched, being changed
  todo,           \* the connections still to be changed in it
  memory,         \* the connections of the bundles in r.Bundles
  due,            \* those written for each manifest and not deleted since
  ops, faults

store   == <<net, cached, stale>>
users   == <<status, wish>>
locals  == <<pc, op, cur, closing, new, copy, todo>>
budgets == <<ops, faults>>
vars    == <<store, users, pending, locals, memory, due, budgets>>

\* There is no such manifest; it was not reconciled yet; it has its finalizer;
\* it is deleted and waits to be finalized.
Statuses == {"absent", "new", "held", "deleted"}

Path(x) == <<x.src, x.tgt>>

Conns == UNION {ToSet(list) : list \in UNION {Wanted[m] : m \in Manifests}}

Links ==
  [src : {c.src : c \in Conns}, tgt : {c.tgt : c \in Conns},
   services : Seq({c.service : c \in Conns})]

Requests == [op : {"add", "remove"}, set : SUBSET Conns]

ASSUME WantedAssumption ==
  /\ \A m \in Manifests : \A list \in Wanted[m] : list \in Seq(Conns)
  /\ \A c \in Conns : c = [src |-> c.src, tgt |-> c.tgt, service |-> c.service]

\* Nil is no list of links and no request.
ASSUME NilAssumption == Nil \notin Seq(Links) \cup Requests

\* The connections in a list of links.
Flatten(ls) ==
  UNION {{[src |-> ls[i].src, tgt |-> ls[i].tgt, service |-> s] :
            s \in ToSet(ls[i].services)} : i \in DOMAIN ls}

Listed == IF net = Nil THEN <<>> ELSE net

-----------------------------------------------------------------------------
\* The list of links.

\* Where the link of a connection is in the list, 0 if it is not there.
GetLink(ls, c) == SelectInSeq(ls, LAMBDA l : Path(l) = Path(c))

\* MultiClusterLink of the network operator: a service is in it once.
AddService(l, s) ==
  IF s \in ToSet(l.services) THEN l ELSE [l EXCEPT !.services = Append(@, s)]

Wrong_AddConnection(ls, c) ==
  Append(ls, [src |-> c.src, tgt |-> c.tgt, services |-> <<c.service>>])

AddConnection(ls, c) ==
  LET i == GetLink(ls, c)
  IN  IF i # 0 THEN [ls EXCEPT ![i] = AddService(@, c.service)]
      ELSE Append(ls, [src |-> c.src, tgt |-> c.tgt, services |-> <<c.service>>])

Wrong_RemoveConnection(ls, c) ==
  LET i == GetLink(ls, c) IN IF i = 0 THEN ls ELSE RemoveAt(ls, i)

\* Where a service is in the list of a link, 0 if it is not there.
GetService(l, s) == SelectInSeq(l.services, LAMBDA t : t = s)

\* A link goes with the last of its services.
RemoveConnection(ls, c) ==
  LET i == GetLink(ls, c)
      j == IF i = 0 THEN 0 ELSE GetService(ls[i], c.service)
  IN  IF j = 0 THEN ls
      ELSE IF Len(ls[i].services) = 1 THEN RemoveAt(ls, i)
      ELSE [ls EXCEPT ![i].services = RemoveAt(@, j)]

Asked == IF op = "add" THEN new ELSE memory[cur]

-----------------------------------------------------------------------------
\* Users.

UserStep(m) == ops < MaxOps /\ ops' = ops + 1 /\ pending' = pending \cup {m}

\* A manifest is created, or its spec edited.
Change(m, list) ==
  /\ UserStep(m) /\ status[m] # "deleted"
  /\ wish' = [wish EXCEPT ![m] = list]
  /\ status' = [status EXCEPT ![m] = IF @ = "absent" THEN "new" ELSE @]
  /\ UNCHANGED <<store, locals, memory, due, faults>>

\* Without a finalizer it is gone at once.
Delete(m) ==
  /\ UserStep(m) /\ status[m] \in {"new", "held"}
  /\ wish' = [wish EXCEPT ![m] = <<>>]
  /\ status' = [status EXCEPT ![m] = IF @ = "new" THEN "absent" ELSE "deleted"]
  /\ UNCHANGED <<store, locals, memory, due, faults>>

-----------------------------------------------------------------------------
\* A reconciliation.

Call(o) == op' = o /\ pc' = "fetch"

\* With nothing remembered there is nothing to remove and no call is made,
\* except in a finalization, which makes it all the same.
Begin(m) ==
  /\ pc = "idle" /\ m \in pending /\ status[m] # "absent"
  /\ pending' = pending \ {m} /\ cur' = m /\ new' = wish[m]
  /\ closing' = (status[m] = "deleted")
  /\ status' = [status EXCEPT ![m] = IF @ = "new" THEN "held" ELSE @]
  /\ IF memory[m] # <<>> \/ closing' THEN Call("remove")
     ELSE op' = "remove" /\ pc' = "decide"
  /\ UNCHANGED <<store, wish, copy, todo, memory, due, budgets>>

NothingThere(m) ==
  /\ pc = "idle" /\ m \in pending /\ status[m] = "absent"
  /\ pending' = pending \ {m}
  /\ UNCHANGED <<store, users, locals, memory, due, budgets>>

\* After the links of the remembered bundles, those of the new ones.
GoOn ==
  /\ pc = "decide" /\ op = "remove" /\ ~closing /\ new # <<>>
  /\ Call("add")
  /\ UNCHANGED <<store, users, pending, cur, closing, new, copy, todo, memory,
                 due, budgets>>

Idle ==
  /\ pc' = "idle" /\ op' = "remove"
  /\ cur' = Nil /\ closing' = FALSE /\ new' = <<>> /\ copy' = Nil /\ todo' = <<>>

\* Bundles are remembered if they were scheduled without reservations.
Conclude ==
  /\ pc = "decide" /\ ~closing /\ (op = "add" \/ new = <<>>)
  /\ memory' \in {memory, [memory EXCEPT ![cur] = new]}
  /\ Idle
  /\ UNCHANGED <<store, users, pending, due, budgets>>

\* The finalizer is removed, and with it the manifest.
Release ==
  /\ pc = "decide" /\ closing
  /\ status' = [status EXCEPT ![cur] = "absent"]
  /\ Idle
  /\ UNCHANGED <<store, wish, pending, memory, due, budgets>>

FetchNetwork ==
  /\ pc = "fetch" /\ cached # Nil
  /\ copy' = cached /\ todo' = Asked /\ pc' = "update"
  /\ stale' = IF "cached" \in stale THEN {"cached", "copy"} ELSE {}
  /\ UNCHANGED <<net, cached, users, pending, op, cur, closing, new, memory,
                 due, budgets>>

\* The resource is made if the cache does not show it.  If it exists all the
\* same the call fails, see Refused.
Make ==
  /\ pc = "fetch" /\ cached = Nil /\ net = Nil
  /\ net' = <<>> /\ stale' = {"cached"}
  /\ UNCHANGED <<cached, users, memory, due, ops>>

CreateNetwork ==
  /\ Make
  /\ copy' = net' /\ todo' = Asked /\ pc' = "update"
  /\ UNCHANGED <<pending, op, cur, closing, new, faults>>

\* The connections are changed in the copy, one after the other.
EditLink ==
  /\ pc = "update" /\ todo # <<>>
  /\ copy' = IF op = "add" THEN AddConnection(copy, Head(todo))
             ELSE RemoveConnection(copy, Head(todo))
  /\ todo' = Tail(todo)
  /\ UNCHANGED <<store, users, pending, pc, op, cur, closing, new, memory, due,
                 budgets>>

\* The API server takes a write only of the version it has, and makes a new
\* one if the write changes something.
Wrong_UpToDate == TRUE

UpToDate == "copy" \notin stale

Write ==
  /\ pc = "update" /\ todo = <<>> /\ UpToDate
  /\ net' = copy
  /\ stale' = IF net' = net THEN stale ELSE {"cached"}
  /\ due' = [due EXCEPT ![cur] = IF op = "add" THEN @ \cup ToSet(Asked)
                                 ELSE @ \ ToSet(Asked)]
  /\ UNCHANGED <<cached, users, ops>>

\* The bundles of a manifest that is finalized are forgotten.
UpdateNetwork ==
  /\ Write
  /\ memory' = IF closing THEN [memory EXCEPT ![cur] = <<>>] ELSE memory
  /\ pc' = "decide" /\ copy' = Nil
  /\ UNCHANGED <<pending, op, cur, closing, new, todo, faults>>

\* An error ends the reconciliation, and the manifest is queued again.
Wrong_Err == Idle /\ pending' = pending

Err == Idle /\ pending' = pending \cup {cur}

Refused ==
  /\ \/ pc = "fetch" /\ cached = Nil /\ net # Nil
     \/ pc = "update" /\ todo = <<>> /\ ~UpToDate
  /\ Err
  /\ stale' = stale \ {"copy"}
  /\ UNCHANGED <<net, cached, users, memory, due, budgets>>

\* A call is lost, one of those that have nothing to do with links included,
\* or it is carried out and its answer is lost.
CallFails ==
  /\ faults < MaxFaults /\ faults' = faults + 1
  /\ Err
  /\ \/ /\ pc \in {"fetch", "decide"} \/ (pc = "update" /\ todo = <<>>)
        /\ stale' = stale \ {"copy"}
        /\ UNCHANGED <<net, cached, users, memory, due, ops>>
     \/ Make
     \/ Write /\ memory' = memory

\* Every manifest is reconciled when the controller starts.
Restart ==
  /\ faults < MaxFaults /\ faults' = faults + 1
  /\ memory' = [m \in Manifests |-> <<>>]
  /\ pending' = {m \in Manifests : status[m] # "absent"}
  /\ Idle
  /\ cached' = net /\ stale' = {}
  /\ UNCHANGED <<net, users, due, ops>>

CacheSync ==
  /\ "cached" \in stale
  /\ cached' = net /\ stale' = stale \ {"cached"}
  /\ UNCHANGED <<net, users, pending, locals, memory, due, budgets>>

Init ==
  /\ net = Nil /\ cached = Nil /\ stale = {} /\ copy = Nil
  /\ cur = Nil /\ closing = FALSE /\ new = <<>> /\ todo = <<>>
  /\ pc = "idle" /\ op = "remove"
  /\ status = [m \in Manifests |-> "absent"]
  /\ wish = [m \in Manifests |-> <<>>] /\ pending = {}
  /\ memory = [m \in Manifests |-> <<>>]
  /\ due = [m \in Manifests |-> {}]
  /\ ops = 0 /\ faults = 0

Work ==
  \/ GoOn \/ Conclude \/ Release \/ FetchNetwork \/ CreateNetwork
  \/ EditLink \/ UpdateNetwork \/ Refused

Next ==
  \/ \E m \in Manifests : Begin(m) \/ NothingThere(m)
  \/ \E m \in Manifests : Delete(m) \/ \E list \in Wanted[m] : Change(m, list)
  \/ Work \/ CallFails \/ Restart \/ CacheSync

Spec == Init /\ [][Next]_vars

\* The worker goes on with what it has begun and takes every manifest in its
\* turn, and the cache catches up.
Fairness ==
  /\ WF_vars(Work) /\ WF_vars(CacheSync)
  /\ \A m \in Manifests : SF_vars(Begin(m))

FairSpec == Spec /\ Fairness

-----------------------------------------------------------------------------
\* Properties.

\* The list is in order: one link for a pair of locations, no link without
\* services, no service twice.  Looking for the first link of a path, as the
\* code does, is right only then.
InOrder(ls) ==
  /\ \A i, j \in DOMAIN ls : Path(ls[i]) = Path(ls[j]) => i = j
  /\ \A i \in DOMAIN ls : ls[i].services # <<>> /\ IsInjective(ls[i].services)

WellFormed == InOrder(Listed)

\* What was written for a manifest stays until it is deleted for it, whatever
\* is written for others from an old copy, unless another manifest has the
\* same connection: there is one entry for both and no count.
Private(m, c) ==
  \A n \in Manifests \ {m} : \A list \in Wanted[n] : c \notin ToSet(list)

OwnLinksServe ==
  \A m \in Manifests : \A c \in due[m] :
    Private(m, c) => c \in Flatten(Listed)

\* The list, its versions and its retries amount to a set to which all the
\* connections of a request are added, or from which all are removed, in one
\* step and exactly, or to which nothing happens.
Request ==
  IF pc \notin {"fetch", "update"} THEN Nil
  ELSE [op |-> op, set |-> ToSet(Asked)]

AsSet == INSTANCE LinkSet WITH Connections <- Conns, NoRequest <- Nil,
                               links <- Flatten(Listed), request <- Request

ImplementsLinkSet == AsSet!Spec

\* Once users rest, the connections that a manifest calls for, and no other
\* can call for, are in the list and stay there.  One that another calls for
\* too goes when that one is rescheduled or deleted, and nothing brings it
\* back to the one that stays.
WishesServed ==
  \A m \in Manifests :
    <>[]({c \in ToSet(wish[m]) : Private(m, c)} \subseteq Flatten(Listed))
=============================================================================
