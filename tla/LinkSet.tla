------------------------------- MODULE LinkSet -------------------------------
(***************************************************************************)
(* The links between clusters as everyone thinks of them: a set of         *)
(* connections, to which a set is added and from which one is taken away,  *)
(* all at once or not at all.                                              *)
(***************************************************************************)
CONSTANTS Connections, NoRequest

VARIABLES
  links,      \* the connections there are
  request     \* what is asked for: [op, set], or NoRequest

linkSetVars == <<links, request>>

Init == links = {} /\ request = NoRequest

Ask ==
  /\ request = NoRequest
  /\ \E op \in {"add", "remove"}, set \in SUBSET Connections :
       request' = [op |-> op, set |-> set]
  /\ UNCHANGED links

Serve ==
  /\ request # NoRequest /\ request' = NoRequest
  /\ links' = IF request.op = "add" THEN links \cup request.set
              ELSE links \ request.set

Withdraw ==
  /\ request # NoRequest /\ request' = NoRequest
  /\ UNCHANGED links

Next == Ask \/ Serve \/ Withdraw

Spec == Init /\ [][Next]_linkSetVars
=============================================================================
