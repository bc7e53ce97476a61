-------------------------- MODULE SchedulingContract --------------------------
(***************************************************************************)
(* What the scheduler promises its users, without queues, calls, bundles   *)
(* or placements: manifests come, are scheduled as a whole and go.         *)
(*                                                                         *)
(* A place is where one bundle of a manifest can run.  Before anything is  *)
(* started for a manifest there is a plan that names all its places; only  *)
(* what is in the plan is started and only what is not in it is stopped.   *)
(* A plan can be given up at any moment, half carried out.  Once a         *)
(* manifest is being closed nothing of it starts, and it leaves only when  *)
(* nothing of it runs.                                                     *)
(***************************************************************************)
CONSTANTS Manifests, Places, NoPlan

VARIABLES
  life,       \* of a manifest: absent, open or closing
  plan,       \* the places a manifest is being brought to, or NoPlan
  running     \* the places where it runs

contractVars == <<life, plan, running>>

Init ==
  /\ life = [m \in Manifests |-> "absent"]
  /\ plan = [m \in Manifests |-> NoPlan]
  /\ running = [m \in Manifests |-> {}]

Submit(m) ==
  /\ life[m] = "absent"
  /\ life' = [life EXCEPT ![m] = "open"]
  /\ UNCHANGED <<plan, running>>

\* The scheduler carries out one plan at a time.
Decide(m) ==
  /\ life[m] = "open" /\ \A n \in Manifests : plan[n] = NoPlan
  /\ plan'[m] # NoPlan /\ plan'[m] \subseteq Places
  /\ plan' = [plan EXCEPT ![m] = plan'[m]]
  /\ UNCHANGED <<life, running>>

StartAt(m, p) ==
  /\ life[m] = "open" /\ plan[m] # NoPlan /\ p \in plan[m] \ running[m]
  /\ running' = [running EXCEPT ![m] = @ \cup {p}]
  /\ UNCHANGED <<life, plan>>

StopAt(m, p) ==
  /\ plan[m] # NoPlan /\ p \in running[m] \ plan[m]
  /\ running' = [running EXCEPT ![m] = @ \ {p}]
  /\ UNCHANGED <<life, plan>>

\* Because all is done, or because something failed.
GiveUp(m) ==
  /\ plan[m] # NoPlan
  /\ plan' = [plan EXCEPT ![m] = NoPlan]
  /\ UNCHANGED <<life, running>>

Close(m) ==
  /\ life[m] = "open" /\ plan[m] = NoPlan
  /\ life' = [life EXCEPT ![m] = "closing"]
  /\ UNCHANGED <<plan, running>>

Clear(m, p) ==
  /\ life[m] = "closing" /\ p \in running[m]
  /\ running' = [running EXCEPT ![m] = @ \ {p}]
  /\ UNCHANGED <<life, plan>>

Leave(m) ==
  /\ life[m] # "absent" /\ plan[m] = NoPlan /\ running[m] = {}
  /\ life' = [life EXCEPT ![m] = "absent"]
  /\ UNCHANGED <<plan, running>>

Next ==
  \E m \in Manifests :
    \/ Submit(m) \/ Decide(m) \/ GiveUp(m) \/ Close(m) \/ Leave(m)
    \/ \E p \in Places : StartAt(m, p) \/ StopAt(m, p) \/ Clear(m, p)

Spec == Init /\ [][Next]_contractVars
=============================================================================
