------------------------------- MODULE MCRepair -------------------------------
(***************************************************************************)
(* The two sides of replica repair, one in each behaviour: the gate, and   *)
(* the plans that are executed behind it.                                  *)
(*                                                                         *)
(* The gate has three tasks and three calls of acquire, so that a manual   *)
(* and an automatic waiter queue behind a holder, or a task comes back     *)
(* while another waits, and the clock passes an aging deadline twice.      *)
(* Tasks are not made symmetric because a liveness property is checked.    *)
(*                                                                         *)
(* The plans are for three copies in two racks; there are five nodes in    *)
(* three racks, and the second key ranks the nodes of one rack first.      *)
(***************************************************************************)
EXTENDS RepairGate, PlacementWalk

MCRank == [a |-> <<"n1", "n2", "n3", "n4", "n5">>, b |-> <<"n2", "n5", "n1", "n4", "n3">>]
Rack == [n1 |-> "rack1", n2 |-> "rack2", n3 |-> "rack1", n4 |-> "rack3", n5 |-> "rack2"]
MCLabel == [n \in NodeIds |-> [rack |-> Rack[n]]]
MCMinDistinct == [rack |-> 2]

VARIABLE part    \* "gate" or "plans"

repairVars == <<vars, walkVars, part>>

MCInit ==
    /\ Init
    /\ \/ part = "gate" /\ eligible = {} /\ claims = {}
       \/ part = "plans" /\ WalkInit

GateStep == part = "gate" /\ Next /\ UNCHANGED <<walkVars, part>>
PlanStep == part = "plans" /\ WalkNext /\ UNCHANGED <<vars, part>>

\* The fairness of FairSpec, for the behaviours of the gate.
MCSpec ==
    /\ MCInit /\ [][GateStep \/ PlanStep]_repairVars
    /\ WF_vars(part = "gate" /\ Tick)
    /\ \A t \in Tasks : WF_vars(part = "gate" /\ Progress(t))

===============================================================================
