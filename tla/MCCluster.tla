------------------------------ MODULE MCCluster ------------------------------
(***************************************************************************)
(* Two independent parts of a cluster, one in each behaviour: the view     *)
(* that a node has of the others, and the tunnels by which a client        *)
(* reaches a node through a rendezvous server.                             *)
(***************************************************************************)
EXTENDS MCClusterView, RelayTunnel

VARIABLE part

clusterVars == <<vars, tunnelVars, part>>

\* Workers take part in the first part only, about which no liveness is stated.
WorkerSymmetry == Permutations(Workers)

MCInit == Init /\ TunnelInit /\ part \in {"view", "tunnel"}

ViewStep == part = "view" /\ Next /\ UNCHANGED <<tunnelVars, part>>
TunnelStep == part = "tunnel" /\ TunnelNext /\ UNCHANGED <<vars, part>>

\* The node's wake task and the server's side of its accepts.
AcceptStep ==
    /\ part = "tunnel"
    /\ NodeStep \/ \E a \in Accepts : TargetStep(a)
    /\ UNCHANGED <<vars, part>>

MCSpec == MCInit /\ [][ViewStep \/ TunnelStep]_clusterVars /\ WF_clusterVars(AcceptStep)

===============================================================================
