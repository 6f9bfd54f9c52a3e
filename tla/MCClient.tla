------------------------------- MODULE MCClient -------------------------------
(***************************************************************************)
(* The two client-side components, side by side in one run: they share     *)
(* nothing, so a behaviour is one of the relay leases or one of the folder *)
(* agent, and the other part stays in its initial state.                   *)
(***************************************************************************)
EXTENDS RelayLease, FolderAgent, TLC

VARIABLE part    \* "relay" or "folder"

CONSTANTS r1, r2, o1, o2

\* Two routes that share one rendezvous service; one of them has another.
TwoRoutes == {r1, r2}
TwoOrigins == {o1, o2}
Overlapping == r1 :> {o1} @@ r2 :> {o1, o2}

\* A behaviour with two disturbances has two setups.
FewerSetupsWhenDisturbed == attempts + disturbances <= 4

MCInit == part \in {"relay", "folder"} /\ Init /\ FolderInit

RelayStep == part = "relay" /\ Next /\ UNCHANGED <<folderVars, part>>
FolderStep == part = "folder" /\ FolderNext /\ UNCHANGED <<vars, part>>

MCSpec == MCInit /\ [][RelayStep \/ FolderStep]_<<vars, folderVars, part>>

\* The variables of both parts have their types: session_pool.rs with the
\* lease budget, and the folder agent's state.
ClientTypeOK == TypeOK /\ FolderTypeOK

===============================================================================
