---------------------------- MODULE PlacementWalk ----------------------------
(***************************************************************************)
(* The placement and plan operators over every set of eligible nodes and   *)
(* every set of claims: a state is one input, a step takes one node out of *)
(* or into the cluster, or makes the copies that a plan misses.            *)
(***************************************************************************)
EXTENDS Placement

VARIABLES eligible,   \* the online nodes
          claims      \* the nodes that claim the key

walkVars == <<eligible, claims>>

WalkInit == eligible \in SUBSET NodeIds /\ claims \in SUBSET NodeIds

\* A node goes offline, or comes back.
Toggle(n) ==
    /\ eligible' = IF n \in eligible THEN eligible \ {n} ELSE eligible \cup {n}
    /\ UNCHANGED claims

\* The missing copies of a plan are made.
Repair(k) ==
    /\ claims' = claims \cup Elements(MissingNodes(SelectNodes(k, eligible), claims))
    /\ UNCHANGED eligible

WalkNext == (\E n \in NodeIds : Toggle(n)) \/ (\E k \in Keys : Repair(k))

WalkSpec == WalkInit /\ [][WalkNext]_walkVars

-------------------------------------------------------------------------------

\* The placement names as many distinct online nodes as the replication factor
\* asks for and the cluster has, whatever the labels.
PlacementIsFull ==
    \A k \in Keys :
        LET sel == SelectNodes(k, eligible)
        IN  /\ Elements(sel) \subseteq eligible
            /\ Cardinality(Elements(sel)) = Len(sel)
            /\ Len(sel) = Least(ReplicationFactor, Cardinality(eligible))

\* With one label in the policy, the greedy first pass finds the required number
\* of distinct values whenever the online nodes have them and the factor has
\* room for them.
LabelsAreSpread ==
    Cardinality(LabelKeys) = 1 =>
    \A k \in Keys, l \in LabelKeys :
        Cardinality(SeenValues(SelectNodes(k, eligible), l))
            >= Least(MinDistinct[l],
                     Least(ReplicationFactor, Cardinality({Label[n][l] : n \in eligible})))

\* The missing copies of a plan bring the claims to the size of the placement
\* and not above it: the plan neither stops short nor over-replicates.
RepairReachesTarget ==
    \A k \in Keys :
        LET desired == SelectNodes(k, eligible)
            after   == claims \cup Elements(MissingNodes(desired, claims))
        IN  Cardinality(after) = IF Cardinality(claims) > Len(desired)
                                 THEN Cardinality(claims) ELSE Len(desired)

\* What select_nodes_by_rendezvous and plan promise, for the labels and the factor
\* of the policy.
PlansMeetThePolicy == PlacementIsFull /\ LabelsAreSpread /\ RepairReachesTarget

\* When one node goes away, every other node of a placement stays in it: only the
\* lost node's copies move, also where the labels have to be spread.  The policy
\* has one label, or asks for one value of each, as the default policy does.
PlacementIsStable ==
    Cardinality(LabelKeys) <= 1 \/ (\A l \in LabelKeys : MinDistinct[l] <= 1) =>
    \A k \in Keys, n \in eligible :
        Elements(SelectNodes(k, eligible)) \ {n} \subseteq Elements(SelectNodes(k, eligible \ {n}))

===============================================================================
