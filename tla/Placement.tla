------------------------------- MODULE Placement -------------------------------
(***************************************************************************)
(* Replica placement and the per-key replication plan of a storage node    *)
(* (crates/server-node-sdk/src/cluster.rs).                                *)
(*                                                                         *)
(* Placement is rendezvous hashing: every node has a score for a key, and  *)
(* the eligible nodes are tried in the order of their scores.  A first     *)
(* pass prefers nodes that bring a label value (data centre, rack) that is *)
(* still needed, a second pass fills up to the replication factor.         *)
(*                                                                         *)
(* A score is a hash of the key and the node id; all that matters of it is *)
(* the order it puts the nodes in, Rank[key].                              *)
(***************************************************************************)
EXTENDS Naturals, Sequences, FiniteSets, TLC

CONSTANTS NodeIds,             \* all node ids
          Keys,                \* base keys, the unit of placement
          Rank,                \* Rank[key]: the nodes by decreasing rendezvous_score
          LabelKeys,           \* the keys of policy.min_distinct_labels
          MinDistinct,         \* policy.min_distinct_labels
          Label,               \* Label[n][l]: node n's value of label l
          ReplicationFactor    \* policy.replication_factor

ASSUME RankAssumption ==
    \A k \in Keys : /\ Rank[k] \in [1..Cardinality(NodeIds) -> NodeIds]
                    /\ {Rank[k][i] : i \in 1..Cardinality(NodeIds)} = NodeIds
ASSUME PolicyAssumption ==
    /\ IsFiniteSet(NodeIds) /\ IsFiniteSet(LabelKeys)
    /\ ReplicationFactor \in Nat
    /\ \A l \in LabelKeys : MinDistinct[l] \in Nat

Elements(q) == {q[i] : i \in DOMAIN q}

\* filter(..).collect(): the elements of q that are in S, in their order.
Filtered(q, S) ==
    LET kept[i \in 0..Len(q)] ==
            IF i = 0 THEN <<>>
            ELSE IF q[i] \in S THEN Append(kept[i - 1], q[i]) ELSE kept[i - 1]
    IN  kept[Len(q)]

Least(a, b) == IF a < b THEN a ELSE b

\* The label values the selected nodes have so far.
SeenValues(sel, l) == {Label[m][l] : m \in Elements(sel)}

\* helps_constraint: n adds a value of a label that still needs more values.
HelpsConstraint(sel, n) ==
    \E l \in LabelKeys :
        /\ Cardinality(SeenValues(sel, l)) < MinDistinct[l]
        /\ Label[n][l] \notin SeenValues(sel, l)

\* The first loop of select_nodes_by_rendezvous_matching.
FirstPass(ranked) ==
    LET picked[i \in 0..Len(ranked)] ==
            IF i = 0 THEN <<>>
            ELSE IF /\ Len(picked[i - 1]) < ReplicationFactor
                    /\ \/ HelpsConstraint(picked[i - 1], ranked[i])
                       \/ Len(picked[i - 1]) < Cardinality(LabelKeys)
                 THEN Append(picked[i - 1], ranked[i])
                 ELSE picked[i - 1]
    IN  picked[Len(ranked)]

\* Mutant: the second loop tests the factor after it has pushed.
SecondPassOvershoots(sel, ranked) ==
    LET rest == Filtered(ranked, NodeIds \ Elements(sel))
        room == ReplicationFactor + 1 - Len(sel)
    IN  sel \o SubSeq(rest, 1, Least(Len(rest), room))

\* The second loop: the best ranked of the others, up to the factor.
SecondPass(sel, ranked) ==
    LET rest == Filtered(ranked, NodeIds \ Elements(sel))
        room == ReplicationFactor - Len(sel)
    IN  sel \o SubSeq(rest, 1, Least(Len(rest), room))

\* Mutant: the key picks a starting point modulo the number of nodes.
SelectByModulo(key, eligible) ==
    LET ranked == Filtered(Rank[key], eligible)
        start  == IF ranked = <<>> THEN 0 ELSE 7 % Len(ranked)
        turned == SubSeq(ranked, start + 1, Len(ranked)) \o SubSeq(ranked, 1, start)
    IN  SecondPass(FirstPass(turned), turned)

\* select_nodes_by_rendezvous_matching(key, nodes, policy, eligible)
SelectNodes(key, eligible) ==
    LET ranked == Filtered(Rank[key], eligible)
    IN  SecondPass(FirstPass(ranked), ranked)

-------------------------------------------------------------------------------
(***************************************************************************)
(* ReplicationPlanSnapshot::plan, for one key: desired is the placement    *)
(* over the online nodes, current the nodes that claim to hold the key,    *)
(* offline ones included.                                                  *)
(***************************************************************************)

\* Mutant: every desired node without a copy gets one.
MissingUnbounded(desired, current) ==
    Filtered(desired, NodeIds \ current)

\* missing_nodes: only as many as the key is short of, so that copies on nodes
\* outside the placement are kept instead of being moved.
MissingNodes(desired, current) ==
    LET absent == Filtered(desired, NodeIds \ current)
        needed == IF Len(desired) > Cardinality(current)
                  THEN Len(desired) - Cardinality(current) ELSE 0
    IN  SubSeq(absent, 1, Least(Len(absent), needed))

\* raw_extra_nodes: every claim outside the placement, unless its node is a
\* remembered offline one.
RawExtraNodes(desired, current, offline) ==
    IF Cardinality(current) > Len(desired)
    THEN (current \ Elements(desired)) \ offline
    ELSE {}

\* extra_nodes when the plan may still tolerate that many extra copies: some of
\* the raw extras, the ones with the least free space.
ExtraNodeChoices(desired, current, offline, tolerated) ==
    LET raw  == RawExtraNodes(desired, current, offline)
        kept == Least(Cardinality(raw), tolerated)
    IN  {E \in SUBSET raw : Cardinality(E) = Cardinality(raw) - kept}

===============================================================================
