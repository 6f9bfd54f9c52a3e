---------------------------- MODULE MCClusterView ----------------------------
(***************************************************************************)
(* Small clusters for the cluster view.                                    *)
(***************************************************************************)
EXTENDS ClusterView

\* One key and one version of it.
MCKeyOf == [s \in Subjects |-> "k"]
MCKind == [s \in Subjects |-> IF s = "k" THEN "none" ELSE "ver"]

\* This node is not the first choice of the key.
MCRank == [k \in Keys |->
             CASE Cardinality(NodeIds) = 2 -> <<"n2", "n1">>
               [] Cardinality(NodeIds) = 3 -> <<"n2", "n1", "n3">>
               [] OTHER -> <<"n4", "n3", "n2", "n1">>]
MCLabel == [n \in NodeIds |-> [l \in LabelKeys |-> n]]
MCMinDistinct == [l \in LabelKeys |-> 1]

===============================================================================
