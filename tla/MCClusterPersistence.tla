------------------------- MODULE MCClusterPersistence -------------------------
(***************************************************************************)
(* What a node keeps on disk beside its content: its view of the cluster,  *)
(* with one peer and one version of one key, and its upload sessions, one  *)
(* with one chunk and two requests at a time.  The two share nothing: a    *)
(* behaviour is one of the persisted view or one of the sessions.          *)
(***************************************************************************)
EXTENDS ClusterPersistence, UploadSession

MCKeyOf == [s \in Subjects |-> "k"]
MCKind == [s \in Subjects |-> IF s = "k" THEN "none" ELSE "ver"]
MCRank == [k \in Keys |-> <<"n2", "n1">>]
MCLabel == [n \in NodeIds |-> [l \in LabelKeys |-> n]]
MCMinDistinct == [l \in LabelKeys |-> 1]

\* Tasks and handlers are interchangeable, and so are chunks.
NodeSymmetry ==
    Permutations(Tasks) \cup Permutations(Handlers) \cup Permutations(Contents)

-------------------------------------------------------------------------------

VARIABLE part      \* "view" or "uploads"

MCInit == PersistInit /\ UploadInit /\ part \in {"view", "uploads"}

ViewStep == part = "view" /\ PersistNext /\ UNCHANGED <<uploadVars, part>>
UploadStep == part = "uploads" /\ UploadNext /\ UNCHANGED <<allVars, part>>

\* The requests have all been answered, which is no deadlock.
AllAnswered ==
    /\ part = "uploads" /\ requests = MaxRequests /\ \A h \in Handlers : handler[h].pc = "idle"
    /\ UNCHANGED <<allVars, uploadVars, part>>

MCNext == ViewStep \/ UploadStep \/ AllAnswered

MCSpec == MCInit /\ [][MCNext]_<<allVars, uploadVars, part>>

\* Bound: the more faults, the fewer requests.
FewerRequestsAfterFaults == requests + faults <= 5

\* The variables of the persisted view and of the upload sessions have their
\* types, in the middle of failed writes and after restarts too.
NodeTypeOK == PersistTypeOK /\ UploadTypeOK

===============================================================================
