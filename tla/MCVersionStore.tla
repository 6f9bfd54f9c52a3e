---------------------------- MODULE MCVersionStore ----------------------------
(***************************************************************************)
(* Instances of VersionStore and ReplicaImport: a behaviour is one of a    *)
(* node alone, with all the operations of its store, or one of two nodes   *)
(* that replicate to each other.  Paths are model values and               *)
(* interchangeable.  Three ids are the fewest with which an object is      *)
(* written and renamed: a rename makes two.                                *)
(***************************************************************************)
EXTENDS ReplicaImport, TLC

VARIABLES part,    \* "alone" or "replicas"
          peerIndexes, peerBindings, peerPending, peerImport

\* The two nodes: ids are unique in the cluster, the clocks agree, and the clients
\* of one node write other contents than those of the other.
This == INSTANCE ReplicaImport WITH Contents <- {"x"}
Peer == INSTANCE ReplicaImport WITH
    Contents <- {"y"}, indexes <- peerIndexes, bindings <- peerBindings, pending <- peerPending,
    import <- peerImport, outbox <- inbox, inbox <- outbox

storeVars == <<indexes, bindings, pending, import>>
peerVars == <<peerIndexes, peerBindings, peerPending, peerImport>>

Symmetry == Permutations(Paths)

MCInit == part \in {"alone", "replicas"} /\ ReplicaInit /\ Peer!ReplicaInit

Alone == INSTANCE VersionStore WITH MaxIds <- 3, Contents <- {"x"}

\* Bound: a node alone makes three ids and is disturbed once, by a crash or by a
\* second that passes; it makes two where a second passes, since two versions are
\* enough to order, and where a crash meets a peer's version.
OfPeer == \E v \in Stored : v.n \in ForeignIds
DisturbedOnce ==
    /\ now + crashes <= 1
    /\ now = 1 \/ (crashes = 1 /\ OfPeer) => ids <= 2

\* Bound: two nodes make four ids, or three and a crash.
CrashOrFourIds == crashes + ids <= 4

AloneStep ==
    /\ part = "alone" /\ Alone!Next
    /\ DisturbedOnce'
    /\ UNCHANGED <<outbox, inbox, import, peerVars, part>>

\* The nodes share only the bundles, which are read and written when no operation
\* is under way, so that it is enough to have one node at a time at work.  The
\* properties are about this node.  Bound: the other node does not stop.
ThisStep ==
    /\ part = "replicas" /\ peerPending = Idle /\ peerImport = NoImport
    /\ This!ReplicaNext /\ CrashOrFourIds' /\ UNCHANGED <<peerVars, part>>

PeerStep ==
    /\ part = "replicas" /\ pending = Idle /\ import = NoImport
    /\ Peer!ReplicaNext /\ CrashOrFourIds' /\ UNCHANGED <<crashes, storeVars, part>>

MCNext == AloneStep \/ ThisStep \/ PeerStep

MCSpec == MCInit /\ [][MCNext]_<<replicaVars, peerVars, part>>

===============================================================================
