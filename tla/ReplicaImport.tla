----------------------------- MODULE ReplicaImport -----------------------------
(***************************************************************************)
(* Replication of versions from node to node: export_replication_bundle    *)
(* and import_replication_bundle of PersistentStore                        *)
(* (crates/server-node-sdk/src/storage/mod.rs).                            *)
(*                                                                         *)
(* A node exports a head of one of its objects as a bundle; another node   *)
(* imports it, at any later time, and as often as it is sent.  The import  *)
(* chooses the object the version belongs to, takes the version away from  *)
(* every other object that has it at the same path, inserts it, and brings *)
(* the path's binding up to date.  It holds the store's lock from its      *)
(* first to its last write, and makes each write on its own.               *)
(*                                                                         *)
(* The variables are those of one node; a composition makes the outbox of  *)
(* one node the inbox of the other.  Every bundle has an object id, a      *)
(* version id and a path, as all exports of the present code have;         *)
(* manifests and chunks are those of ContentStore and have arrived.        *)
(***************************************************************************)
EXTENDS VersionStore

CONSTANT MaxBundles    \* bound: bundles that a node exports

ASSUME BundleAssumption == MaxBundles \in Nat

VARIABLES outbox,      \* every bundle that this node exported
          inbox,       \* every bundle that may arrive here, and arrive again
          import       \* the import that holds the lock, and its next stage

replicaVars == <<vars, outbox, inbox, import>>

NoImport == [stage |-> "none"]

ReplicaInit == Init /\ outbox = {} /\ inbox = {} /\ import = NoImport

-------------------------------------------------------------------------------
(***************************************************************************)
(* Export                                                                  *)
(***************************************************************************)

\* The heads that list_replication_subjects names: those of bound objects under
\* the path of the binding, the others under the path they were written for.
SubjectPath(o, v) ==
    IF BoundPaths(o) # {} THEN CHOOSE p \in BoundPaths(o) : TRUE ELSE indexes[o].versions[v].path

Export(o, v) ==
    /\ pending = Idle /\ import = NoImport
    /\ v \in indexes[o].heads
    /\ o \in ResolveVersion(SubjectPath(o, v), v)
    /\ Cardinality(outbox) < MaxBundles
    /\ outbox' = outbox \cup {[object |-> o, version |-> v, record |-> indexes[o].versions[v],
                               selected_is_preferred_head |-> indexes[o].preferred = v]}
    /\ UNCHANGED <<vars, inbox, import>>

-------------------------------------------------------------------------------
(***************************************************************************)
(* Import                                                                  *)
(***************************************************************************)

IsTombstone(b) == b.record.manifest = TOMBSTONE

\* resolve_object_id_for_key_history
ResolveHistory(p) ==
    IF Bound(p) THEN {bindings[p].object}
    ELSE {o \in Objects : indexes[o].preferred # NoVersion /\ HeadRecord(indexes[o]).path = p}

\* The bundle is about an object that was deleted here.
Deleted(b) ==
    LET ix == indexes[b.object]
    IN  /\ ix.preferred \notin {NoVersion, b.version}
        /\ HeadRecord(ix).manifest = TOMBSTONE

Recreates(b) == ~IsTombstone(b) /\ b.selected_is_preferred_head /\ Deleted(b)

\* choose_replication_bundle_object_id: a preferred head keeps its object unless
\* that was deleted here; what is no longer preferred joins whatever the path has.
Lineage(b) ==
    LET p == b.record.path
    IN  IF IsTombstone(b) THEN {b.object}
        ELSE IF Recreates(b) THEN {NewObject}
        ELSE IF b.selected_is_preferred_head THEN {b.object}
        ELSE IF ResolveVersion(p, b.version) # {} THEN ResolveVersion(p, b.version)
        ELSE IF ResolveHistory(p) # {} THEN ResolveHistory(p)
        ELSE {b.object}

Later(s, t) == IF s > t THEN s ELSE t

\* A version that comes back after a deletion is dated after it.
ImportedRecord(b) ==
    IF Recreates(b) THEN [b.record EXCEPT !.created_at = Later(b.record.created_at, now) + 1]
    ELSE b.record

StartImport(b) ==
    /\ pending = Idle /\ import = NoImport
    /\ ids + (IF Recreates(b) THEN 1 ELSE 0) <= MaxIds
    /\ ids' = ids + (IF Recreates(b) THEN 1 ELSE 0)
    /\ \E o \in Lineage(b) :
          import' = [stage |-> "prune", bundle |-> b, object |-> o, record |-> ImportedRecord(b)]
    /\ UNCHANGED <<durable, pending, now, crashes, outbox, inbox>>

\* Mutant: only the object that the sender names is looked at.
ConflictingAtSender ==
    {o \in {import.bundle.object} :
        /\ import.bundle.version \in DOMAIN indexes[o].versions
        /\ ~(o = import.object /\ indexes[o].versions[import.bundle.version] = import.record)}

\* The indexes that have the version at the same path, in another object or with
\* another record.
Conflicting ==
    {o \in Objects :
        /\ import.bundle.version \in DOMAIN indexes[o].versions
        /\ indexes[o].versions[import.bundle.version].path = import.record.path
        /\ ~(o = import.object /\ indexes[o].versions[import.bundle.version] = import.record)}

\* Mutant: the whole index goes.
PruneIndex(o) ==
    /\ pending = Idle
    /\ import.stage = "prune"
    /\ o \in Conflicting
    /\ pending' = Settle(SyncPlan("prune", import.record.path, o, EmptyIndex, {"index"}))
    /\ UNCHANGED <<durable, ids, now, crashes, outbox, inbox, import>>

\* prune_conflicting_replication_bundle_versions, one index after the other; an
\* index that becomes empty is deleted.
Prune(o) ==
    /\ pending = Idle
    /\ import.stage = "prune"
    /\ o \in Conflicting
    /\ pending' = Settle(SyncPlan("prune", import.record.path, o,
                     Reindexed(Without(indexes[o].versions, import.bundle.version)), {"index"}))
    /\ UNCHANGED <<durable, ids, now, crashes, outbox, inbox, import>>

\* Mutant: a version that is already there ends the import.
InsertUnlessStored ==
    LET o == import.object
        v == import.bundle.version
        stored == v \in DOMAIN indexes[o].versions
    IN  /\ pending = Idle
        /\ import.stage = "prune" /\ Conflicting = {}
        /\ pending' = IF stored THEN Idle
                      ELSE Settle(SyncPlan("import", import.record.path, o,
                                Reindexed(Insert(indexes[o].versions, v, import.record)), {"index"}))
        /\ import' = [import EXCEPT !.stage = IF stored THEN "done" ELSE "select"]
        /\ UNCHANGED <<durable, ids, now, crashes, outbox, inbox>>

\* The version is inserted unless it is there already; the binding is brought up
\* to date in both cases.
InsertVersion ==
    LET o == import.object
        v == import.bundle.version
        stored == v \in DOMAIN indexes[o].versions
    IN  /\ pending = Idle
        /\ import.stage = "prune" /\ Conflicting = {}
        /\ pending' = Settle(SyncPlan("import", import.record.path, o,
                          IF stored THEN indexes[o]
                          ELSE Reindexed(Insert(indexes[o].versions, v, import.record)),
                          IF stored THEN {} ELSE {"index"}))
        /\ import' = [import EXCEPT !.stage = "select"]
        /\ UNCHANGED <<durable, ids, now, crashes, outbox, inbox>>

\* promote_current_state_for_key_from_index: the path goes to the object even if
\* another one has it, unless the object is bound elsewhere and its head says so.
PromotePlan(p, o) ==
    LET ix    == indexes[o]
        moves == HeadRecord(ix).path = p \/ BoundPaths(o) \ {p} = {}
        binds == moves /\ bindings[p] # [object |-> o, manifest |-> HeadRecord(ix).manifest]
    IN  IF ~Live(ix) THEN Plan("promote", p, o, ix, BoundPaths(o), TOMBSTONE, {}, NoMarker)
        ELSE Plan("promote", p, o, ix, IF moves THEN BoundPaths(o) \ {p} ELSE {},
                  HeadRecord(ix).manifest, IF binds THEN {"bind"} ELSE {}, NoMarker)

Promote ==
    /\ pending = Idle
    /\ import.stage = "select"
    /\ import.bundle.selected_is_preferred_head /\ ~IsTombstone(import.bundle)
    /\ pending' = Settle(PromotePlan(import.record.path, import.object))
    /\ import' = [import EXCEPT !.stage = "done"]
    /\ UNCHANGED <<durable, ids, now, crashes, outbox, inbox>>

\* replica_version_order_key: the second, then the nanoseconds of the id, which
\* cannot be read from the id of a rename's tombstone.
Nanos(v) == IF v.kind = "rename_tomb" THEN 0 ELSE v.n

\* replica_tombstone_supersedes_current_key
Supersedes(b, p) ==
    LET ix   == IndexFor(p)
        head == HeadRecord(ix)
    IN  /\ Live(ix)
        /\ head.path = p
        /\ \/ b.record.created_at > head.created_at
           \/ b.record.created_at = head.created_at /\ Nanos(b.version) > Nanos(ix.preferred)

\* apply_selected_replica_tombstone_current_state
TakesName(b, p) ==
    /\ Bound(p)
    /\ \/ bindings[p].object = b.object
       \/ bindings[p].object = b.record.copied_from
       \/ Supersedes(b, p)

ApplyTombstone ==
    LET p == import.record.path
    IN  /\ pending = Idle
        /\ import.stage = "select"
        /\ import.bundle.selected_is_preferred_head /\ IsTombstone(import.bundle)
        /\ bindings' = IF TakesName(import.bundle, p) THEN [bindings EXCEPT ![p] = Unbound] ELSE bindings
        /\ import' = [import EXCEPT !.stage = "done"]
        /\ UNCHANGED <<indexes, pending, ids, now, crashes, outbox, inbox>>

\* A bundle that was not the preferred head changes nothing more.
LeaveCurrent ==
    /\ pending = Idle
    /\ import.stage = "select"
    /\ ~import.bundle.selected_is_preferred_head
    /\ import' = [import EXCEPT !.stage = "done"]
    /\ UNCHANGED <<vars, outbox, inbox>>

\* The last write was made; the sender gets its answer.
EndImport ==
    /\ pending = Idle
    /\ import.stage = "done"
    /\ import' = NoImport
    /\ UNCHANGED <<vars, outbox, inbox>>

ImportStep ==
    \/ InsertVersion \/ Promote \/ ApplyTombstone \/ LeaveCurrent \/ EndImport
    \/ \E o \in Objects : Prune(o)

\* The process stops between two writes, and the sender does not get its answer.
Stop ==
    /\ ~(pending = Idle /\ import = NoImport)
    /\ crashes < MaxCrashes
    /\ crashes' = crashes + 1
    /\ pending' = Idle
    /\ import' = NoImport
    /\ UNCHANGED <<durable, ids, now, outbox, inbox>>

-------------------------------------------------------------------------------
(***************************************************************************)
(* A node among others                                                     *)
(***************************************************************************)

\* Bound: clients of replicated nodes put, delete and rename, and a put follows
\* the preferred head or a version that others follow already.
Followed(ix) == DOMAIN ix.versions \ ix.heads

ClientOperation(p) ==
    \/ \E c \in Contents, requested \in {{}} \cup {{v} : v \in Followed(IndexFor(p))} :
          Put(p, c, requested, Confirmed)
    \/ Tombstone(p, {}, Confirmed)
    \/ \E q \in Paths : Rename(p, q)

ReplicaNext ==
    \/ Writing /\ UNCHANGED <<outbox, inbox, import>>
    \/ import = NoImport /\ (\E p \in Paths : ClientOperation(p)) /\ UNCHANGED <<outbox, inbox, import>>
    \/ \E o \in Objects : \E v \in indexes[o].heads : Export(o, v)
    \/ \E b \in inbox : StartImport(b)
    \/ ImportStep
    \/ Stop

-------------------------------------------------------------------------------
(***************************************************************************)
(* Properties                                                              *)
(***************************************************************************)

\* Bundles that come late, twice or after a crash do not split a history: a
\* version that was written for a path is in one object.  (A provisional version
\* that is reconciled a second time, after its object was deleted, is not moved.)
OneHistoryPerVersion ==
    \A o \in Objects : \A v \in DOMAIN indexes[o].versions :
        v.n \notin ForeignIds =>
            ~\E other \in Objects \ {o} :
                /\ v \in DOMAIN indexes[other].versions
                /\ indexes[other].versions[v].path = indexes[o].versions[v].path

\* An import that is answered has stored its version; the object of a live
\* preferred head has a name, and if its head belongs to the bundle's path, that
\* path shows it, whatever was left when the process stopped in an earlier import.
ImportedIsReadable ==
    import.stage = "done" /\ pending = Idle =>
        LET ix == indexes[import.object]
        IN  /\ import.bundle.version \in DOMAIN ix.versions
            /\ Live(ix) /\ import.bundle.selected_is_preferred_head /\ ~IsTombstone(import.bundle) =>
                  /\ BoundPaths(import.object) # {}
                  /\ HeadRecord(ix).path = import.record.path =>
                        bindings[import.record.path] =
                            [object |-> import.object, manifest |-> HeadRecord(ix).manifest]

\* No version disappears from a node, except by a request to delete or to drop it,
\* and while an import moves it to another object.
NoVersionLost ==
    [][\A v \in Stored \ Stored' :
          \/ pending.op \in {"delete", "drop"}
          \/ import # NoImport /\ v = import.bundle.version]_replicaVars

===============================================================================
