------------------------------ MODULE VersionStore ------------------------------
(***************************************************************************)
(* The versioned object store of a node                                    *)
(* (PersistentStore in crates/server-node-sdk/src/storage/mod.rs).         *)
(*                                                                         *)
(* A path is bound to an object id; an object has an index of versions,    *)
(* its heads and its preferred head.  Every operation runs under the       *)
(* store's exclusive lock, but makes several separate durable writes: it   *)
(* persists the version index, removes path bindings, inserts one, and a   *)
(* rename then persists a second index, with a tombstone for the old path. *)
(* An operation is modelled as a plan made under the lock, and one step    *)
(* per write; a crash drops what is left of the plan, and nothing repairs  *)
(* the bindings when the store is opened again.                            *)
(*                                                                         *)
(* Content is what the client wrote; a manifest also names its key, so a   *)
(* rename or a copy makes a new manifest.  Snapshots, manifest and chunk   *)
(* files, and the XMP sidecar that follows a media file are left out.      *)
(***************************************************************************)
EXTENDS Naturals, FiniteSets

CONSTANTS Paths,         \* namespace keys
          Contents,      \* what a client may write
          ForeignIds,    \* numbers of version ids that peers made
          MaxIds,        \* bound: version and object ids made by this node
          MaxTime,       \* bound: last second of unix_ts()
          MaxCrashes     \* bound: crashes in the middle of an operation

ASSUME PathAssumption == "" \notin Paths
ASSUME ForeignAssumption == ForeignIds \subseteq Nat /\ ForeignIds \cap (1..MaxIds) = {}
ASSUME BoundAssumption == MaxIds \in Nat /\ MaxTime \in Nat /\ MaxCrashes \in Nat

VARIABLES indexes,    \* version index per object id
          bindings,   \* current object entry per path
          pending,    \* what is left of the operation that holds the lock
          ids,        \* how many ids were made: unix_ts_nanos() and new object ids
          now,        \* unix_ts()
          crashes

vars == <<indexes, bindings, pending, ids, now, crashes>>
durable == <<indexes, bindings>>

-------------------------------------------------------------------------------
(***************************************************************************)
(* Version ids, records and indexes                                        *)
(***************************************************************************)

Objects == 1..MaxIds

\* The prefixes of version ids in the order of their characters.
KindRank == [copy |-> 1, ren |-> 2, rename_tomb |-> 3, restore |-> 4, tomb |-> 5, ver |-> 6]
VersionIds == [kind : DOMAIN KindRank, n : 1..MaxIds] \cup [kind : {"ver"}, n : ForeignIds]
NoVersion == [kind |-> "none", n |-> 0]

\* Ids are compared as strings: the prefix, then the nanoseconds.
IdAfter(a, b) ==
    \/ KindRank[a.kind] > KindRank[b.kind]
    \/ a.kind = b.kind /\ a.n > b.n

\* rank_state
Confirmed == 2
Provisional == 1
States == {Confirmed, Provisional}

TOMBSTONE == [key |-> "", content |-> ""]
Manifest(p, c) == [key |-> p, content |-> c]
Manifests == [key : Paths, content : Contents] \cup {TOMBSTONE}

\* copied_from is kept where another node looks at it: the tombstone that a
\* rename leaves at a path names the object that left.  A version that an import
\* dates anew (ImportedRecord of ReplicaImport) may be dated after MaxTime.
Records == [manifest : Manifests, path : Paths, parents : SUBSET VersionIds,
            state : States, created_at : Nat, copied_from : Objects \cup {0}]

EmptyIndex == [versions |-> <<>>, heads |-> {}, preferred |-> NoVersion]

\* Mutant: the comparison of time and id is turned round.
OutranksOldestFirst(vs, a, b) ==
    \/ vs[a].state > vs[b].state
    \/ vs[a].state = vs[b].state /\ vs[a].created_at < vs[b].created_at
    \/ vs[a].state = vs[b].state /\ vs[a].created_at = vs[b].created_at /\ IdAfter(b, a)

\* choose_preferred_head: confirmed first, then the newest second, then the id.
Outranks(vs, a, b) ==
    \/ vs[a].state > vs[b].state
    \/ vs[a].state = vs[b].state /\ vs[a].created_at > vs[b].created_at
    \/ vs[a].state = vs[b].state /\ vs[a].created_at = vs[b].created_at /\ IdAfter(a, b)

PreferredHead(vs, heads) ==
    IF heads = {} THEN NoVersion
    ELSE CHOOSE h \in heads : \A k \in heads \ {h} : Outranks(vs, h, k)

Index(vs, heads) == [versions |-> vs, heads |-> heads, preferred |-> PreferredHead(vs, heads)]

\* versions.insert
Insert(vs, v, record) == [w \in DOMAIN vs \cup {v} |-> IF w = v THEN record ELSE vs[w]]

\* recompute_head_version_ids
Leaves(vs) == {v \in DOMAIN vs : \A w \in DOMAIN vs : v \notin vs[w].parents}

\* Mutant: the new version becomes the only head.
WithVersionAsOnlyHead(ix, v, record) == Index(Insert(ix.versions, v, record), {v})

\* A put, a tombstone and a rename take the parents off the heads they find.
WithVersion(ix, v, record) ==
    Index(Insert(ix.versions, v, record), (ix.heads \ record.parents) \cup {v})

\* A copy, a restore and a removal compute the heads afresh.
Reindexed(vs) == Index(vs, Leaves(vs))

-------------------------------------------------------------------------------
(***************************************************************************)
(* Bindings                                                                *)
(***************************************************************************)

Unbound == [object |-> 0, manifest |-> TOMBSTONE]
Entries == [object : Objects, manifest : Manifests] \cup {Unbound}

Bound(p) == bindings[p] # Unbound
BoundPaths(o) == {p \in Paths : bindings[p].object = o}

HeadRecord(ix) == ix.versions[ix.preferred]
Live(ix) == ix.preferred # NoVersion /\ HeadRecord(ix).manifest # TOMBSTONE

\* object_id_for_key, or a new id; ids that are made count up.
NewObject == ids + 1
ObjectFor(p) == IF Bound(p) THEN bindings[p].object ELSE NewObject
IndexFor(p) == IF Bound(p) THEN indexes[bindings[p].object] ELSE EmptyIndex

\* What an operation still has to write; unbind and bind are the effect of
\* sync_current_state_for_key_from_index.
Idle == [op |-> "idle"]
NoMarker == [object |-> 0, index |-> EmptyIndex]

Plan(op, p, o, ix, unbind, bind, todo, marker) ==
    [op |-> op, path |-> p, object |-> o, index |-> ix, unbind |-> unbind,
     bind |-> bind, todo |-> todo, marker |-> marker]

\* Mutant: the path an object leaves keeps its binding.
SyncKeepsOtherPaths(p, o, ix) == IF ~Live(ix) THEN BoundPaths(o) ELSE {}

\* Mutant: only the path of the request is looked at when an object is dead.
SyncUnbindsRequestOnly(p, o, ix) ==
    LET others == BoundPaths(o) \ {p}
    IN  IF ~Live(ix) THEN BoundPaths(o) \cap {p}
        ELSE IF (Bound(p) /\ bindings[p].object # o) \/ HeadRecord(ix).path # p THEN {}
        ELSE others

\* sync_current_state_for_key_from_index(p, ix): an object without a live head
\* loses its bindings; a path that belongs to another object is left alone; an
\* object that is bound elsewhere moves only to the path its head names.
SyncUnbind(p, o, ix) ==
    LET others == BoundPaths(o) \ {p}
    IN  IF ~Live(ix) THEN BoundPaths(o)
        ELSE IF (Bound(p) /\ bindings[p].object # o) \/ HeadRecord(ix).path # p THEN {}
        ELSE others

SyncBinds(p, o, ix) ==
    /\ Live(ix)
    /\ ~Bound(p) \/ bindings[p].object = o
    /\ HeadRecord(ix).path = p \/ BoundPaths(o) \ {p} = {}
    /\ bindings[p] # [object |-> o, manifest |-> HeadRecord(ix).manifest]

SyncPlan(op, p, o, ix, todo) ==
    Plan(op, p, o, ix, SyncUnbind(p, o, ix),
         IF Live(ix) THEN HeadRecord(ix).manifest ELSE TOMBSTONE,
         todo \cup (IF SyncBinds(p, o, ix) THEN {"bind"} ELSE {}), NoMarker)

\* An operation that finds nothing to write is over at once.
Settle(plan) == IF plan.todo = {} /\ plan.unbind = {} THEN Idle ELSE plan

\* The lock is free, and the operation makes k ids.
Begin(plan, k) ==
    /\ pending = Idle
    /\ ids + k <= MaxIds
    /\ ids' = ids + k
    /\ pending' = Settle(plan)
    /\ UNCHANGED <<durable, now, crashes>>

Init ==
    /\ indexes = [o \in Objects |-> EmptyIndex]
    /\ bindings = [p \in Paths |-> Unbound]
    /\ pending = Idle
    /\ ids = 0
    /\ now = 0
    /\ crashes = 0

-------------------------------------------------------------------------------
(***************************************************************************)
(* Operations: what each one plans under the lock                          *)
(***************************************************************************)

RecordAt(p, m, parents, st) ==
    [manifest |-> m, path |-> p, parents |-> parents, state |-> st, created_at |-> now,
     copied_from |-> 0]

\* The preferred head, as the parents of what follows it.
Preferred(ix) == {ix.preferred} \ {NoVersion}

\* The parents a request names have to exist; without any, the new version
\* follows the preferred head.
ParentChoices(ix) == SUBSET DOMAIN ix.versions
ParentsOf(ix, requested) == IF requested = {} THEN Preferred(ix) ELSE requested

\* The request repeats the preferred head: it is answered without a new version.
ReusesHead(ix, m, requested, st) ==
    /\ ix.preferred # NoVersion
    /\ HeadRecord(ix).manifest = m
    /\ HeadRecord(ix).state = st
    /\ requested = {} \/ HeadRecord(ix).parents = requested

\* finalize_put_from_manifest_hash, for a client's put
Put(p, c, requested, st) ==
    LET ix == IndexFor(p)
        m  == Manifest(p, c)
        v  == [kind |-> "ver", n |-> ids + 1]
    IN  /\ ~ReusesHead(ix, m, requested, st)
        /\ Begin(SyncPlan("put", p, ObjectFor(p),
                          WithVersion(ix, v, RecordAt(p, m, ParentsOf(ix, requested), st)),
                          {"index"}), 1)

\* finalize_put_from_manifest_hash, for a provisional version of a peer that
\* reconciliation has fetched: it keeps its id and names no parent.  The worker
\* looks for the manifest before it asks the peer, so the answer may find the
\* manifest, or the version itself, already there.
Reconcile(p, c, f) ==
    LET ix == IndexFor(p)
        m  == Manifest(p, c)
        v  == [kind |-> "ver", n |-> f]
    IN  \/ /\ v \notin DOMAIN ix.versions
           /\ Begin(SyncPlan("reconcile", p, ObjectFor(p),
                             WithVersion(ix, v, RecordAt(p, m, {}, Provisional)), {"index"}),
                    IF Bound(p) THEN 0 ELSE 1)
        \/ /\ v \in DOMAIN ix.versions
           /\ ix.versions[v].manifest = m
           /\ Begin(SyncPlan("reconcile", p, ObjectFor(p), ix, {}), 0)

\* commit_version
Commit(p, v) ==
    LET ix == IndexFor(p)
    IN  /\ v \in DOMAIN ix.versions
        /\ ix.versions[v].state = Provisional
        /\ Begin(SyncPlan("commit", p, ObjectFor(p),
                          Index([ix.versions EXCEPT ![v].state = Confirmed], ix.heads),
                          {"index"}), 0)

\* tombstone_object_single
Tombstone(p, requested, st) ==
    LET ix == IndexFor(p)
        v  == [kind |-> "tomb", n |-> ids + 1]
    IN  Begin(SyncPlan("tombstone", p, ObjectFor(p),
                       WithVersion(ix, v, RecordAt(p, TOMBSTONE, ParentsOf(ix, requested), st)),
                       {"index"}), 1)

\* rename_object_path: the target must be free; the binding moves to the renamed
\* version whether or not it is the preferred head.
Rename(p, q) ==
    LET ix   == IndexFor(p)
        head == HeadRecord(ix)
        m    == Manifest(q, head.manifest.content)
        ren  == [kind |-> "ren", n |-> ids + 1]
        gone == [kind |-> "rename_tomb", n |-> ids + 2]
    IN  /\ p # q
        /\ Bound(p) /\ ~Bound(q)
        /\ Live(ix)
        /\ Begin(Plan("rename", q, bindings[p].object,
                      WithVersion(ix, ren, RecordAt(q, m, {ix.preferred}, head.state)),
                      {p}, m, {"index", "bind", "marker"},
                      [object |-> ids + 2,
                       index  |-> Reindexed(Insert(<<>>, gone,
                                      [RecordAt(p, TOMBSTONE, {ix.preferred}, head.state)
                                          EXCEPT !.copied_from = bindings[p].object]))]),
                 2)

\* persist_copied_version_to_target
CopyTo(op, q, c, st) ==
    LET ix == IndexFor(q)
        m  == Manifest(q, c)
        v  == [kind |-> op, n |-> ids + 1]
    IN  Begin(SyncPlan(op, q, ObjectFor(q),
                       Reindexed(Insert(ix.versions, v, RecordAt(q, m, Preferred(ix), st))),
                       {"index"}), 1)

\* copy_object_path; a request with overwrite may name a target that exists.
Copy(p, q) ==
    /\ p # q
    /\ Bound(p)
    /\ Live(IndexFor(p))
    /\ CopyTo("copy", q, HeadRecord(IndexFor(p)).manifest.content, HeadRecord(IndexFor(p)).state)

\* resolve_object_id_for_key_version: the object of the path, or one whose
\* version was written under that path.
ResolveVersion(p, v) ==
    IF v \in DOMAIN IndexFor(p).versions THEN {bindings[p].object}
    ELSE {o \in Objects : v \in DOMAIN indexes[o].versions /\ indexes[o].versions[v].path = p}

\* restore_version_path
Restore(p, v, q) ==
    \E o \in ResolveVersion(p, v) :
        LET source == indexes[o].versions[v]
        IN  /\ source.manifest # TOMBSTONE
            /\ CopyTo("restore", q, source.manifest.content, source.state)

Without(vs, v) == [w \in DOMAIN vs \ {v} |-> vs[w]]

\* delete_object_version_for_key
DeleteVersion(p, v) ==
    \E o \in ResolveVersion(p, v) :
        Begin(SyncPlan("delete", p, o, Reindexed(Without(indexes[o].versions, v)), {"index"}), 0)

\* Mutant: the heads are not computed again.
DropReplicaKeepsHeads(p, v) ==
    LET ix   == IndexFor(p)
        left == Without(ix.versions, v)
    IN  /\ v \in DOMAIN ix.versions
        /\ Begin(SyncPlan("drop", p, bindings[p].object,
                          [Index(left, ix.heads \ {v}) EXCEPT !.heads = ix.heads], {"index"}), 0)

\* drop_replica_subject
DropReplica(p, v) ==
    /\ v \in DOMAIN IndexFor(p).versions
    /\ Begin(SyncPlan("drop", p, bindings[p].object,
                      Reindexed(Without(IndexFor(p).versions, v)), {"index"}), 0)

-------------------------------------------------------------------------------
(***************************************************************************)
(* The writes, in their order, and what may come between them              *)
(***************************************************************************)

\* persist_version_index_by_object_id, or delete_version_index_by_object_id
WriteIndex ==
    /\ pending # Idle
    /\ "index" \in pending.todo
    /\ indexes' = [indexes EXCEPT ![pending.object] = pending.index]
    /\ pending' = Settle([pending EXCEPT !.todo = @ \ {"index"}])
    /\ UNCHANGED <<bindings, ids, now, crashes>>

\* remove_current_object
RemoveBinding(p) ==
    /\ pending # Idle
    /\ "index" \notin pending.todo
    /\ p \in pending.unbind
    /\ bindings' = [bindings EXCEPT ![p] = Unbound]
    /\ pending' = Settle([pending EXCEPT !.unbind = @ \ {p}])
    /\ UNCHANGED <<indexes, ids, now, crashes>>

\* upsert_current_object
UpsertBinding ==
    /\ pending # Idle
    /\ "index" \notin pending.todo
    /\ pending.unbind = {}
    /\ "bind" \in pending.todo
    /\ bindings' = [bindings EXCEPT ![pending.path] =
                       [object |-> pending.object, manifest |-> pending.bind]]
    /\ pending' = Settle([pending EXCEPT !.todo = @ \ {"bind"}])
    /\ UNCHANGED <<indexes, ids, now, crashes>>

\* The tombstone index that a rename leaves for the old path.
WriteMarker ==
    /\ pending # Idle
    /\ pending.unbind = {}
    /\ pending.todo = {"marker"}
    /\ indexes' = [indexes EXCEPT ![pending.marker.object] = pending.marker.index]
    /\ pending' = Idle
    /\ UNCHANGED <<bindings, ids, now, crashes>>

\* The process stops in the middle of an operation and starts again.
Crash ==
    /\ pending # Idle
    /\ crashes < MaxCrashes
    /\ crashes' = crashes + 1
    /\ pending' = Idle
    /\ UNCHANGED <<durable, ids, now>>

Tick ==
    /\ now < MaxTime
    /\ now' = now + 1
    /\ UNCHANGED <<durable, pending, ids, crashes>>

\* Requests about versions that nobody stored are refused.
Stored == UNION {DOMAIN indexes[o].versions : o \in Objects}

Operation(p) ==
    \/ \E c \in Contents, st \in States, requested \in ParentChoices(IndexFor(p)) :
          Put(p, c, requested, st)
    \/ \E c \in Contents, f \in ForeignIds : Reconcile(p, c, f)
    \/ \E st \in States, requested \in ParentChoices(IndexFor(p)) : Tombstone(p, requested, st)
    \/ \E q \in Paths : Rename(p, q) \/ Copy(p, q)
    \/ \E v \in Stored : Commit(p, v) \/ DeleteVersion(p, v) \/ DropReplica(p, v)
    \/ \E v \in Stored, q \in Paths : Restore(p, v, q)

Writing == WriteIndex \/ UpsertBinding \/ WriteMarker \/ \E p \in Paths : RemoveBinding(p)

Next == Writing \/ Crash \/ Tick \/ \E p \in Paths : Operation(p)

Spec == Init /\ [][Next]_vars

-------------------------------------------------------------------------------
(***************************************************************************)
(* Properties                                                              *)
(***************************************************************************)

\* The indexes a crash or a finished operation leaves are readable: their heads
\* and their preferred head exist.
TypeOK ==
    /\ \A o \in Objects :
          /\ DOMAIN indexes[o].versions \subseteq VersionIds
          /\ \A v \in DOMAIN indexes[o].versions : indexes[o].versions[v] \in Records
          /\ indexes[o].heads \subseteq DOMAIN indexes[o].versions
          /\ indexes[o].preferred \in indexes[o].heads \cup {NoVersion}
    /\ bindings \in [Paths -> Entries]
    /\ ids \in 0..MaxIds /\ now \in 0..MaxTime /\ crashes \in 0..MaxCrashes

\* An object is bound to at most one path, at every moment and after every
\* crash: bindings are removed before the new one is inserted.
OneBindingPerObject ==
    \A p, q \in Paths : Bound(p) /\ bindings[p].object = bindings[q].object => p = q

\* No branch of a history disappears: every version that nothing follows is a
\* head, although puts and renames update the heads they find and the other
\* operations compute them afresh; and the preferred head is the best head.
NoBranchLost ==
    \A o \in Objects :
        /\ Leaves(indexes[o].versions) \subseteq indexes[o].heads
        /\ indexes[o].preferred = PreferredHead(indexes[o].versions, indexes[o].heads)

\* The path shows the version that a rename has made, which is a head.
ShowsRename(p) ==
    \E v \in IndexFor(p).heads :
        LET record == IndexFor(p).versions[v]
        IN  v.kind = "ren" /\ record.path = p /\ record.manifest = bindings[p].manifest

\* A listed path can be read: unless a crash cut an operation short, whatever is
\* bound has a live preferred head.  Versions are deleted through old names of
\* their object too, so the binding that has to go may be on another path.  The one
\* exception is a rename, which does not look whether its own version is preferred:
\* a tombstone that was the lesser head before, and was made in the same second, is
\* now the better one.
BoundPathsAreReadable ==
    pending = Idle /\ crashes = 0 =>
        \A p \in Paths : Bound(p) => Live(IndexFor(p)) \/ ShowsRename(p)

\* The operation has made its last write.
Completes == pending # Idle /\ pending' = Idle /\ ~Crash

\* A confirmed put is what its path shows when it is acknowledged, whatever other
\* heads the object has, as long as no version of a peer has a later number.
PutIsVisible ==
    [][Completes /\ pending.op = "put" =>
          LET v      == [kind |-> "ver", n |-> ids]
              record == pending.index.versions[v]
          IN  record.state = Confirmed =>
                 /\ indexes'[pending.object].preferred = v
                 /\ bindings'[pending.path] = [object |-> pending.object, manifest |-> record.manifest]]_vars

\* "Tombstone of a bound path removes the path binding from namespace state"
\* (docs/stable-object-id-model-decision.md): a confirmed delete that follows
\* the preferred head unbinds its path.
TombstoneUnbinds ==
    [][Completes /\ pending.op = "tombstone" =>
          LET v      == [kind |-> "tomb", n |-> ids]
              record == pending.index.versions[v]
          IN  /\ record.state = Confirmed
              /\ indexes[pending.object].preferred \in record.parents \cup {v}
              => bindings'[pending.path] = Unbound]_vars

\* "on success: binding is moved atomically" (docs/stable-object-id-model-decision.md):
\* a rename that is cut short leaves its object bound to the old or the new path.
RenameIsAtomic ==
    [][Crash /\ pending.op = "rename" => BoundPaths(pending.object) # {}]_vars

===============================================================================
