# A TLA+ verification of BerryKeep

BerryKeep is a self-hosted, replicated, versioned object store with clients that
mirror folders, mount them or talk S3.  This directory holds TLA+ models of the
parts of it that are hard to test, TLC configurations that check them, and
proofs that TLAPS checks.

## 1. Inventory of the system

All paths are below `src/`.

| Component | State it keeps | Operations | What is hard about it |
|---|---|---|---|
| Versioned store (`crates/server-node-sdk/src/storage/mod.rs`) | current path bindings, one version index per object id, manifests, chunks, snapshots, tombstone archive | put, commit, tombstone, rename, copy, restore, delete a version, import and drop replicas, compact | every operation is several separate durable writes, so a crash falls between them; concurrent heads; ordering of version ids within one second |
| Content garbage collection (`storage/mod.rs`, `storage/retained_content.rs`) | chunk and manifest files, protection snapshot | sweep, ingest, pin | uploads store chunks without the store lock, the sweep decides from a snapshot |
| Cluster view (`cluster.rs`) | known nodes with heartbeats, forward and reverse replica indexes, policy | register, heartbeat, expire, remove, reconcile a peer's claims, place, plan | four maps that must agree; decisions from stale claims |
| Replica repair and cleanup (`replication.rs`, `lib.rs`) | plans, per-peer transfers | plan, pull, push, drop extra copies | a plan executes while the cluster changes |
| Repair execution gate (`repair_execution_gate.rs`) | the permit, the queue of waiters | acquire, release, cancel | one-shot broadcasts, priorities and aging |
| Content recovery and scrubbing (`content_recovery.rs`, `storage/content_recovery.rs`, `storage/data_scrub.rs`) | repair tasks, pins | claim, fetch, verify, finish | races with the sweep, retries |
| Upload sessions and operation ids (`lib.rs`, `s3_frontend.rs`) | sessions, their file, a generation counter, one entry per operation id | start, chunk or part, complete, remove; claim, wait, replay | handlers lose the lock between sections and are dropped with their connection; answers are given although the file could not be written; the flag of a completion is stored |
| Operations, setup, hardware health, media cache, maps (`server-node-sdk`) | run records, claims, caches | start, cancel, finish | restarts in the middle of a run |
| Folder agent (`crates/sync-agent-core`, `crates/sync-core`) | local tree snapshot, baseline, modification log, conflicts | scan, plan, upload, download, rename, resolve | three-way merge under concurrent local edits |
| Client SDK (`crates/client-sdk`) | session pool, lease budget, routes, staged downloads, content cache | acquire and return sessions, race routes, download, cache | cancellation, pool limits, latency races |
| Rendezvous server (`crates/rendezvous-server`) | presence, admissions, credentials, relay tickets | register, expire, admit, revoke, issue | expiry against renewal |
| Transport (`crates/transport-sdk`) | tunnels, mux streams, wake-ups, bootstrap claims | open, pair, close, claim once | pairing and time-outs |
| File system adapters, desktop, mobile, web and statistics front ends | caches, UI state | mount, browse, display | mostly I/O at the edges |

The server node is the centre: HTTP handlers in `lib.rs` take the store's lock,
the cluster mutex or the gate, and call the components above; background workers
(auditor, repair, scrub, snapshot batching) do the same concurrently.  Clients
reach a node directly or through the rendezvous server's relay.

### What makes each component correct

* Versioned store: an object has one name at a time; no branch of a history is
  forgotten; what is listed can be read; an acknowledged write is visible; a
  rename or a delete takes effect as a whole.
* Cluster view: its maps agree; a node that counts as a copy can be used as a
  source; removing a node removes its references; history hints survive
  advertisements that name only current versions.
* Placement and plans: as many copies as the policy asks for and the cluster can
  hold, spread over the labels, few moves when a node is lost, repair that
  neither stops short nor overshoots, cleanup that keeps the minimum.
* Persistence of the view: what a restart reads is coherent wherever the node
  stopped and in whatever order concurrent handlers wrote.
* Repair gate: one run at a time, nobody waits for ever, manual work first but
  not at the price of starvation.
* Garbage collection and content recovery: what a put, an import or a repair
  acknowledged stays as long as something refers to it; nothing that is owned and
  referenced, or pinned by a repair, is deleted.
* Upload sessions: what a request was told stays true, one put per session, no
  chunk is taken that the object will not have, a session does not stay closed,
  a repeated request gets the answer of the first.
* Folder agent: no local or remote edit is lost without a conflict copy, both
  sides converge after a crash, and the agent's own removals are not taken for
  the user's.
* Client SDK, rendezvous server, transport: pools and leases are returned exactly
  once, an expired presence is not used, a tunnel pairs two ends of one session.

## 2. Modules

| Module | Models | Extends |
|---|---|---|
| `RepairGate` | `RepairExecutionGate` | |
| `Placement` | rendezvous selection and the per-key plan, as operators | |
| `ClusterView` | `ClusterService`, and the handlers and workers that change it | `Placement` |
| `ClusterPersistence` | the view together with its stored copy, handlers that persist it, restarts | `ClusterView` |
| `VersionStore` | the operations of `PersistentStore` on indexes and bindings | |
| `ReplicaImport` | export and import of replication bundles, by a node among others | `VersionStore` |
| `ContentStore` | manifest and chunk files, ownership, repair tasks with their workers, and the sweep | |
| `PlacementWalk` | all inputs of the placement operators, as a walk over sets of online nodes and claims, with the properties about them | `Placement` |
| `UploadSession` | upload sessions and S3 multipart uploads, their file, the operation store | |
| `RelayLease` | `IrohRelayLeaseBudget`, the direct QUIC routes of `TransportSessionPool` and the ticket leases of the rendezvous servers | |
| `RelayTunnel` | `RelayTicketIssueLimiter` and the sockets of the rendezvous server, `RelayTunnelBroker`, and the node's wake task | |
| `FolderAgent` | the folder agent, its baseline database, the snapshot poller, the user and the store | |
| `MC*` | instances for TLC: rankings, labels, symmetry, constraints | the module named; `MCVersionStore` instantiates `ReplicaImport` once per node; `MCRepair` extends `RepairGate` and `PlacementWalk`, `MCClusterPersistence` also `UploadSession`, `MCClient` both client modules, `MCCluster` both `MCClusterView` and `RelayTunnel` |
| `*Proofs` | theorems and their proofs | the module named; `ClusterProofs` extends `ClusterPersistence` and `PlacementWalk` |

A definition whose comment starts with "Mutant:" is a deliberately wrong variant
of the definition that follows it.  No specification uses it; it shows that the
property named with it in `PROJECT.json` notices that mistake.

### RepairGate

State: the fields of `RepairExecutionGateState` (`active`, `next_waiter_id`,
`waiters`), and per task where it is in `acquire` or in a drop, whether its
`Notified` has fired and until when it sleeps.  Everything between a lock and an
unlock of the mutex is one step; arming the notification, the inspection, the
first poll, the end of the await and the broadcast that follows each drop are
steps of their own, because other tasks run between them.  A waiter is cancelled
where the future can be dropped, at the await.  Ids count up, so the queue is a
set of entries and the oldest entry is the one with the least id.

### Placement

`Rank[key]` is the order that `rendezvous_score` puts the nodes in; nothing else
of the hash matters.  `FirstPass` and `SecondPass` are the two loops of
`select_nodes_by_rendezvous_matching`; `MissingNodes` and `ExtraNodeChoices` are
the two lists of `ReplicationPlanSnapshot::plan`.  `Filtered` is `filter(..).collect()`,
written as a recursive function because the prover does not expand `SelectSeq`.  Which extra copies the
tolerance keeps depends on free space and on the other keys of the plan, and is
a free choice.

### ClusterView

State: the known nodes with status and heartbeat, the hints
(`replicas_by_key`, `replica_subjects_by_node`), the claims (`available_*`), what
each worker awaits, the clock.  `Exchange` is the pair of membership helpers that
all updates use.  A call of `ClusterService` is atomic; the availability sync, a
push and a cleanup are split at their await: the first step reads the view (and
updates the health, as the code does), the second applies the outcome to the view
as it is then.  A peer's answer may contain any subjects.  `StoreLocally` stands
for every handler that notes a new local version, `LoseLocally` for every one
that takes local copies back.  Whether the store can export a version, which a
cleanup asks it, is read from this node's hints.

### ClusterPersistence

Adds the stored rows and tasks: a handler that changed the view has yet to
export it (under the mutex) and then to write the export (after it), nodes before
views for a removal.  A write replaces all the rows of its table in one
transaction; it may fail, after which the handler reports the error and leaves
the view as it is.  `Restart` may happen anywhere: stored hints bring placeholder
nodes, this node registers itself, views are filtered by the nodes that are known.
Either of the two loads may fail, which the code only logs: the node then starts
without that table, the stored rows stay until the next write, and that write
replaces them.  `RestartKeepsHints` is about restarts that can load the views.

### VersionStore

State: a version index per object id, a binding per path, what is left of the
operation that holds the store lock, counters for ids and seconds.  Since
operations hold the exclusive lock they do not interleave, but each makes
several durable writes, so an operation is a plan and one step per write: the
index first, then the bindings to remove, then the one to insert; a rename then
writes a second index with a tombstone for the old path.  A crash drops the rest
of the plan.  Version ids are ordered as the strings are: prefix first, then the
nanoseconds.  A manifest carries its key, which is why a rename or a copy makes
another manifest.

Left out: manifest and chunk files, snapshots (written after the bindings, and
read by nothing here), sidecars and companions of media files (further
operations of the same kind), the cache of bindings (updated together with them),
`overwrite` of a rename (the target is unbound first, by a tombstone), the
reconciliation's replay marker (so the model may offer a version again), and
puts that name their own version id, which take the same path as `Reconcile`.

### ReplicaImport

Adds to the store the bundles that this node exported (`outbox`), those that may
arrive here (`inbox`) and the import that holds the lock.  A bundle is never used
up: it arrives at any time after its export, also again, and in any order.
`StartImport` chooses the object (`choose_replication_bundle_object_id`: the
sender's, the one that has the path, or a new one if the sender's was deleted
here); `Prune` takes the version away from one other index after the other;
`InsertVersion` writes the index and brings the binding up to date; then
`Promote`, `ApplyTombstone` or `LeaveCurrent`, by whether the sender preferred the
version and whether it deletes.  All but the choice are plans of `VersionStore`,
one step per durable write, and `Stop` is a crash between any two of them.

Bundles without an object id, a version id or a path, which only older nodes
sent, the check of manifest and chunks that precedes the choice (they are in
`ContentStore`) and `import_metadata_bundle` are left out.

### ContentStore

State: the file of each chunk and whether its bytes are right, which manifests
have a file, which files are older than the retention, the manifests that the
retained-content catalog names (`refs`), `locally_owned_manifests`, the durable
repair tasks, what the holder of each manifest's claim is doing, the sweep, and
(history) the manifests whose content this node acknowledged to hold.

`Ingest` stores a chunk without the store's lock, as uploads do.  `Put`,
`ImportPushed`, `ImportMetadata` and `Clone` are one step each, since they hold
the exclusive lock; `AdoptFails` is one that ends between its writes.  A repair
is a claim and the steps `Inspect`, `PersistPrepared`, `Reuse` or `Install` per
chunk, `BeginVerify`, `Verify` per chunk, `Replace`, and `Finish` or
`ImportPulled`; a pull for replication is `Pull`, the same transfers and
`ImportPulled`.  Inspection and verification take no lock and interleave with the
sweep; the others take at least the shared lock, which the sweep excludes.  The
sweep is `BeginSweep` (the snapshot), one step per removed file,
`ListProtected` in between, and `EndSweep` at any point.

Left out or made coarser: records of cached chunks, storage locations, sizes,
media artifacts, temporary files and dry runs (none protects anything); the
choice of targets, sources, budgets and backoff (any task may be tried and may
fail at any time); losses of files by the disk and unreadable manifests;
reading a file's age and removing it is one step, as is removing a manifest with
its ownership; a catalog read without the lock may be stale, which is why
`Enqueue` and `Discard` may name any manifest.

### UploadSession

State: the sessions of the node (`UploadSessionStore`), the file, per request
handler where it is and what it holds in local variables, the entries of
`ClientMutationOperationStore`, the versions of the key that is written, and the
persister with its two generations and its permit.  A handler is split where it
awaits: the claim of the operation and the first locked section, then for a
chunk the ingest and the commit, for a completion the put and the finish or the
reset, and last the write of the file, which takes the lock again and writes the
whole store.  Client sessions and multipart uploads are two modes of one record;
the requests of each interface see only their own mode, except that the client's
removal takes both.  A handler is dropped at any of these awaits, which gives its
lease back and nothing else.  `RestartNode(loaded)` starts with the file, or with no
session when the file cannot be read or parsed; the file is then untouched until
the next write overwrites it, and of what clients were told only that counts as
promised which is still true.  A revision that a session expects is the number of
the version; a put of what the preferred head already holds makes no version.

Left out: owners and sizes (they refuse requests), the lookup of a path by object
id (its failure is `PutFails`), the replica notes and events after a put.  The
claim and the first section are one step, since nothing between them awaits but
the lock of the sessions, and a handler dropped there has changed nothing.  A
session in use does not expire: its time-out of a day is renewed by each request.

### RelayLease

State: the budget (`entries` by route with the generation of the handle, which
handles are active or have a release under way, who holds the admission mutex),
the leases that each rendezvous service holds, per route what its pool keeps
(endpoint, setup identity, cached session, refresh task, `retired`), and where
the shared setup, one caller and the retirement of each route are.  Reservation,
eviction, release, ticket request, installation and clean-up are split at their
awaits; the mutex is held across the release of an evicted lease, as in `reserve`.
A release reaches any subset of the services and may fail after that.  A caller
that is dropped lets go of the mutex; a setup that times out cleans up.  Two
history variables name what the code loses sight of: `astray`, the routes that a
service may serve without an entry in the budget, and `abandoned`, the handles
that nobody will release any more.  A handle with an entry stays alive through
that entry, so its `Drop` does not run, and only an eviction takes it.

Which lease is the least recently used is a free choice among the evictable ones.
Direct HTTPS and relay sessions, statistics and the contents of tickets are left
out; a route whose ticket request is refused without backpressure goes on without
a relay, as in the code.

### RelayTunnel

State: how many tickets the client has outstanding and how many connections it has,
the two queues of the broker for one target, where the connection of each source
and of each accept is, the wake registration with the permit of its `Notify`, the
wake connections made so far, and the node's wake task.  A section under the
broker's lock is one step; what comes after the unlock is another: the notification
of a wake that was taken under the lock, the entry of a target after its look at
the queue, the removal of an entry after a time-out.  An entry whose connection is
gone stays in its queue and is closed.  Connections of the node break at either
end, and the two ends learn of it at different times; the end of an old wake
connection may come after the registration of a new one.  A connection on which
the node awaits an answer may also be lost without a sign (`node.silent`): the reads
of `relay_tunnel.rs:362` and `relay_wake.rs:72` have no time-out, and the drain is
awaited inside a branch of the task's `select!`, so no ticker runs until the
system reports the loss.

Left out: the limit on issues per minute, authentication, ping and pong, the frames
of a paired tunnel and its security.  Tickets are counted and not told apart: the
session id only says which of them goes.  Several wake messages on their way are
one, and a round of the wake task that starts a drain takes it.

### FolderAgent

State: per path the local file (bytes and stamp, which stands for size and
modification time), the store's file (bytes and version), the row of the baseline
and of the conflict table, conflict copies, and what the agent has in memory:
`local_state`, `remote_index`, `suppressed_uploads`, the plan of a startup, the
call under way, the queue of snapshots.  Every call that changes the disk, the
database or the store is a step of its own: an upload and its row, the removal of a
file and of its row, a remote delete and the removal of its row, the baseline and the
conflicts at the end of a startup.  The user writes, touches and deletes
at any time, other clients put new bytes or earlier ones and delete, and `Stop` is
a crash, an error or a shutdown anywhere.  At a startup the hashes of the baseline
may fail to load, and the startup goes on with the rows alone; or the rows fail to
load, and the database is put aside (`loaded` is what the startup has of them).
Stamps and versions are reused when nothing remembers them,
so that runs do not need an unbounded supply.

A resolution of a conflict runs beside the agent, whatever the agent is doing: it
renames the local file away, copies the remote bytes in, uploads the file, records it
and clears the conflict (or removes the file on both sides, and the row), one step
each, and may be abandoned after any of them.

History variables mark what the properties have to except: `misrecorded`, rows whose
hash is not that of the file; `uncertain`, rows of the present startup without a hash
or with a wrong one; `uncopied`, conflicts whose copy failed or was deleted.

Left out or made coarser: directories and parents, renames by object identity (the
poller also reports them, the agent handles the paths), the modification log
(written, never read by the agent), progress reports, temporary files.  One
resolution runs at a time; the UI server has a lock for this, the command line
beside it does not.  It reads the conflict and renames the file in one step, and
`clear_conflicts` is `KeepLocal` of every path.  The four decisions of a
startup look at the disk at one moment, although the code hashes one file after the
other.  A root directory that is missing is an empty tree to `scan_local_tree`,
which the model has as deletions by the user.

## 3. Runs

`tlc -workers 2 -config <cfg> <module>`.

| Run | Checks | Instance and why it is enough |
|---|---|---|
| `repair` | gate: `TypeOK`, `PermitExclusive`, `NoLostWakeup`, `QueueMatchesTasks`, `FairGrants`, `EveryWaiterServed`; plans: `PlansMeetThePolicy`, `PlacementIsStable` | two independent parts. Gate: 3 tasks, 3 calls, aging of 1 tick, clock to 3: a holder, an aged automatic and a manual waiter at once, or a task that comes back. Plans: 5 nodes in 3 racks, two keys with different rankings, all sets of online nodes and claims, three copies in two racks: the first pass skips a node whose rack it has, and the second one comes back to it. Policies with several labels, such as the default one (two labels, one value of each), are covered by the theorems |
| `cluster_view_safety` | view: `IndexesAgree`, `ClaimsHaveHints`, `HistoryIsKept`; tunnels: `TunnelTypeOK`, `TicketsAreBounded`, `WaitingSourcesAreKnown`, `SourcesAreServed` | two independent parts. View: 3 nodes, factor 2, a key and a version, 2 workers (symmetric; no liveness is stated of them), 2 seconds with time-out 0: late answers of two workers about a node that left, came back or went offline. Tunnels: 2 sources, 2 accepts, 2 allocations, drains of 2 rounds, one connection that is lost, with or without a sign: a source comes at any point of a drain, of a reconnection or of a time-out, and behind another that is gone |
| `cluster_persistence` | `NodeTypeOK`; view: `RestoredViewsAreWhole`, `RestartKeepsHints`; uploads: `AnswersAreKept`, `CompletionsAreExclusive`, `OneAnswerPerOperation` | two independent parts. View: 2 nodes, one subject, two handlers, so that writes overtake each other, and restarts at which either load may fail. Uploads: one session with one chunk of two possible contents, two handlers, one operation id, up to 5 requests and 2 faults (5 of both together): two completions, or a chunk and a completion, at once, a retry, and a fault in between. The bounds 2 sessions, 4 requests and 1 fault, and 1 session with 2 chunks, 4 requests and 2 faults, were checked as well |
| `version_store_safety` | `TypeOK`, `OneBindingPerObject`, `NoBranchLost`, `BoundPathsAreReadable`, `PutIsVisible`; import: `OneHistoryPerVersion`, `ImportedIsReadable`, `NoVersionLost` | two independent parts. Alone: 2 paths, 3 made ids in one second (all ties) with a peer's version or one crash anywhere, 2 made ids with both, or across two seconds; 3 with both were checked as well. Replicas: two nodes, 2 paths, 4 ids, or 3 and one crash, in one second but for versions that an import dates later; each node exports one bundle, which arrives any number of times; 4 ids and a crash were checked as well: the path is written, deleted or renamed between an export and its import, and a repeated import meets what a crash left. All properties are checked of both parts |
| `content_store` | `TypeOK`, `PromisedIsStored`, `VerifiedStays`, `SweepSparesLive` | 2 manifests that share their one chunk, as an object and its copy do: one is dereferenced, swept or repaired while the other lives; the theorems cover more chunks and other sharing |
| `client` | `ClientTypeOK`; leases: `WithinBudget`, `RetiredRoutesLetGo`; folder: `OfflineEditsSurvive`, `StartupConverges`, `StartupKeepsRemoteBytes`, `OwnRemovalsDoNotEcho` | two independent parts. Leases: the routes of `MCClient` with one and with several origins, a budget of 1 per origin and 2 slots at the server, 3 setups, 2 disturbances, 4 of both together (a dropped caller, a time-out, a failed release, a retirement, an expiry), so that an eviction meets a retirement or a release that fails; 5 of both together were checked as well. Folder: one path, 3 writes, deletions or resolutions by the user or others and 2 stops or failed loads: an edit, a change in the store and a stop between any two calls of a startup, a download or a resolution; 3 moves with 3 stops, and up to 4 moves with 4 of both together, were checked as well |

The bounds `MaxTime`, `MaxRegistrations`, `MaxIds`, `MaxCrashes`, `MaxAttempts`,
`MaxBundles`, `MaxDisturbances`, `MaxMoves`, `MaxStops`, `MaxQueue`, `MaxUploads`,
`MaxRequests`, `MaxFaults`, `MaxLosses` and `ConnectionLeft` appear in guards only; the theorems hold for every
value of those they mention.  The stopped states that `CHECK_DEADLOCK FALSE`
admits in the gate's, the store's and the client's runs are those where such a
bound is used up.  In `cluster_persistence` the deadlock check is on: the only
states without a step are those where all requests have been answered
(`AllAnswered`), so that no handler waits for an operation that nobody runs.

The product of two bounds is cut by `DisturbedOnce` and `CrashOrFourIds` in the
steps of `MCVersionStore`, and by the constraints
`FewerSetupsWhenDisturbed` and `FewerRequestsAfterFaults` (the sum of the two
counters).  Two nodes share only
bundles, which they read and write between operations, so `MCVersionStore` lets
one of them work at a time; only the node that the properties are about stops.

Six runs show where the code disagrees with what the repository says of it
(`expect: violation`); each checks that one statement.

| Run | Statement | What happens |
|---|---|---|
| `cluster_forgotten` | `RemovedNodesHaveNoReferences` | the answer of a peer that was removed in the meantime restores its references |
| `cluster_cleanup` | `CleanupKeepsMinimum` | copies outside the placement are dropped although one of the two desired nodes has none; one copy of the two that the policy asks for is left |
| `cluster_removal` | `RemovedIsForgotten` | an export made before a removal is written after it |
| `version_tombstone` | `TombstoneUnbinds` | of two confirmed heads one is deleted in the same second; `ver-` sorts after `tomb-`, so the other keeps the path bound |
| `version_rename` | `RenameIsAtomic` | a crash between unbinding the old and binding the new path |
| `folder_tombstone` | `BytesBeatTombstones` | the user edits a file after the last scan and another client deletes it; the running agent applies the delete without looking at the file, although an update of the same file would have been skipped |

Some things the models show beside these.  A rename binds its own version
although another head of the same second may be preferred (`ren-` sorts before
`ver-`), so that a read, which resolves the preferred head, and a listing
disagree until the next write.  If that other head is a tombstone, which a rename
in the same second makes the better one (`tomb-` sorts after `ren-`), the path is
listed and a read finds nothing.  This takes four ids with a peer's that sorts
late, or five, more than the run's bound; the attempt to prove
`BoundPathsAreReadable` found it, and the property now names it as its one
exception (`ShowsRename`).  A put that is repeated after a crash between its index and its binding is answered from
the index, and the binding is not written.  And subjects of versions that a copy,
a restore, a rename or a delete made are not recognised as versions of their key
by `replication_placement_key`, which looks for `@ver-`, so they are placed by
themselves and lose their hints with the first advertisement that omits them.

In the import of bundles, a preferred head takes its path whenever it arrives, also
from another object that was written here later: the last import wins, not the
last write.  The tombstone that a rename leaves names the object it was renamed
from, and if it arrives after that object got its old name back it takes the name
away, and the object has none; the test that a replayed historical tombstone does
not remove a repaired key (`storage_tests.rs`, about line 4716) has a tombstone
without such a name.  Every import of a live version whose object was deleted here
makes another object; the pruning leaves one history at a time.

In the content store, a copy, a rename or a restore marks the new manifest as
owned even on a node that has only the source's metadata; a chunk that an upload
shares with old, unprotected content may be swept before the upload is finished,
which then fails and has to be repeated (`Put` looks at every chunk again); and
the audit may replace a task that was made after it had read the list of tasks,
which loses a pending import until replication asks for it again.  None of these loses
acknowledged content.

The upload sessions show three ways to leave a session closed for the day that it
takes to expire: a completion whose handler is dropped with its connection, a
multipart completion whose S3 records cannot be written after the put
(`s3_frontend.rs`, which returns without the reset that every other exit has), and
a restart, since the flag `finalizing` is part of the file and any request may
write the file while a completion runs.  The variable `interrupted` names these
sessions and `CompletionsAreExclusive` does not ask for their reopening.  An operation whose entry is
pruned after fifteen minutes while its owner is at work runs twice (`lapsed`); an
abort of a multipart upload in the middle of its completion is acknowledged and
the object appears all the same; and a session that was put and not marked before
a crash is put again, which makes no version if nobody wrote in between and a
second one, or a conflict with the expected revision, if somebody did.  A result
that a second completion is told may not be in the file yet.

In the lease budget, a setup does not look at its reservation again after it has
its ticket; if the lease was evicted in the meantime, the rendezvous service holds
a lease that the client does not count.  A release that is dropped while it waits
is never repeated, because the handle remembers that a release was begun; the next
reservation only forgets its entry, and services that did not get the release
keep the lease until it expires.  Both are `astray` until a later release of the
route reaches all its services; a service may then serve more routes than the limit.  For all others `WithinBudget` says that what a service serves
is counted.  A retired route may keep the entry of an abandoned handle: one that
a failed setup or a cancelled caller had in its hands, or whose release a service
did not answer.  It counts against the budget until an eviction takes it.

At the broker, a target whose wait has timed out removes the entry in front of the
queue, which may be another's; the robbed target fails with an error, and its drain
ends early.  A drain that ends early, by an error or after its last round, leaves
sources in the queue of which no wake tells any more: they wait for the fallback
tick, and may time out before it (`WaitingSourcesAreKnown` excludes these drains,
`node.cut`).  A source and a target that queue up at the same moment wait for each
other; the wake that the source sent ends this after the target's time-out, not
before.  And a source may be paired with an accept that the node has given up.

In the folder agent, a row may have the hash of other bytes than the file
(`misrecorded`): bytes that the user writes between the installation of a
download, or the upload of a resolution, and the reading of the stamp are recorded
with the hash of the download or the upload; and the hash that is recorded of a
download is the snapshot's, not that of the bytes that came.  Such a file counts as
unchanged until it changes again, so that if the store has just the bytes of the
hash the next startup leaves the two sides different, which is the exception in
`StartupConverges`.  A row without a hash, or whose hash could not be loaded, makes
no conflict at startup: if both sides changed, the remote bytes are replaced and no
copy is tried, contrary to what the reconciliation proposal says of dual
modifications; `StartupKeepsRemoteBytes` excepts these (`uncertain`).  A resolution that keeps the
remote side renames the local file away before it copies the remote bytes in, and a
scan of the running agent in between takes this for a deletion by the user and
deletes the file in the store.  The conflict table is rewritten by every startup;
and an upload and a remote delete between two polls cancel out in the
poller's comparison, so that the agent learns of neither.

### Fairness

Two properties are liveness properties.  `FairSpec` of the gate, whose fairness
`MCRepair` states for the gate's behaviours, assumes weak
fairness of each task's own steps and of the clock: tokio polls a task that was
woken, and a repair run gives its permit back because it executes under
`execution_timeout_secs`.  No fairness is assumed of arrivals and of
cancellations.  `SourcesAreServed` assumes that the node's wake task and the
server's side of its accepts together do not stop for ever as long as the
connection that the task waits on is not lost silently: the server's waits have
time-outs, the task listens beside a ticker, and it reconnects when its connection
ends.  Two of its reads have no time-out (`relay_tunnel.rs:362`,
`relay_wake.rs:72`), and nothing else of the task runs during a drain; a node that
waits there on a connection which is gone serves nobody until the system reports the
loss.  The property therefore ends with `node.silent`, and no fairness is assumed
of that report.
Nothing is assumed of sources, of notifications and of wake messages, so that the
property holds even if no wake ever arrives.  The properties of the other modules
are safety properties and assume nothing.

### Assumption about clocks

`PutIsVisible` is checked with peers' version ids that are older than this node's
next one.  A peer whose clock is ahead can make a version that sorts after a
local write of the same second.  The theorem `PutsAreVisible` has this as its
hypothesis.

## 4. Proofs

`tlapm <module>Proofs.tla` checks them.  The constants are unrestricted but for
the named assumptions of the modules.

* `RepairGateProofs`: `TypeCorrect`; `MutualExclusion`; `QueueMatches`, which
  needs ids to be unique and below the counter (`QueueInv`); `WakeupsNotLost`,
  from `SleepInv`: every parked task that the gate might select has a wakeup on
  its way, or the gate is held, or another waiter is selected, or its timer
  covers the next aging deadline.  The hard steps are the clock's, since time
  alone changes who is selected, and a registration's, which may not change it
  for those who sleep.  `GrantsAreFair` follows from the selection rule and the
  queue's order.
* `ClusterProofs`, the view: `MapsAgree`, `ClaimsAreSources`, `HintsAreKept`, from
  `VInv` (typed views and workers, both properties).  One lemma about `Exchange`
  carries all the updates but the removal of a node, which cleans the forward
  map through the reverse one and so needs the invariant itself.

  What is stored of it: `RestartIsSafe`, from `PInv`: what each task has
  exported and what is stored is backed, claim by hint, so the order of writes
  does not matter.  `RestartForgetsNoSource`, for a restart that can load the views: the import drops rows of nodes it does
  not know, but the nodes of all stored hints are registered before the import,
  from the rows themselves.  `PersistTypesHold`, from the types of the
  node table, the stored rows and the exports on their way; it includes the type
  invariant of the cluster view.

  Placement: `PlansAlwaysMeetThePolicy` and `OnlyLostCopiesMove`, which are facts
  about `SelectNodes` and `MissingNodes` for all sets of online nodes and of claims.
  The loops of the code are recursive functions over the positions of a sequence.
  The induction theorems of the library take an operator and cannot be used, so the
  proofs have their own two lemmas, over sets: `LoopRuns` (such a function exists and
  satisfies its equation at every position, since otherwise there were a shortest loop
  without one) and `LoopInduction` (what holds before a loop and is kept by every
  iteration holds after it, since otherwise there were a first iteration where it fails).
  Both take the least element of a set from the well-founded
  minimum of the natural numbers.  On them rest what `Filtered` returns (the members
  of a set, once each and in their order) and what the two passes return.  That the first pass
  finds the label values is an invariant of its loop: it has one value per node
  taken, and as long as values are missing every value met so far has been taken.

  `OnlyLostCopiesMove` is about policies with one label, however many of its values
  are wanted, and about those that want one value of each label.  The first pass of
  both is greedy: it takes a node while it has fewer than a fixed number of nodes and
  none of the same value (`StableIsGreedy`; in the second case the first node has
  all the values, and all nodes count as different).  So it takes the first so
  many leaders, the nodes that rank before all others of their value
  (`FirstPassTakesLeaders`).  A lost node makes at most one other node a leader
  (`LeadersKept`), so the first pass keeps what it had and takes at most one node in
  the place of the lost one (`FirstOfKept`).  The second pass takes the first of the rest
  (`AddedAreFirst`), and a count shows that nothing that was selected falls out.  A
  node that counts for two labels at once breaks this argument, and the property
  does not speak of other policies.

  The assumptions are that every ranking has every node once (`RankAssumption`),
  finitely many nodes and labels, and that the numbers of the policy, which are
  `usize`, are natural (`PolicyAssumption`).
* `VersionStoreProofs`: `NamesAreUnique`, from `IInv`: a pending plan that will
  bind removes every other binding of its object first, and ids are not made
  twice.  `BranchesAreKept`, from `HInv`: stored, planned and marker indexes all
  keep their leaves among their heads, and a version that is added is not
  already somebody's parent.  `ListedIsReadable`, from `RInv`, on top of `IInv`:
  until the first crash, every path that no pending plan is about shows a live
  preferred head or the version of a rename, and a pending plan will leave its
  object in such a state: what it does not unbind its index shows, and so does
  what it binds.  A rename is the step where the exception is needed.
  `StoreTypesHold`, from `TInv`: an index that has versions has a preferred
  head.  This needs that the order of `choose_preferred_head` is total and that
  a finite set of versions has a best one, which is the well-founded
  minimum of a bounded function.

  The next five are about `ReplicaSpec`: one node with all operations of the store
  and of `ReplicaImport`, and peers that make ids and put any bundle
  into its inbox that satisfies `BundleOK` (the object and the version were made, the
  path is one; records, heads and flags are arbitrary), so loss, repetition
  and reordering are free.  `HistoriesStayWhole`, from `SInv`: the three
  invariants above and `VInv`, by which no two objects share a version of a path, all
  versions were made, and a pending plan keeps it so.  `ImportsAreReadable`, from
  `MInv`: what an import has done up to each stage, and that every bundle in the
  inbox and the outbox satisfies `BundleOK`.  A node assumes nothing of
  bundles that it does not itself guarantee; that the nodes of a cluster
  therefore keep the invariant together is an argument on paper, and the run
  `version_store_safety` checks the properties on two nodes that send each other
  bundles.  `ReplicasKeepTheStore`
  carries the properties of the node alone over to `ReplicaSpec`.
  `VersionsAreKept` is an action property: every step that loses a version belongs
  to a request to delete or drop, or to the import that moves it.

  `ReplicaTypesHold`, from `TInv` and `XInv`, is the type invariant of a node that
  imports: it assumes of the bundles that arrive that their versions are version ids
  and their records records, and shows that those that the node exports are such.
  Records have any date: an import that brings a deleted object back dates its version one second after
  the present or after its old date, so repeated deletions and imports date versions
  after `MaxTime`.  A preferred head exists all the same, since
  a history's dates are bounded.

  `PutsAreVisible`, from `DInv`: no version is dated after the present and the plan
  of a put has the put's version as its preferred head.  It is stated for a node
  whose peers' ids are all older (`ForeignIds` at most `MaxIds`, that is
  below the ids made here, by `ForeignAssumption`), and is false without that.
* `ContentStoreProofs`: `PromisesAreKept`, `VerifiedContentStays`, `SweepIsSafe`
  and `TypeCorrect`, from `GInv`.  Only `SweepChunk` takes a chunk away, and only
  if the snapshot does not keep it.  `SweepInv` says that the snapshot is current
  as long as the sweep runs, because whatever adds a reference, an owner or a pin
  waits for the lock; `WorkerInv` says that everything a repair has fetched or
  verified is in the pin of its task.
* `RelayTunnelProofs`: `TunnelTypeCorrect`, `TicketsStayBounded` and
  `SourcesAreNotOverlooked`, from `TunnelInv`.  `TicketInv` counts the open
  sources; `QueueInv` says that the queues have no entry twice, which holds because
  whoever queues up has none yet; `NodeInv` says that the registration is that of
  the node's wake connection as long as the server serves it, since the end of an
  older connection does not take it away.  The queue lemmas (a queue popped down to
  its first live entry, cut at an entry, appended to) rest on the sequence theorems
  and on well-founded minima.  The first live entry of the queue is found as the
  least index of one.
* `UploadSessionProofs`: `AnswersStayTrue`, `CompletionsStayExclusive`,
  `OperationsHaveOneAnswer` and `UploadTypesHold`, from `UploadInv`.  `RequestInv`:
  ids are made once and a request names a session that was started.
  `CompletionInv`: a session has at most one completing handler, the session keeps
  the chunks that this handler took with it, and one that has been put since the
  last restart (`Spent`) is not put again.  `PersistInv`: what a handler is about to
  answer is already true in memory.  `PersisterInv`: the persister does not
  believe to have written what a failed write left.  `OperationInv`: an operation
  that was not pruned is in progress exactly while one handler works for it, and
  its answers are the one of its entry.  The assumption on the constants is that
  `Absent` (Rust's `None`) is none of the values that it stands beside.
* `RelayLeaseProofs`: `BudgetIsKept`, `RetiredLetGo` and `LeaseTypesHold`, from
  `LeaseInv`.  `MutexInv`: the admission mutex is held by one task at a time, in the
  middle of `reserve` or `release_now`.  `EntryInv`: what such a task found under
  the mutex is still so after its await (a lease whose release is awaited is still an
  entry), and a generation is the entry of one route.  `GenerationInv`: generations
  are made once and there are enough of
  them, counted over the setups that have yet to make theirs.  `StrayInv`: what a
  service serves has an entry, or its route is astray; a release is only over when
  every service had it.  `HandInv`: the handle of an entry is in a slot or in the
  hands of a task until it is released or abandoned.  `RetireInv`: whatever
  a retired route still has is in the way of its clean-up or of a setup that has yet to
  look at it.  The assumptions are positive limits, finitely many routes and natural
  bounds.

* `FolderAgentProofs`: one induction per question, each on top of the last.
  `FolderTypesHold`, from `TInv`: types, and what the loop of each phase is about.
  `OfflineEditsAreSafe`, from `HeldInv` and `RiskInv`.  `HeldInv` says where bytes come
  from: what a row, a copy, a snapshot or a download mentions was in the store, and
  the bytes that the user writes next are nowhere yet.  `RiskInv` follows a
  file whose bytes only the disk has through a startup: no record of the agent knows
  its stamp, the plan preserves it, no download is about to replace it, and the scan
  finds it.  `RemovalsDoNotEcho`, from `RemovalInv`: where the agent has removed a
  file it forgets it before it does anything else, so a file that a scan misses was
  removed by somebody else.  `StartupsConverge`, from `RowInv` and `QuietInv`: the row
  of a file that has not changed has the stamp that the agent remembers, and the
  file's hash unless it is marked as wrong; and as long as nobody but the agent acts,
  each phase leaves only those paths different that a later phase is about.
  `ReplacedBytesAreKept`, from `CopyInv`: remote bytes that were never in the folder
  and whose path the startup will upload have been copied, or the copy failed or was
  deleted, or the row had no hash of use.

  The assumptions on the constants are natural bounds (`BoundsAssumption`) and that
  `None` is not one of the values beside which it stands (`NoneAssumption`).

Model-checked only: liveness (`EveryWaiterServed`, `SourcesAreServed`), which the
prover does not do.  `NodeTypeOK` and
`ClientTypeOK` of the two composed runs are conjunctions of the parts' type
invariants, each of which is proved by the theorem of its own module; that
the parts share no variable is seen from the modules.

## 5. Not modelled, and the plan

In this order:

1. Metadata bundles (`import_metadata_bundle`), and the two nodes of
   `MCVersionStore` with their cluster views: repair and cleanup converge.
2. The data scrub, whose findings become repair tasks, and an abstract
   specification of live content that `ContentStore` implements.
3. Snapshots and tombstone compaction in the store.
4. Rendezvous presence and admission; multiplexed streams; route racing in the client.
5. Operation runs, storage pool relocation.
6. Directories and renames in the folder agent.

Proof planned: the refinement of item 2.

Left out for good: user interfaces, packaging, file system adapters (their
counterpart is the operating system), media and map caches (derived data),
telemetry, and the SQL of the metadata backends, whose calls are atomic writes
here.
