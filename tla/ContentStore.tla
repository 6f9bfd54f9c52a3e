------------------------------ MODULE ContentStore ------------------------------
(***************************************************************************)
(* Manifest and chunk files of a node: uploads, imports, repairs, and the  *)
(* sweep that deletes what nothing needs (crates/server-node-sdk/src/      *)
(* storage/mod.rs, storage/content_recovery.rs, content_recovery.rs).      *)
(*                                                                         *)
(* The sweep runs under the store's exclusive lock and decides from a      *)
(* snapshot that it takes first.  Uploads store chunks without the lock,   *)
(* and a repair verifies chunks without it.  What protects content is: a   *)
(* manifest that is owned and referenced protects its chunks, a durable    *)
(* repair task pins the chunks it lists, and a file younger than the       *)
(* retention is left alone.                                                *)
(*                                                                         *)
(* A manifest is named by its hash, which fixes its chunks.  References    *)
(* are those of the retained-content catalog: current objects, versions    *)
(* and snapshots.  Time appears as the files that are older than the       *)
(* retention.  Disks may corrupt a chunk, but lose none, and manifest      *)
(* files stay readable.  Records of cached chunks, file locations, sizes   *)
(* and media artifacts protect nothing and are left out.                   *)
(***************************************************************************)
EXTENDS Naturals

CONSTANTS Manifests, Chunks,
          ChunksOf      \* the chunks a manifest lists

ASSUME ChunksAssumption == ChunksOf \in [Manifests -> SUBSET Chunks]
ASSUME NamesAssumption == Manifests \cap Chunks = {}

VARIABLES chunk,       \* the file of each chunk
          manifests,   \* manifests that have a file
          aged,        \* files older than the retention
          refs,        \* manifests the retained-content catalog names
          owned,       \* locally_owned_manifests
          tasks,       \* content_repair_tasks, by manifest
          worker,      \* what the holder of a manifest's repair claim does
          sweep,       \* the sweep that holds the store's lock
          promised     \* manifests whose content this node acknowledged to hold

vars == <<chunk, manifests, aged, refs, owned, tasks, worker, sweep, promised>>

-------------------------------------------------------------------------------

FileStates == {"absent", "good", "corrupt"}
Present(c) == chunk[c] # "absent"        \* exists with its size
Good(c) == chunk[c] = "good"             \* and its bytes have the hash
Stored(m) == \A c \in ChunksOf[m] : Present(c)

\* repair: repair_chunks; import: pending_replication_import is set.
NoTask == [pending |-> FALSE, repair |-> FALSE, chunks |-> {}, import |-> FALSE]
Task(repair, cs, import) ==
    [pending |-> TRUE, repair |-> repair, chunks |-> cs, import |-> import]
Tasks == [pending : BOOLEAN, repair : BOOLEAN, chunks : SUBSET Chunks, import : BOOLEAN]
Pending == {m \in Manifests : tasks[m].pending}
Pinned == UNION {tasks[m].chunks : m \in Pending}

\* todo: chunks still to look at; bad: found missing or corrupt; done: verified.
Work(stage, todo, bad, done) == [stage |-> stage, todo |-> todo, bad |-> bad, done |-> done]
Idle == Work("idle", {}, {}, {})
Repairing == {"inspected", "transfer", "verify"}
Works == [stage : {"idle", "pull"} \cup Repairing,
          todo : SUBSET Chunks, bad : SUBSET Chunks, done : SUBSET Chunks]

\* tasks: manifests with a repair task; keep: chunks that must stay.
SweepOf(stage, rs, ts, keep) == [stage |-> stage, refs |-> rs, tasks |-> ts, keep |-> keep]
NoSweep == SweepOf("off", {}, {}, {})
Sweeps == [stage : {"off", "manifests", "chunks"}, refs : SUBSET Manifests,
           tasks : SUBSET Manifests, keep : SUBSET Chunks]

\* lock_store, and read_store as far as it waits for the sweep.
Unlocked == sweep.stage = "off"

Init ==
    /\ chunk = [c \in Chunks |-> "absent"]
    /\ manifests = {} /\ aged = {} /\ refs = {} /\ owned = {}
    /\ tasks = [m \in Manifests |-> NoTask]
    /\ worker = [m \in Manifests |-> Idle]
    /\ sweep = NoSweep
    /\ promised = {}

-------------------------------------------------------------------------------
(***************************************************************************)
(* Files and references                                                    *)
(***************************************************************************)

\* persist_storage_content for a chunk: a valid file is left as it is, age included.
StoreChunk(c) ==
    /\ chunk' = [chunk EXCEPT ![c] = "good"]
    /\ aged' = IF Good(c) THEN aged ELSE aged \ {c}

\* persist_storage_content for a manifest
StoreManifest(m) ==
    /\ manifests' = manifests \cup {m}
    /\ aged' = IF m \in manifests THEN aged ELSE aged \ {m}

\* ingest_chunk: an upload session, a pushed chunk, a read through this node.
\* Uploads take no lock.
Ingest(c) ==
    /\ StoreChunk(c)
    /\ UNCHANGED <<manifests, refs, owned, tasks, worker, sweep, promised>>

\* The manifest is written, marked as owned and referenced by a new version.
Adopt(m) ==
    /\ Unlocked
    /\ StoreManifest(m)
    /\ owned' = owned \cup {m}
    /\ refs' = refs \cup {m}
    /\ UNCHANGED <<chunk, sweep>>

\* Mutant: the chunks of the upload are not looked at again.
PutUnchecked(m) ==
    /\ Adopt(m)
    /\ promised' = promised \cup {m}
    /\ UNCHANGED <<tasks, worker>>

\* put_object_from_chunks: every chunk is read and hashed under the lock.
Put(m) ==
    /\ \A c \in ChunksOf[m] : Good(c)
    /\ Adopt(m)
    /\ promised' = promised \cup {m}
    /\ UNCHANGED <<tasks, worker>>

\* import_replication_bundle, for a bundle that a peer pushes: sizes are compared.
ImportPushed(m) ==
    /\ Stored(m)
    /\ Adopt(m)
    /\ promised' = promised \cup {m}
    /\ UNCHANGED <<tasks, worker>>

\* import_metadata_bundle: a reference without content.
ImportMetadata(m) ==
    /\ Unlocked
    /\ StoreManifest(m)
    /\ refs' = refs \cup {m}
    /\ UNCHANGED <<chunk, owned, tasks, worker, sweep, promised>>

\* clone_manifest_for_key: a rename, a copy or a restore makes a manifest with
\* the same chunks and marks it as owned, whether or not the source is.
Clone(m, n) ==
    /\ m # n /\ ChunksOf[m] = ChunksOf[n]
    /\ m \in refs \cap manifests
    /\ Adopt(n)
    /\ promised' = promised \cup (IF m \in promised THEN {n} ELSE {})
    /\ UNCHANGED <<tasks, worker>>

\* A put, an import or a clone ends after its first write or its second: by an
\* error, or with the process.
AdoptFails(m, own) ==
    /\ Unlocked
    /\ Stored(m) \/ \E n \in (refs \cap manifests) \ {m} : ChunksOf[n] = ChunksOf[m]
    /\ StoreManifest(m)
    /\ owned' = IF own THEN owned \cup {m} ELSE owned
    /\ UNCHANGED <<chunk, refs, tasks, worker, sweep, promised>>

\* A version is deleted or dropped, an index compacted, a snapshot removed.
Dereference(m) ==
    /\ Unlocked
    /\ m \in refs
    /\ refs' = refs \ {m}
    /\ promised' = promised \ {m}
    /\ UNCHANGED <<chunk, manifests, aged, owned, tasks, worker, sweep>>

\* A file gets older than the retention.  A sweep reads the clock once.
Age(f) ==
    /\ Unlocked
    /\ f \in manifests \/ (f \in Chunks /\ Present(f))
    /\ aged' = aged \cup {f}
    /\ UNCHANGED <<chunk, manifests, refs, owned, tasks, worker, sweep, promised>>

Corrupt(c) ==
    /\ Good(c)
    /\ chunk' = [chunk EXCEPT ![c] = "corrupt"]
    /\ UNCHANGED <<manifests, aged, refs, owned, tasks, worker, sweep, promised>>

-------------------------------------------------------------------------------
(***************************************************************************)
(* Repair tasks.  Whoever works on a task holds the claim on its manifest. *)
(***************************************************************************)

SetTask(m, t) == tasks' = [tasks EXCEPT ![m] = t]
SetWorker(m, w) == worker' = [worker EXCEPT ![m] = w]
Free(m) == worker[m].stage = "idle"

\* The pins a task starts with: the chunks of a local manifest.
Listed(m) == IF m \in manifests THEN ChunksOf[m] ELSE {}

\* prepare_and_persist_content_repair_task by the repair run, which keeps an
\* existing task.  The catalog it works from may be stale, so any manifest may
\* be named.
Enqueue(m, repair) ==
    /\ Unlocked /\ Free(m)
    /\ SetTask(m, Task(tasks[m].repair \/ repair,
                       IF tasks[m].chunks = {} THEN Listed(m) ELSE tasks[m].chunks,
                       tasks[m].import))
    /\ UNCHANGED <<chunk, manifests, aged, refs, owned, worker, sweep, promised>>

\* audit_assigned_from_retained: the tasks it excludes were read before the
\* claim, so that it may replace one that came since.
EnqueueByAudit(m) ==
    /\ Unlocked /\ Free(m)
    /\ SetTask(m, Task(TRUE, Listed(m), FALSE))
    /\ UNCHANGED <<chunk, manifests, aged, refs, owned, worker, sweep, promised>>

\* Mutant: the claim is not taken.
DiscardClaimed(m) ==
    /\ Unlocked
    /\ m \in Pending /\ ~tasks[m].import
    /\ SetTask(m, NoTask)
    /\ UNCHANGED <<chunk, manifests, aged, refs, owned, worker, sweep, promised>>

\* discard_content_repair_task: the catalog, perhaps a stale one, has no
\* reference for the task.
Discard(m) ==
    /\ Unlocked /\ Free(m)
    /\ m \in Pending /\ ~tasks[m].import
    /\ SetTask(m, NoTask)
    /\ UNCHANGED <<chunk, manifests, aged, refs, owned, worker, sweep, promised>>

\* recover_task_initial_transfer: with the manifest at hand the files are looked
\* at, without the lock.  A task that repairs a cache takes what it finds.
Inspect(m) ==
    /\ Free(m) /\ m \in Pending
    /\ SetWorker(m, Work("inspected",
                         IF tasks[m].repair THEN ChunksOf[m] ELSE {c \in ChunksOf[m] : Present(c)},
                         {}, {}))
    /\ UNCHANGED <<chunk, manifests, aged, refs, owned, tasks, sweep, promised>>

\* Mutant: the pin is persisted while a sweep is under way.
PersistPreparedUnlocked(m) ==
    /\ worker[m].stage = "inspected"
    /\ SetTask(m, [tasks[m] EXCEPT !.chunks = worker[m].todo])
    /\ StoreManifest(m)
    /\ SetWorker(m, Work("transfer", worker[m].todo, {}, {}))
    /\ UNCHANGED <<chunk, refs, owned, sweep, promised>>

\* Mutant: only the chunks that are missing are pinned.
PersistMissingOnly(m) ==
    /\ Unlocked
    /\ worker[m].stage = "inspected"
    /\ SetTask(m, [tasks[m] EXCEPT !.chunks = {c \in worker[m].todo : ~Present(c)}])
    /\ StoreManifest(m)
    /\ SetWorker(m, Work("transfer", worker[m].todo, {}, {}))
    /\ UNCHANGED <<chunk, refs, owned, sweep, promised>>

\* The complete pin is persisted, then the manifest installed.
PersistPrepared(m) ==
    /\ Unlocked
    /\ worker[m].stage = "inspected"
    /\ SetTask(m, [tasks[m] EXCEPT !.chunks = worker[m].todo])
    /\ StoreManifest(m)
    /\ SetWorker(m, Work("transfer", worker[m].todo, {}, {}))
    /\ UNCHANGED <<chunk, refs, owned, sweep, promised>>

Fetching(m) == worker[m].stage \in {"transfer", "pull"}
Settled(w, c) == [w EXCEPT !.todo = w.todo \ {c}]

\* recover_chunk finds the chunk: a repair compares its size, a pull its hash.
Reuse(m, c) ==
    /\ Unlocked
    /\ Fetching(m) /\ c \in worker[m].todo
    /\ Present(c)
    /\ worker[m].stage = "pull" => Good(c)
    /\ SetWorker(m, Settled(worker[m], c))
    /\ UNCHANGED <<chunk, manifests, aged, refs, owned, tasks, sweep, promised>>

\* recover_chunk installs what a peer sent, after checking its hash.
Install(m, c) ==
    /\ Unlocked
    /\ Fetching(m) /\ c \in worker[m].todo
    /\ StoreChunk(c)
    /\ SetWorker(m, Settled(worker[m], c))
    /\ UNCHANGED <<manifests, refs, owned, tasks, sweep, promised>>

\* invalid_recovered_chunks begins: all chunks of a replica, or the pinned ones.
BeginVerify(m) ==
    /\ worker[m].stage = "transfer" /\ worker[m].todo = {}
    /\ SetWorker(m, Work("verify", IF tasks[m].repair THEN ChunksOf[m] ELSE tasks[m].chunks,
                         {}, {}))
    /\ UNCHANGED <<chunk, manifests, aged, refs, owned, tasks, sweep, promised>>

\* One chunk is read and hashed, without the lock.
Verify(m, c) ==
    /\ worker[m].stage = "verify" /\ c \in worker[m].todo
    /\ SetWorker(m, IF Good(c)
                    THEN [Settled(worker[m], c) EXCEPT !.done = worker[m].done \cup {c}]
                    ELSE [Settled(worker[m], c) EXCEPT !.bad = worker[m].bad \cup {c}])
    /\ UNCHANGED <<chunk, manifests, aged, refs, owned, tasks, sweep, promised>>

\* A chunk that failed is fetched again.
Replace(m, c) ==
    /\ Unlocked
    /\ worker[m].stage = "verify" /\ worker[m].todo = {} /\ c \in worker[m].bad
    /\ StoreChunk(c)
    /\ SetWorker(m, [worker[m] EXCEPT !.bad = worker[m].bad \ {c},
                                      !.done = worker[m].done \cup {c}])
    /\ UNCHANGED <<manifests, refs, owned, tasks, sweep, promised>>

Verified(m) == worker[m].stage = "verify" /\ worker[m].todo = {} /\ worker[m].bad = {}

\* finish_verified_content_repair: ownership first, then the pin is released.
Finish(m) ==
    /\ Unlocked
    /\ Verified(m) /\ ~tasks[m].import
    /\ owned' = IF tasks[m].repair THEN owned \cup {m} ELSE owned
    /\ promised' = IF tasks[m].repair /\ m \in refs THEN promised \cup {m} ELSE promised
    /\ SetTask(m, NoTask)
    /\ SetWorker(m, Idle)
    /\ UNCHANGED <<chunk, manifests, aged, refs, sweep>>

\* The pin could not be released: the task stays, now of an owned manifest.
FinishFails(m) ==
    /\ Unlocked
    /\ Verified(m) /\ ~tasks[m].import /\ tasks[m].repair
    /\ owned' = owned \cup {m}
    /\ SetWorker(m, Idle)
    /\ UNCHANGED <<chunk, manifests, aged, refs, tasks, sweep, promised>>

\* pull_bundle_from_source: manifest and pin are persisted together; without
\* automatic repair no pin is made.
Pull(m, pin) ==
    /\ Unlocked /\ Free(m)
    /\ IF pin THEN SetTask(m, Task(TRUE, ChunksOf[m], TRUE)) /\ StoreManifest(m)
              ELSE UNCHANGED <<tasks, manifests, aged>>
    /\ SetWorker(m, Work("pull", ChunksOf[m], {}, {}))
    /\ UNCHANGED <<chunk, refs, owned, sweep, promised>>

\* The end of a pull, or complete_pending_replication_import for the worker that
\* resumed one: the bundle is imported, which looks at every chunk once more,
\* and the pin is released, under one lock.
ImportPulled(m) ==
    /\ (worker[m].stage = "pull" /\ worker[m].todo = {}) \/ (Verified(m) /\ tasks[m].import)
    /\ Stored(m)
    /\ Adopt(m)
    /\ promised' = promised \cup {m}
    /\ SetTask(m, NoTask)
    /\ SetWorker(m, Idle)

\* No source, a local error, or the end of the budget: the task stays.
GiveUp(m) ==
    /\ Unlocked
    /\ ~Free(m)
    /\ SetWorker(m, Idle)
    /\ UNCHANGED <<chunk, manifests, aged, refs, owned, tasks, sweep, promised>>

\* Cut off between the inspection and the transfer, the failure path persists
\* the task with its new list.
Defer(m) ==
    /\ Unlocked
    /\ worker[m].stage = "inspected"
    /\ SetTask(m, [tasks[m] EXCEPT !.chunks = worker[m].todo])
    /\ SetWorker(m, Idle)
    /\ UNCHANGED <<chunk, manifests, aged, refs, owned, sweep, promised>>

-------------------------------------------------------------------------------
(***************************************************************************)
(* cleanup_unreferenced                                                    *)
(***************************************************************************)

\* The protection snapshot, under the lock and the gate.  Pins are kept.
BeginSweep ==
    /\ Unlocked
    /\ sweep' = SweepOf("manifests", refs, Pending, Pinned)
    /\ UNCHANGED <<chunk, manifests, aged, refs, owned, tasks, worker, promised>>

Sweepable(m) == m \in (manifests \cap aged) \ (sweep.refs \cup sweep.tasks)

SweepManifest(m) ==
    /\ sweep.stage = "manifests"
    /\ Sweepable(m)
    /\ manifests' = manifests \ {m}
    /\ aged' = aged \ {m}
    /\ owned' = owned \ {m}
    /\ UNCHANGED <<chunk, refs, tasks, worker, sweep, promised>>

\* What is left is read for the chunks of owned, referenced manifests.
ListProtected ==
    /\ sweep.stage = "manifests"
    /\ \A m \in Manifests : ~Sweepable(m)
    /\ sweep' = SweepOf("chunks", sweep.refs, sweep.tasks,
                        sweep.keep \cup UNION {ChunksOf[m] : m \in sweep.refs \cap owned \cap manifests})
    /\ UNCHANGED <<chunk, manifests, aged, refs, owned, tasks, worker, promised>>

SweepChunk(c) ==
    /\ sweep.stage = "chunks"
    /\ c \in aged \ sweep.keep
    /\ chunk' = [chunk EXCEPT ![c] = "absent"]
    /\ aged' = aged \ {c}
    /\ UNCHANGED <<manifests, refs, owned, tasks, worker, sweep, promised>>

\* The sweep is done, or an error ended it.
EndSweep ==
    /\ ~Unlocked
    /\ sweep' = NoSweep
    /\ UNCHANGED <<chunk, manifests, aged, refs, owned, tasks, worker, promised>>

\* The process stops: claims and locks are gone, tasks are durable.
Crash ==
    /\ worker' = [m \in Manifests |-> Idle]
    /\ sweep' = NoSweep
    /\ UNCHANGED <<chunk, manifests, aged, refs, owned, tasks, promised>>

-------------------------------------------------------------------------------

Requests ==
    \/ \E c \in Chunks : Ingest(c)
    \/ \E m \in Manifests : Put(m) \/ ImportPushed(m) \/ ImportMetadata(m) \/ Dereference(m)
    \/ \E m, n \in Manifests : Clone(m, n)
    \/ \E m \in Manifests, own \in BOOLEAN : AdoptFails(m, own)

Repairs ==
    \E m \in Manifests :
        \/ \E b \in BOOLEAN : Enqueue(m, b) \/ Pull(m, b)
        \/ EnqueueByAudit(m) \/ Discard(m)
        \/ Inspect(m) \/ PersistPrepared(m) \/ BeginVerify(m)
        \/ \E c \in Chunks : Reuse(m, c) \/ Install(m, c) \/ Verify(m, c) \/ Replace(m, c)
        \/ Finish(m) \/ FinishFails(m) \/ ImportPulled(m) \/ GiveUp(m) \/ Defer(m)

Sweeping ==
    \/ BeginSweep \/ ListProtected \/ EndSweep
    \/ \E m \in Manifests : SweepManifest(m)
    \/ \E c \in Chunks : SweepChunk(c)

Environment ==
    \/ \E f \in Manifests \cup Chunks : Age(f)
    \/ \E c \in Chunks : Corrupt(c)
    \/ Crash

Next == Requests \/ Repairs \/ Sweeping \/ Environment

Spec == Init /\ [][Next]_vars

-------------------------------------------------------------------------------
(***************************************************************************)
(* Properties                                                              *)
(***************************************************************************)

\* The state, and that work on a task goes on only while the task is there.
TypeOK ==
    /\ chunk \in [Chunks -> FileStates]
    /\ manifests \subseteq Manifests /\ refs \subseteq Manifests
    /\ owned \subseteq Manifests /\ promised \subseteq Manifests
    /\ aged \subseteq Manifests \cup Chunks
    /\ tasks \in [Manifests -> Tasks]
    /\ worker \in [Manifests -> Works]
    /\ sweep \in Sweeps
    /\ \A m \in Manifests : worker[m].stage \in Repairing => tasks[m].pending

\* Content that this node acknowledged (a put, an import, a finished repair) is
\* there as long as it is referenced: no sweep, retry, crash or dereference of
\* something that shares its chunks takes a file away.
PromisedIsStored ==
    \A m \in promised : m \in refs \cap owned \cap manifests /\ Stored(m)

\* A chunk that a repair has verified is still there when the repair gets to
\* its end, although verification holds no lock: the pin covers it.
VerifiedStays ==
    \A m \in Manifests : \A c \in worker[m].done : Present(c)

\* A file that disappears is not pinned and not listed by an owned, referenced
\* manifest.
RemovesOnlyDead ==
    /\ \A m \in manifests \ manifests' : m \notin refs \cup Pending
    /\ \A c \in Chunks :
          Present(c) /\ chunk'[c] = "absent" =>
             /\ c \notin Pinned
             /\ \A m \in refs \cap owned \cap manifests : c \notin ChunksOf[m]

\* "A durable task pins its manifest and chunks"
\* (docs/data-scrub-auto-repair-strategy.md): what the sweep removes is dead at
\* that very moment, and not only when the snapshot was taken.
SweepSparesLive == [][RemovesOnlyDead]_vars

===============================================================================
