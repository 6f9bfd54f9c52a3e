-------------------------- MODULE ContentStoreProofs --------------------------
(***************************************************************************)
(* No sweep takes content that this node acknowledged, for any manifests   *)
(* and chunks.                                                             *)
(*                                                                         *)
(* A chunk disappears in one action only, SweepChunk, and only if the      *)
(* snapshot does not keep it.  So the argument is that the snapshot still  *)
(* covers, when the file is removed, whatever is protected then:           *)
(* everything that adds a reference, an owner or a pin waits for the       *)
(* store's lock (SweepInv).  That a finished repair may be promised needs  *)
(* that what it verified, without the lock, has been pinned all along      *)
(* (WorkerInv).                                                            *)
(***************************************************************************)
EXTENDS ContentStore, TLAPS

\* The work of a claim holder is covered by the pin of its task.
WorkerInv ==
    \A m \in Manifests :
        /\ worker[m].stage # "verify" => worker[m].done = {}
        /\ worker[m].stage = "inspected" /\ tasks[m].repair => ChunksOf[m] \subseteq worker[m].todo
        /\ worker[m].stage \in {"transfer", "verify"} =>
              /\ m \in manifests
              /\ tasks[m].repair => ChunksOf[m] \subseteq tasks[m].chunks
        /\ worker[m].stage = "verify" =>
              /\ worker[m].done \subseteq tasks[m].chunks
              /\ worker[m].todo \subseteq tasks[m].chunks
              /\ worker[m].bad \subseteq tasks[m].chunks
              /\ tasks[m].repair =>
                    ChunksOf[m] \subseteq worker[m].todo \cup worker[m].bad \cup worker[m].done

\* The snapshot covers what is protected now.
SweepInv ==
    sweep.stage # "off" =>
        /\ sweep.refs = refs
        /\ sweep.tasks = Pending
        /\ \A m \in Pending : tasks[m].chunks \subseteq sweep.keep
        /\ sweep.stage = "chunks" =>
              \A m \in refs \cap owned \cap manifests : ChunksOf[m] \subseteq sweep.keep

GInv == TypeOK /\ PromisedIsStored /\ VerifiedStays /\ WorkerInv /\ SweepInv

-------------------------------------------------------------------------------
(***************************************************************************)
(* The types, where an action builds a task or a work record               *)
(***************************************************************************)

\* What a change of one task preserves of TypeOK.
LEMMA TaskChange ==
    ASSUME NEW m \in Manifests, TypeOK, NEW t \in Tasks, t.pending,
           SetTask(m, t), worker' = worker
    PROVE  /\ tasks' \in [Manifests -> Tasks]
           /\ \A x \in Manifests : worker'[x].stage \in Repairing => tasks'[x].pending
  BY DEF TypeOK, SetTask

\* The same for a change of one worker.
LEMMA WorkChange ==
    ASSUME NEW m \in Manifests, TypeOK, NEW w \in Works,
           w.stage \in Repairing => tasks[m].pending,
           SetWorker(m, w), tasks' = tasks
    PROVE  /\ worker' \in [Manifests -> Works]
           /\ \A x \in Manifests : worker'[x].stage \in Repairing => tasks'[x].pending
  BY DEF TypeOK, SetWorker

\* A task that is built from typed parts is typed and pending.
LEMMA TaskIsTyped ==
    ASSUME NEW repair \in BOOLEAN, NEW cs \in SUBSET Chunks, NEW import \in BOOLEAN
    PROVE  Task(repair, cs, import) \in Tasks /\ Task(repair, cs, import).pending
  BY DEF Task, Tasks

\* The chunks that a new task lists.
LEMMA ListedIsTyped ==
    ASSUME NEW m \in Manifests
    PROVE  Listed(m) \in SUBSET Chunks
  BY ChunksAssumption DEF Listed

\* The work of one claim holder.
LEMMA WorkIsTyped ==
    ASSUME NEW m \in Manifests, GInv
    PROVE  /\ worker[m] \in Works
           /\ worker[m].stage \in Repairing => tasks[m].pending
           /\ worker[m].done \in SUBSET Chunks /\ worker[m].bad \in SUBSET Chunks
  BY DEF GInv, TypeOK, Works

\* The task of a repair run keeps what the earlier task had.
LEMMA EnqueueTypes ==
    ASSUME NEW m \in Manifests, NEW b \in BOOLEAN, GInv, Enqueue(m, b)
    PROVE  TypeOK'
  <1> DEFINE cs == IF tasks[m].chunks = {} THEN Listed(m) ELSE tasks[m].chunks
             t == Task(tasks[m].repair \/ b, cs, tasks[m].import)
  <1>1. /\ tasks[m].repair \in BOOLEAN /\ tasks[m].import \in BOOLEAN
        /\ tasks[m].chunks \in SUBSET Chunks
    BY DEF GInv, TypeOK, Tasks
  <1>2. cs \in SUBSET Chunks
    BY <1>1, ListedIsTyped
  <1> HIDE DEF cs
  <1>3. t \in Tasks /\ t.pending
    BY <1>1, <1>2, TaskIsTyped
  <1>4. SetTask(m, t)
    BY DEF Enqueue, cs
  <1> HIDE DEF t
  <1> QED
    BY <1>3, <1>4, TaskChange DEF GInv, TypeOK, Enqueue

\* The audit's task is a new one.
LEMMA EnqueueByAuditTypes ==
    ASSUME NEW m \in Manifests, GInv, EnqueueByAudit(m)
    PROVE  TypeOK'
  <1> DEFINE t == Task(TRUE, Listed(m), FALSE)
  <1>1. t \in Tasks /\ t.pending
    BY ListedIsTyped, TaskIsTyped
  <1>2. SetTask(m, t)
    BY DEF EnqueueByAudit
  <1> HIDE DEF t
  <1> QED
    BY <1>1, <1>2, TaskChange DEF GInv, TypeOK, EnqueueByAudit

\* The inspection lists chunks of the manifest.
LEMMA InspectTypes ==
    ASSUME NEW m \in Manifests, GInv, Inspect(m)
    PROVE  TypeOK'
  <1> DEFINE cs == IF tasks[m].repair THEN ChunksOf[m] ELSE {c \in ChunksOf[m] : Present(c)}
             w == Work("inspected", cs, {}, {})
  <1>1. cs \in SUBSET Chunks
    BY ChunksAssumption
  <1> HIDE DEF cs
  <1>2. w \in Works
    BY <1>1 DEF Work, Works, Repairing
  <1>3. SetWorker(m, w) /\ tasks[m].pending
    BY DEF Inspect, cs, Pending
  <1> HIDE DEF w
  <1> QED
    BY <1>2, <1>3, WorkChange DEF GInv, TypeOK, Inspect

\* A pull with a pin changes the task, one without leaves it.
LEMMA PullTypes ==
    ASSUME NEW m \in Manifests, NEW pin \in BOOLEAN, GInv, Pull(m, pin)
    PROVE  TypeOK'
  <1>1. /\ worker' \in [Manifests -> Works]
        /\ \A x \in Manifests : worker'[x].stage \in Repairing => x # m /\ worker'[x] = worker[x]
    BY ChunksAssumption DEF GInv, TypeOK, Pull, SetWorker, Work, Works, Repairing
  <1>2. /\ tasks' \in [Manifests -> Tasks]
        /\ \A x \in Manifests : x # m => tasks'[x] = tasks[x]
    <2>1. CASE pin
      <3>1. Task(TRUE, ChunksOf[m], TRUE) \in Tasks
        BY ChunksAssumption, TaskIsTyped
      <3> QED
        BY <2>1, <3>1 DEF GInv, TypeOK, Pull, SetTask
    <2>2. CASE ~pin
      BY <2>2 DEF GInv, TypeOK, Pull
    <2> QED
      BY <2>1, <2>2
  <1> QED
    BY <1>1, <1>2 DEF GInv, TypeOK, Pull, StoreManifest

\* A chunk is crossed off.
LEMMA ReuseTypes ==
    ASSUME NEW m \in Manifests, NEW c \in Chunks, GInv, Reuse(m, c)
    PROVE  TypeOK'
  <1> DEFINE w == Settled(worker[m], c)
  <1>1. w \in Works /\ w.stage = worker[m].stage
    BY WorkIsTyped DEF Works, Settled
  <1>2. SetWorker(m, w)
    BY DEF Reuse
  <1> HIDE DEF w
  <1> QED
    BY <1>1, <1>2, WorkIsTyped, WorkChange DEF GInv, TypeOK, Reuse

\* A verified chunk goes to one list or the other.
LEMMA VerifyTypes ==
    ASSUME NEW m \in Manifests, NEW c \in Chunks, GInv, Verify(m, c)
    PROVE  TypeOK'
  <1>1. PICK w \in Works : w.stage = worker[m].stage /\ SetWorker(m, w)
    <2>1. CASE Good(c)
      <3> DEFINE w == [Settled(worker[m], c) EXCEPT !.done = worker[m].done \cup {c}]
      <3>1. w \in Works /\ w.stage = worker[m].stage
        BY WorkIsTyped DEF Works, Settled
      <3> QED
        BY <2>1, <3>1 DEF Verify, SetWorker
    <2>2. CASE ~Good(c)
      <3> DEFINE w == [Settled(worker[m], c) EXCEPT !.bad = worker[m].bad \cup {c}]
      <3>1. w \in Works /\ w.stage = worker[m].stage
        BY WorkIsTyped DEF Works, Settled
      <3> QED
        BY <2>2, <3>1 DEF Verify, SetWorker
    <2> QED
      BY <2>1, <2>2
  <1> QED
    BY <1>1, WorkIsTyped, WorkChange DEF GInv, TypeOK, Verify

\* A replaced chunk moves from one list to the other.
LEMMA ReplaceTypes ==
    ASSUME NEW m \in Manifests, NEW c \in Chunks, GInv, Replace(m, c)
    PROVE  TypeOK'
  <1> DEFINE w == [worker[m] EXCEPT !.bad = worker[m].bad \ {c},
                                    !.done = worker[m].done \cup {c}]
  <1>1. w \in Works /\ w.stage = worker[m].stage
    BY WorkIsTyped DEF Works
  <1>2. SetWorker(m, w)
    BY DEF Replace
  <1> HIDE DEF w
  <1> QED
    BY <1>1, <1>2, WorkIsTyped, WorkChange DEF GInv, TypeOK, Replace, StoreChunk, FileStates

-------------------------------------------------------------------------------
(***************************************************************************)
(* One lemma per action: each preserves the invariant                      *)
(***************************************************************************)

\* Storing a chunk only adds content.
LEMMA IngestInv ==
    ASSUME NEW c \in Chunks, GInv, Ingest(c)
    PROVE  GInv'
  <1>1. TypeOK'
    BY DEF GInv, Ingest, TypeOK, StoreChunk, FileStates
  <1>2. PromisedIsStored'
    BY DEF GInv, Ingest, PromisedIsStored, StoreChunk, Present, Stored
  <1>3. VerifiedStays'
    BY DEF GInv, Ingest, VerifiedStays, StoreChunk, Present
  <1>4. WorkerInv'
    BY DEF GInv, Ingest, WorkerInv
  <1>5. SweepInv'
    BY DEF GInv, Ingest, SweepInv, Pending
  <1> QED
    BY <1>1, <1>2, <1>3, <1>4, <1>5 DEF GInv

\* A put promises what it has just looked at, and waits for the sweep.
LEMMA PutInv ==
    ASSUME NEW m \in Manifests, GInv, Put(m)
    PROVE  GInv'
  <1>1. TypeOK'
    BY DEF GInv, Put, TypeOK, Adopt, StoreManifest
  <1>2. PromisedIsStored'
    BY DEF GInv, Put, PromisedIsStored, Adopt, Good, StoreManifest,
         Present, Stored
  <1>3. VerifiedStays'
    BY DEF GInv, Put, VerifiedStays, Adopt, Present
  <1>4. WorkerInv'
    BY DEF GInv, Put, WorkerInv, Adopt, StoreManifest
  <1>5. SweepInv'
    BY DEF Put, SweepInv, Adopt, Unlocked
  <1> QED
    BY <1>1, <1>2, <1>3, <1>4, <1>5 DEF GInv

\* An import looks at the sizes before it promises.
LEMMA ImportPushedInv ==
    ASSUME NEW m \in Manifests, GInv, ImportPushed(m)
    PROVE  GInv'
  <1>1. TypeOK'
    BY DEF GInv, ImportPushed, TypeOK, Adopt, StoreManifest
  <1>2. PromisedIsStored'
    BY DEF GInv, ImportPushed, PromisedIsStored, Adopt, Present,
         StoreManifest, Stored
  <1>3. VerifiedStays'
    BY DEF GInv, ImportPushed, VerifiedStays, Adopt, Present
  <1>4. WorkerInv'
    BY DEF GInv, ImportPushed, WorkerInv, Adopt, StoreManifest
  <1>5. SweepInv'
    BY DEF ImportPushed, SweepInv, Adopt, Unlocked
  <1> QED
    BY <1>1, <1>2, <1>3, <1>4, <1>5 DEF GInv

\* A reference without content promises nothing.
LEMMA ImportMetadataInv ==
    ASSUME NEW m \in Manifests, GInv, ImportMetadata(m)
    PROVE  GInv'
  <1>1. TypeOK'
    BY DEF GInv, ImportMetadata, TypeOK, StoreManifest
  <1>2. PromisedIsStored'
    BY DEF GInv, ImportMetadata, PromisedIsStored, StoreManifest,
         Present, Stored
  <1>3. VerifiedStays'
    BY DEF GInv, ImportMetadata, VerifiedStays, Present
  <1>4. WorkerInv'
    BY DEF GInv, ImportMetadata, WorkerInv, StoreManifest
  <1>5. SweepInv'
    BY DEF ImportMetadata, SweepInv, Unlocked
  <1> QED
    BY <1>1, <1>2, <1>3, <1>4, <1>5 DEF GInv

\* A clone is promised with its source, whose chunks it shares.
LEMMA CloneInv ==
    ASSUME NEW m \in Manifests, NEW n \in Manifests, GInv, Clone(m, n)
    PROVE  GInv'
  <1>1. TypeOK'
    BY DEF GInv, Clone, TypeOK, Adopt, StoreManifest
  <1>2. PromisedIsStored'
    BY DEF GInv, Clone, PromisedIsStored, Adopt, StoreManifest, Present,
         Stored
  <1>3. VerifiedStays'
    BY DEF GInv, Clone, VerifiedStays, Adopt, Present
  <1>4. WorkerInv'
    BY DEF GInv, Clone, WorkerInv, Adopt, StoreManifest
  <1>5. SweepInv'
    BY DEF Clone, SweepInv, Adopt, Unlocked
  <1> QED
    BY <1>1, <1>2, <1>3, <1>4, <1>5 DEF GInv

\* What an interrupted put leaves behind protects more than before.
LEMMA AdoptFailsInv ==
    ASSUME NEW m \in Manifests, NEW own \in BOOLEAN, GInv, AdoptFails(m, own)
    PROVE  GInv'
  <1>1. TypeOK'
    BY DEF GInv, AdoptFails, TypeOK, StoreManifest
  <1>2. PromisedIsStored'
    BY DEF GInv, AdoptFails, PromisedIsStored, Present, StoreManifest,
         Stored
  <1>3. VerifiedStays'
    BY DEF GInv, AdoptFails, VerifiedStays, Present
  <1>4. WorkerInv'
    BY DEF GInv, AdoptFails, WorkerInv, StoreManifest
  <1>5. SweepInv'
    BY DEF AdoptFails, SweepInv, Unlocked
  <1> QED
    BY <1>1, <1>2, <1>3, <1>4, <1>5 DEF GInv

\* A promise ends with its reference.
LEMMA DereferenceInv ==
    ASSUME NEW m \in Manifests, GInv, Dereference(m)
    PROVE  GInv'
  <1>1. TypeOK'
    BY DEF GInv, Dereference, TypeOK
  <1>2. PromisedIsStored'
    BY DEF GInv, Dereference, PromisedIsStored, Present, Stored
  <1>3. VerifiedStays'
    BY DEF GInv, Dereference, VerifiedStays, Present
  <1>4. WorkerInv'
    BY DEF GInv, Dereference, WorkerInv
  <1>5. SweepInv'
    BY DEF Dereference, SweepInv, Unlocked
  <1> QED
    BY <1>1, <1>2, <1>3, <1>4, <1>5 DEF GInv

\* Age alone removes nothing.
LEMMA AgeInv ==
    ASSUME NEW f \in Manifests \cup Chunks, GInv, Age(f)
    PROVE  GInv'
  <1>1. TypeOK'
    BY DEF GInv, Age, TypeOK
  <1>2. PromisedIsStored'
    BY DEF GInv, Age, PromisedIsStored, Present, Stored
  <1>3. VerifiedStays'
    BY DEF GInv, Age, VerifiedStays, Present
  <1>4. WorkerInv'
    BY DEF GInv, Age, WorkerInv
  <1>5. SweepInv'
    BY DEF GInv, Age, SweepInv, Pending
  <1> QED
    BY <1>1, <1>2, <1>3, <1>4, <1>5 DEF GInv

\* A corrupt chunk is still present.
LEMMA CorruptInv ==
    ASSUME NEW c \in Chunks, GInv, Corrupt(c)
    PROVE  GInv'
  <1>1. TypeOK'
    BY DEF GInv, Corrupt, TypeOK, FileStates
  <1>2. PromisedIsStored'
    BY DEF GInv, Corrupt, PromisedIsStored, Present, Stored
  <1>3. VerifiedStays'
    BY DEF GInv, Corrupt, VerifiedStays, Present
  <1>4. WorkerInv'
    BY DEF GInv, Corrupt, WorkerInv
  <1>5. SweepInv'
    BY DEF GInv, Corrupt, SweepInv, Pending
  <1> QED
    BY <1>1, <1>2, <1>3, <1>4, <1>5 DEF GInv

\* A pin is registered only while no sweep runs.
LEMMA EnqueueInv ==
    ASSUME NEW m \in Manifests, NEW repair \in BOOLEAN, GInv, Enqueue(m, repair)
    PROVE  GInv'
  <1>1. TypeOK'
    BY EnqueueTypes
  <1>2. PromisedIsStored'
    BY DEF GInv, Enqueue, PromisedIsStored, Present, Stored
  <1>3. VerifiedStays'
    BY DEF GInv, Enqueue, VerifiedStays, Present
  <1>4. WorkerInv'
    BY DEF GInv, Enqueue, WorkerInv, Free, SetTask
  <1>5. SweepInv'
    BY DEF Enqueue, SweepInv, Unlocked
  <1> QED
    BY <1>1, <1>2, <1>3, <1>4, <1>5 DEF GInv

\* The replaced task has no worker, since the claim is free.
LEMMA EnqueueByAuditInv ==
    ASSUME NEW m \in Manifests, GInv, EnqueueByAudit(m)
    PROVE  GInv'
  <1>1. TypeOK'
    BY EnqueueByAuditTypes
  <1>2. PromisedIsStored'
    BY DEF GInv, EnqueueByAudit, PromisedIsStored, Present, Stored
  <1>3. VerifiedStays'
    BY DEF GInv, EnqueueByAudit, VerifiedStays, Present
  <1>4. WorkerInv'
    BY DEF GInv, EnqueueByAudit, WorkerInv, Free, SetTask, Task
  <1>5. SweepInv'
    BY DEF EnqueueByAudit, SweepInv, Unlocked
  <1> QED
    BY <1>1, <1>2, <1>3, <1>4, <1>5 DEF GInv

\* The discarded task has no worker, since the claim is free.
LEMMA DiscardInv ==
    ASSUME NEW m \in Manifests, GInv, Discard(m)
    PROVE  GInv'
  <1>1. TypeOK'
    BY DEF GInv, Discard, TypeOK, Free, NoTask, SetTask, Repairing,
         Tasks
  <1>2. PromisedIsStored'
    BY DEF GInv, Discard, PromisedIsStored, Present, Stored
  <1>3. VerifiedStays'
    BY DEF GInv, Discard, VerifiedStays, Present
  <1>4. WorkerInv'
    BY DEF GInv, Discard, WorkerInv, Free, SetTask
  <1>5. SweepInv'
    BY DEF Discard, SweepInv, Unlocked
  <1> QED
    BY <1>1, <1>2, <1>3, <1>4, <1>5 DEF GInv

\* The inspection of a replica's task lists all of its chunks.
LEMMA InspectInv ==
    ASSUME NEW m \in Manifests, GInv, Inspect(m)
    PROVE  GInv'
  <1>1. TypeOK'
    BY InspectTypes
  <1>2. PromisedIsStored'
    BY DEF GInv, Inspect, PromisedIsStored, Present, Stored
  <1>3. VerifiedStays'
    BY DEF GInv, Inspect, VerifiedStays, Present, SetWorker, Work
  <1>4. WorkerInv'
    BY DEF GInv, Inspect, WorkerInv, SetWorker, Work
  <1>5. SweepInv'
    BY DEF GInv, Inspect, SweepInv, Pending
  <1> QED
    BY <1>1, <1>2, <1>3, <1>4, <1>5 DEF GInv

\* From here on the pin covers all that the worker will verify.
LEMMA PersistPreparedInv ==
    ASSUME NEW m \in Manifests, GInv, PersistPrepared(m)
    PROVE  GInv'
  <1>1. TypeOK'
    BY DEF GInv, PersistPrepared, TypeOK, SetTask, SetWorker,
         StoreManifest, Work, Repairing, Tasks, Works
  <1>2. PromisedIsStored'
    BY DEF GInv, PersistPrepared, PromisedIsStored, StoreManifest,
         Present, Stored
  <1>3. VerifiedStays'
    BY DEF GInv, PersistPrepared, VerifiedStays, SetWorker, Work,
         Present
  <1>4. WorkerInv'
    BY DEF GInv, PersistPrepared, WorkerInv, SetTask, SetWorker,
         StoreManifest, Work, TypeOK
  <1>5. SweepInv'
    BY DEF PersistPrepared, SweepInv, Unlocked
  <1> QED
    BY <1>1, <1>2, <1>3, <1>4, <1>5 DEF GInv

\* A chunk that is found is only crossed off.
LEMMA ReuseInv ==
    ASSUME NEW m \in Manifests, NEW c \in Chunks, GInv, Reuse(m, c)
    PROVE  GInv'
  <1>1. TypeOK'
    BY ReuseTypes
  <1>2. PromisedIsStored'
    BY DEF GInv, Reuse, PromisedIsStored, Present, Stored
  <1>3. VerifiedStays'
    BY DEF GInv, Reuse, VerifiedStays, Present, SetWorker, Settled
  <1>4. WorkerInv'
    BY DEF GInv, Reuse, WorkerInv, Fetching, SetWorker, Settled
  <1>5. SweepInv'
    BY DEF GInv, Reuse, SweepInv, Pending
  <1> QED
    BY <1>1, <1>2, <1>3, <1>4, <1>5 DEF GInv

\* A chunk that was fetched is stored and crossed off.
LEMMA InstallInv ==
    ASSUME NEW m \in Manifests, NEW c \in Chunks, GInv, Install(m, c)
    PROVE  GInv'
  <1>1. TypeOK'
    BY DEF GInv, Install, TypeOK, Fetching, Good, SetWorker, Settled,
         StoreChunk, Unlocked, FileStates, Sweeps, Works,
         PromisedIsStored, SweepInv
  <1>2. PromisedIsStored'
    BY DEF GInv, Install, PromisedIsStored, StoreChunk, Present, Stored
  <1>3. VerifiedStays'
    BY DEF GInv, Install, VerifiedStays, SetWorker, Settled, StoreChunk,
         Present
  <1>4. WorkerInv'
    BY DEF GInv, Install, WorkerInv, Fetching, SetWorker, Settled
  <1>5. SweepInv'
    BY DEF GInv, Install, SweepInv, Pending
  <1> QED
    BY <1>1, <1>2, <1>3, <1>4, <1>5 DEF GInv

\* What is to be verified is pinned.
LEMMA BeginVerifyInv ==
    ASSUME NEW m \in Manifests, GInv, BeginVerify(m)
    PROVE  GInv'
  <1>1. TypeOK'
    BY DEF GInv, BeginVerify, TypeOK, SetWorker, Work, Repairing, Tasks,
         Works, WorkerInv
  <1>2. PromisedIsStored'
    BY DEF GInv, BeginVerify, PromisedIsStored, Present, Stored
  <1>3. VerifiedStays'
    BY DEF GInv, BeginVerify, VerifiedStays, SetWorker, Work, Present
  <1>4. WorkerInv'
    BY DEF GInv, BeginVerify, WorkerInv, SetWorker, Work
  <1>5. SweepInv'
    BY DEF GInv, BeginVerify, SweepInv, Pending
  <1> QED
    BY <1>1, <1>2, <1>3, <1>4, <1>5 DEF GInv

\* A chunk that was found good is present, though no lock is held.
LEMMA VerifyInv ==
    ASSUME NEW m \in Manifests, NEW c \in Chunks, GInv, Verify(m, c)
    PROVE  GInv'
  <1>1. TypeOK'
    BY VerifyTypes
  <1>2. PromisedIsStored'
    BY DEF GInv, Verify, PromisedIsStored, Present, Stored
  <1>3. VerifiedStays'
    BY DEF GInv, Verify, VerifiedStays, Good, SetWorker, Settled,
         Present
  <1>4. WorkerInv'
    BY DEF GInv, Verify, WorkerInv, SetWorker, Settled
  <1>5. SweepInv'
    BY DEF GInv, Verify, SweepInv, Pending
  <1> QED
    BY <1>1, <1>2, <1>3, <1>4, <1>5 DEF GInv

\* A chunk that was fetched again is present.
LEMMA ReplaceInv ==
    ASSUME NEW m \in Manifests, NEW c \in Chunks, GInv, Replace(m, c)
    PROVE  GInv'
  <1>1. TypeOK'
    BY ReplaceTypes
  <1>2. PromisedIsStored'
    BY DEF GInv, Replace, PromisedIsStored, StoreChunk, Present, Stored
  <1>3. VerifiedStays'
    BY DEF GInv, Replace, VerifiedStays, SetWorker, StoreChunk, Present,
         TypeOK
  <1>4. WorkerInv'
    BY DEF GInv, Replace, WorkerInv, SetWorker
  <1>5. SweepInv'
    BY DEF GInv, Replace, SweepInv, Pending
  <1> QED
    BY <1>1, <1>2, <1>3, <1>4, <1>5 DEF GInv

\* All chunks of a replica were verified and stayed, so it may be promised.
LEMMA FinishInv ==
    ASSUME NEW m \in Manifests, GInv, Finish(m)
    PROVE  GInv'
  <1>1. TypeOK'
    BY DEF GInv, Finish, TypeOK, Idle, NoTask, SetTask, SetWorker, Work,
         Repairing, Tasks, Works
  <1>2. PromisedIsStored'
    BY DEF GInv, Finish, PromisedIsStored, Verified, Present, Stored,
         VerifiedStays, WorkerInv
  <1>3. VerifiedStays'
    BY DEF GInv, Finish, VerifiedStays, Idle, SetWorker, Work, Present
  <1>4. WorkerInv'
    BY DEF GInv, Finish, WorkerInv, Idle, SetTask, SetWorker, Work,
         TypeOK
  <1>5. SweepInv'
    BY DEF Finish, SweepInv, Unlocked
  <1> QED
    BY <1>1, <1>2, <1>3, <1>4, <1>5 DEF GInv

\* Ownership is taken, the pin stays.
LEMMA FinishFailsInv ==
    ASSUME NEW m \in Manifests, GInv, FinishFails(m)
    PROVE  GInv'
  <1>1. TypeOK'
    BY DEF GInv, FinishFails, TypeOK, Idle, SetWorker, Work, Repairing,
         Works
  <1>2. PromisedIsStored'
    BY DEF GInv, FinishFails, PromisedIsStored, Present, Stored
  <1>3. VerifiedStays'
    BY DEF GInv, FinishFails, VerifiedStays, Idle, SetWorker, Work,
         Present
  <1>4. WorkerInv'
    BY DEF GInv, FinishFails, WorkerInv, Idle, SetWorker, Work
  <1>5. SweepInv'
    BY DEF FinishFails, SweepInv, Unlocked
  <1> QED
    BY <1>1, <1>2, <1>3, <1>4, <1>5 DEF GInv

\* A pull takes the claim and pins all chunks.
LEMMA PullInv ==
    ASSUME NEW m \in Manifests, NEW pin \in BOOLEAN, GInv, Pull(m, pin)
    PROVE  GInv'
  <1>1. TypeOK'
    BY PullTypes
  <1>2. PromisedIsStored'
    BY DEF GInv, Pull, PromisedIsStored, StoreManifest, Task, Present,
         Stored
  <1>3. VerifiedStays'
    BY DEF GInv, Pull, VerifiedStays, SetWorker, Work, Present
  <1>4. WorkerInv'
    BY DEF GInv, Pull, WorkerInv, SetTask, SetWorker, StoreManifest,
         Task, Work, TypeOK
  <1>5. SweepInv'
    BY DEF Pull, SweepInv, Unlocked
  <1> QED
    BY <1>1, <1>2, <1>3, <1>4, <1>5 DEF GInv

\* The import looks at the sizes before it promises.
LEMMA ImportPulledInv ==
    ASSUME NEW m \in Manifests, GInv, ImportPulled(m)
    PROVE  GInv'
  <1>1. TypeOK'
    BY DEF GInv, ImportPulled, TypeOK, Adopt, Idle, NoTask, SetTask,
         SetWorker, StoreManifest, Work, Repairing, Tasks, Works
  <1>2. PromisedIsStored'
    BY DEF GInv, ImportPulled, PromisedIsStored, Adopt, Present,
         StoreManifest, Stored
  <1>3. VerifiedStays'
    BY DEF GInv, ImportPulled, VerifiedStays, Adopt, Idle, Present,
         SetWorker, Work
  <1>4. WorkerInv'
    BY DEF GInv, ImportPulled, WorkerInv, Adopt, Idle, SetTask,
         SetWorker, StoreManifest, Work, TypeOK
  <1>5. SweepInv'
    BY DEF ImportPulled, SweepInv, Adopt, Unlocked
  <1> QED
    BY <1>1, <1>2, <1>3, <1>4, <1>5 DEF GInv

\* The worker forgets what it verified.
LEMMA GiveUpInv ==
    ASSUME NEW m \in Manifests, GInv, GiveUp(m)
    PROVE  GInv'
  <1>1. TypeOK'
    BY DEF GInv, GiveUp, TypeOK, Idle, SetWorker, Work, Repairing, Works
  <1>2. PromisedIsStored'
    BY DEF GInv, GiveUp, PromisedIsStored, Present, Stored
  <1>3. VerifiedStays'
    BY DEF GInv, GiveUp, VerifiedStays, Idle, SetWorker, Work, Present
  <1>4. WorkerInv'
    BY DEF GInv, GiveUp, WorkerInv, Idle, SetWorker, Work
  <1>5. SweepInv'
    BY DEF GInv, GiveUp, SweepInv, Pending
  <1> QED
    BY <1>1, <1>2, <1>3, <1>4, <1>5 DEF GInv

\* The list of an idle task may be any.
LEMMA DeferInv ==
    ASSUME NEW m \in Manifests, GInv, Defer(m)
    PROVE  GInv'
  <1>1. TypeOK'
    BY DEF GInv, Defer, TypeOK, Idle, SetTask, SetWorker, Work, Tasks,
         Works
  <1>2. PromisedIsStored'
    BY DEF GInv, Defer, PromisedIsStored, Present, Stored
  <1>3. VerifiedStays'
    BY DEF GInv, Defer, VerifiedStays, Idle, SetWorker, Work, Present
  <1>4. WorkerInv'
    BY DEF GInv, Defer, WorkerInv, Idle, SetTask, SetWorker, Work
  <1>5. SweepInv'
    BY DEF Defer, SweepInv, Unlocked
  <1> QED
    BY <1>1, <1>2, <1>3, <1>4, <1>5 DEF GInv

\* The snapshot is current when it is taken.
LEMMA BeginSweepInv ==
    ASSUME GInv, BeginSweep
    PROVE  GInv'
  <1>1. TypeOK'
    BY DEF GInv, BeginSweep, TypeOK, Pending, Pinned, SweepOf, Sweeps,
         Tasks
  <1>2. PromisedIsStored'
    BY DEF GInv, BeginSweep, PromisedIsStored, Present, Stored
  <1>3. VerifiedStays'
    BY DEF GInv, BeginSweep, VerifiedStays, Present
  <1>4. WorkerInv'
    BY DEF GInv, BeginSweep, WorkerInv
  <1>5. SweepInv'
    BY DEF BeginSweep, SweepInv, Pending, Pinned, SweepOf
  <1> QED
    BY <1>1, <1>2, <1>3, <1>4, <1>5 DEF GInv

\* Referenced and pinned manifests stay.
LEMMA SweepManifestInv ==
    ASSUME NEW m \in Manifests, GInv, SweepManifest(m)
    PROVE  GInv'
  <1>1. TypeOK'
    BY DEF GInv, SweepManifest, TypeOK
  <1>2. PromisedIsStored'
    BY DEF GInv, SweepManifest, PromisedIsStored, Sweepable, Present,
         Stored, SweepInv
  <1>3. VerifiedStays'
    BY DEF GInv, SweepManifest, VerifiedStays, Present
  <1>4. WorkerInv'
    BY DEF GInv, SweepManifest, WorkerInv, Sweepable, TypeOK, Works,
         SweepInv, Pending
  <1>5. SweepInv'
    BY DEF GInv, SweepManifest, SweepInv, Pending
  <1> QED
    BY <1>1, <1>2, <1>3, <1>4, <1>5 DEF GInv

\* From here on the chunks of owned, referenced manifests are kept.
LEMMA ListProtectedInv ==
    ASSUME GInv, ListProtected
    PROVE  GInv'
  <1>1. TypeOK'
    BY ChunksAssumption DEF GInv, ListProtected, TypeOK, SweepOf, Sweeps
  <1>2. PromisedIsStored'
    BY DEF GInv, ListProtected, PromisedIsStored, Present, Stored
  <1>3. VerifiedStays'
    BY DEF GInv, ListProtected, VerifiedStays, Present
  <1>4. WorkerInv'
    BY DEF GInv, ListProtected, WorkerInv
  <1>5. SweepInv'
    BY DEF GInv, ListProtected, SweepInv, SweepOf, Pending
  <1> QED
    BY <1>1, <1>2, <1>3, <1>4, <1>5 DEF GInv

\* The snapshot keeps whatever is promised or verified.
LEMMA SweepChunkInv ==
    ASSUME NEW c \in Chunks, GInv, SweepChunk(c)
    PROVE  GInv'
  <1>1. TypeOK'
    BY DEF GInv, SweepChunk, TypeOK, FileStates
  <1>2. PromisedIsStored'
    BY DEF GInv, SweepChunk, PromisedIsStored, Present, Stored, SweepInv
  <1>3. VerifiedStays'
    BY DEF GInv, SweepChunk, VerifiedStays, Present, TypeOK, Works,
         WorkerInv, SweepInv, Pending
  <1>4. WorkerInv'
    BY DEF GInv, SweepChunk, WorkerInv
  <1>5. SweepInv'
    BY DEF GInv, SweepChunk, SweepInv, Pending
  <1> QED
    BY <1>1, <1>2, <1>3, <1>4, <1>5 DEF GInv

\* Without a sweep nothing is removed.
LEMMA EndSweepInv ==
    ASSUME GInv, EndSweep
    PROVE  GInv'
  <1>1. TypeOK'
    BY DEF GInv, EndSweep, TypeOK, NoSweep, SweepOf, Sweeps
  <1>2. PromisedIsStored'
    BY DEF GInv, EndSweep, PromisedIsStored, Present, Stored
  <1>3. VerifiedStays'
    BY DEF GInv, EndSweep, VerifiedStays, Present
  <1>4. WorkerInv'
    BY DEF GInv, EndSweep, WorkerInv
  <1>5. SweepInv'
    BY DEF EndSweep, SweepInv, NoSweep, SweepOf
  <1> QED
    BY <1>1, <1>2, <1>3, <1>4, <1>5 DEF GInv

\* Tasks survive, claims and the sweep do not.
LEMMA CrashInv ==
    ASSUME GInv, Crash
    PROVE  GInv'
  <1>1. TypeOK'
    BY DEF GInv, Crash, TypeOK, Idle, NoSweep, SweepOf, Work, Repairing,
         Sweeps, Works
  <1>2. PromisedIsStored'
    BY DEF GInv, Crash, PromisedIsStored, Present, Stored
  <1>3. VerifiedStays'
    BY DEF Crash, VerifiedStays, Idle, Work
  <1>4. WorkerInv'
    BY DEF Crash, WorkerInv, Idle, Work
  <1>5. SweepInv'
    BY DEF Crash, SweepInv, NoSweep, SweepOf
  <1> QED
    BY <1>1, <1>2, <1>3, <1>4, <1>5 DEF GInv

-------------------------------------------------------------------------------
(***************************************************************************)
(* The theorems                                                            *)
(***************************************************************************)

\* The empty store.
LEMMA InitInv == Init => GInv
  <1> SUFFICES ASSUME Init PROVE GInv
    OBVIOUS
  <1>1. TypeOK
    BY DEF Init, TypeOK, FileStates, NoTask, Tasks, Idle, Work, Works, Repairing,
           NoSweep, SweepOf, Sweeps
  <1>2. PromisedIsStored /\ VerifiedStays /\ WorkerInv
    BY DEF Init, PromisedIsStored, VerifiedStays, WorkerInv, Idle, Work
  <1>3. SweepInv
    BY DEF Init, SweepInv, NoSweep, SweepOf
  <1> QED
    BY <1>1, <1>2, <1>3 DEF GInv

\* Every step preserves the invariant.
LEMMA NextInv == GInv /\ [Next]_vars => GInv'
  <1> SUFFICES ASSUME GInv, [Next]_vars PROVE GInv'
    OBVIOUS
  <1>1. CASE Requests
    BY <1>1, IngestInv, PutInv, ImportPushedInv, ImportMetadataInv, DereferenceInv,
       CloneInv, AdoptFailsInv DEF Requests
  <1>2. CASE Repairs
    <2>1. PICK m \in Manifests :
             \/ \E b \in BOOLEAN : Enqueue(m, b) \/ Pull(m, b)
             \/ EnqueueByAudit(m) \/ Discard(m)
             \/ Inspect(m) \/ PersistPrepared(m) \/ BeginVerify(m)
             \/ \E c \in Chunks : Reuse(m, c) \/ Install(m, c) \/ Verify(m, c) \/ Replace(m, c)
             \/ Finish(m) \/ FinishFails(m) \/ ImportPulled(m) \/ GiveUp(m) \/ Defer(m)
      BY <1>2 DEF Repairs
    <2>2. CASE \E b \in BOOLEAN : Enqueue(m, b) \/ Pull(m, b)
      BY <2>2, EnqueueInv, PullInv
    <2>3. CASE EnqueueByAudit(m) \/ Discard(m)
      BY <2>3, EnqueueByAuditInv, DiscardInv
    <2>4. CASE Inspect(m) \/ PersistPrepared(m) \/ BeginVerify(m)
      BY <2>4, InspectInv, PersistPreparedInv, BeginVerifyInv
    <2>5. CASE \E c \in Chunks : Reuse(m, c) \/ Install(m, c) \/ Verify(m, c) \/ Replace(m, c)
      BY <2>5, ReuseInv, InstallInv, VerifyInv, ReplaceInv
    <2>6. CASE Finish(m) \/ FinishFails(m) \/ ImportPulled(m) \/ GiveUp(m) \/ Defer(m)
      BY <2>6, FinishInv, FinishFailsInv, ImportPulledInv, GiveUpInv, DeferInv
    <2> QED
      BY <2>1, <2>2, <2>3, <2>4, <2>5, <2>6
  <1>3. CASE Sweeping
    BY <1>3, BeginSweepInv, ListProtectedInv, EndSweepInv, SweepManifestInv, SweepChunkInv
       DEF Sweeping
  <1>4. CASE Environment
    BY <1>4, AgeInv, CorruptInv, CrashInv DEF Environment
  <1>5. CASE UNCHANGED vars
    BY <1>5 DEF vars, GInv, TypeOK, PromisedIsStored, Stored, Present, VerifiedStays,
                WorkerInv, SweepInv, Pending
  <1> QED
    BY <1>1, <1>2, <1>3, <1>4, <1>5 DEF Next

\* GInv is an invariant.
LEMMA Inductive == Spec => []GInv
  BY InitInv, NextInv, PTL DEF Spec

\* The state keeps its types, and a worker always has its durable task.
THEOREM TypeCorrect == Spec => []TypeOK
  <1>1. GInv => TypeOK
    BY DEF GInv
  <1> QED
    BY <1>1, Inductive, PTL

\* Content this node acknowledged to hold stays until the last reference goes,
\* whatever sweeps, repairs, failures and crashes come in between.
THEOREM PromisesAreKept == Spec => []PromisedIsStored
  <1>1. GInv => PromisedIsStored
    BY DEF GInv
  <1> QED
    BY <1>1, Inductive, PTL

\* What invalid_recovered_chunks found good without a lock stays until the
\* repair ends.
THEOREM VerifiedContentStays == Spec => []VerifiedStays
  <1>1. GInv => VerifiedStays
    BY DEF GInv
  <1> QED
    BY <1>1, Inductive, PTL

\* A step that removes no file, which is any but two.
KeepsFiles ==
    /\ manifests \subseteq manifests'
    /\ \A c \in Chunks : Present(c) => chunk'[c] # "absent"

\* Neither requests nor the environment remove a file.
LEMMA RequestsKeepFiles ==
    ASSUME GInv, Requests \/ Environment
    PROVE  KeepsFiles
  <1>1. CASE Requests
    BY <1>1 DEF GInv, TypeOK, KeepsFiles, Present, Requests, Ingest, Put, ImportPushed,
       ImportMetadata, Dereference, Clone, AdoptFails, Adopt, StoreChunk, StoreManifest
  <1>2. CASE Environment
    BY <1>2 DEF GInv, TypeOK, KeepsFiles, Present, Environment, Age, Corrupt, Crash
  <1> QED
    BY <1>1, <1>2

\* No step of a repair removes a file.
LEMMA RepairsKeepFiles ==
    ASSUME NEW m \in Manifests, GInv
    PROVE  /\ \A b \in BOOLEAN : Enqueue(m, b) \/ Pull(m, b) => KeepsFiles
           /\ EnqueueByAudit(m) \/ Discard(m) \/ Inspect(m) \/ PersistPrepared(m) => KeepsFiles
           /\ BeginVerify(m) \/ GiveUp(m) \/ Defer(m) \/ FinishFails(m) => KeepsFiles
           /\ Finish(m) \/ ImportPulled(m) => KeepsFiles
           /\ \A c \in Chunks :
                 Reuse(m, c) \/ Install(m, c) \/ Verify(m, c) \/ Replace(m, c) => KeepsFiles
  <1>1. \A b \in BOOLEAN : Enqueue(m, b) \/ Pull(m, b) => KeepsFiles
    BY DEF KeepsFiles, Present, Enqueue, Pull, StoreManifest
  <1>2. EnqueueByAudit(m) \/ Discard(m) \/ Inspect(m) \/ PersistPrepared(m) => KeepsFiles
    BY DEF KeepsFiles, Present, EnqueueByAudit, Discard, Inspect, PersistPrepared, StoreManifest
  <1>3. BeginVerify(m) \/ GiveUp(m) \/ Defer(m) \/ FinishFails(m) => KeepsFiles
    BY DEF KeepsFiles, Present, BeginVerify, GiveUp, Defer, FinishFails
  <1>4. Finish(m) \/ ImportPulled(m) => KeepsFiles
    BY DEF KeepsFiles, Present, Finish, ImportPulled, Adopt, StoreManifest
  <1>5. ASSUME NEW c \in Chunks
        PROVE  Reuse(m, c) \/ Install(m, c) \/ Verify(m, c) \/ Replace(m, c) => KeepsFiles
    BY DEF GInv, TypeOK, KeepsFiles, Present, Reuse, Install, Verify, Replace, StoreChunk
  <1> QED
    BY <1>1, <1>2, <1>3, <1>4, <1>5

\* The two steps that remove a file decide from a snapshot that is current.
LEMMA SweepRemovesOnlyDead ==
    ASSUME GInv, Sweeping
    PROVE  RemovesOnlyDead
  <1>1. CASE BeginSweep \/ ListProtected \/ EndSweep
    BY <1>1 DEF RemovesOnlyDead, Present, BeginSweep, ListProtected, EndSweep
  <1>2. CASE \E m \in Manifests : SweepManifest(m)
    BY <1>2 DEF GInv, SweepInv, RemovesOnlyDead, Present, SweepManifest, Sweepable
  <1>3. CASE \E c \in Chunks : SweepChunk(c)
    BY <1>3 DEF GInv, TypeOK, SweepInv, RemovesOnlyDead, Present, SweepChunk, Pinned
  <1> QED
    BY <1>1, <1>2, <1>3 DEF Sweeping

\* So every step removes only what nothing protects.
LEMMA StepRemovesOnlyDead == GInv /\ [Next]_vars => [RemovesOnlyDead]_vars
  <1> SUFFICES ASSUME GInv, Next PROVE RemovesOnlyDead
    OBVIOUS
  <1>1. KeepsFiles => RemovesOnlyDead
    BY DEF KeepsFiles, RemovesOnlyDead, Present
  <1>2. CASE Requests \/ Environment
    BY <1>1, <1>2, RequestsKeepFiles
  <1>3. CASE Repairs
    BY <1>1, <1>3, RepairsKeepFiles DEF Repairs
  <1>4. CASE Sweeping
    BY <1>4, SweepRemovesOnlyDead
  <1> QED
    BY <1>2, <1>3, <1>4 DEF Next

\* No sweep removes a file that is pinned or protected at that moment, although
\* it decides from an earlier snapshot.
THEOREM SweepIsSafe == Spec => SweepSparesLive
  BY Inductive, StepRemovesOnlyDead, PTL DEF Spec, SweepSparesLive

===============================================================================
