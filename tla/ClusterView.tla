------------------------------ MODULE ClusterView ------------------------------
(***************************************************************************)
(* One storage node's view of the cluster                                  *)
(* (ClusterService in crates/server-node-sdk/src/cluster.rs, and the       *)
(* handlers and workers of lib.rs and replication.rs that change it).      *)
(*                                                                         *)
(* The view is behind one mutex, so every call of ClusterService is        *)
(* atomic.  A worker that asks a peer something releases the mutex while   *)
(* it waits, and applies the answer to whatever the view has become: the   *)
(* availability sync, a repair push and a cleanup are modelled as a start  *)
(* step, which picks its work from the view, and a completion step.        *)
(*                                                                         *)
(* A subject is a key or a version of a key ("key@version"); the version   *)
(* id says what made it ("ver-", "tomb-", "copy-", "restore-"...).  The    *)
(* maps from subjects to nodes and from nodes to subjects never keep an    *)
(* empty entry, so an absent entry and an empty set are one and the same   *)
(* here.                                                                   *)
(***************************************************************************)
EXTENDS Placement

CONSTANTS Local,               \* the node this view belongs to
          Subjects,            \* the replication subjects that are followed
          KeyOf,               \* the key of a subject
          Kind,                \* the prefix of its version id, "none" without one
          Tolerated,           \* policy.accepted_over_replication_items
          HeartbeatTimeout,    \* heartbeat_timeout_secs
          Workers,             \* concurrent workers that await a peer
          MaxTime              \* bound: last second of the clock

ASSUME LocalAssumption == Local \in NodeIds
ASSUME SubjectAssumption ==
    /\ Subjects \subseteq Keys
    /\ KeyOf \in [Subjects -> Keys]
    /\ \A s \in Subjects : Kind[s] = "none" <=> KeyOf[s] = s
ASSUME ClockAssumption == HeartbeatTimeout \in Nat /\ MaxTime \in Nat

VARIABLES nodes,        \* known nodes: status and last_heartbeat_unix
          replicas,     \* source hints: replicas_by_key, replica_subjects_by_node
          available,    \* current claims: available_by_key, available_subjects_by_node
          worker,       \* what each worker awaits
          now           \* unix_ts()

vars == <<nodes, replicas, available, worker, now>>

Online == "Online"
Offline == "Offline"
Descriptor == [status : {Online, Offline}, last_heartbeat : 0..MaxTime]
View == [by_key : [Subjects -> SUBSET NodeIds], by_node : [NodeIds -> SUBSET Subjects]]

\* parse_replication_subject finds a version id.
Versions == {s \in Subjects : Kind[s] # "none"}

\* is_versioned_replication_subject and replication_placement_key look for
\* "@ver-" only: any other version id makes a subject that is placed by itself.
IsVersioned(s) == Kind[s] = "ver"
BaseKey(s) == IF IsVersioned(s) THEN KeyOf[s] ELSE s

EmptyView == [by_key |-> [s \in Subjects |-> {}], by_node |-> [n \in NodeIds |-> {}]]

Idle == [op |-> "idle"]
Work == {Idle}
        \cup [op : {"sync"}, peer : NodeIds]
        \cup [op : {"push"}, peer : NodeIds, subject : Subjects]
        \cup [op : {"cleanup"}, subject : Subjects, targets : SUBSET NodeIds]

\* A started node knows itself.
Init ==
    /\ nodes = [n \in {Local} |-> [status |-> Online, last_heartbeat |-> 0]]
    /\ replicas = EmptyView
    /\ available = EmptyView
    /\ worker = [w \in Workers |-> Idle]
    /\ now = 0

-------------------------------------------------------------------------------
(***************************************************************************)
(* The two-way indexes                                                     *)
(***************************************************************************)

\* remove_subject_membership for the subjects of out, then
\* insert_subject_membership for those of in, all for node n.
Exchange(v, n, out, in) ==
    [by_key  |-> [s \in Subjects |->
                     IF s \in in THEN v.by_key[s] \cup {n}
                     ELSE IF s \in out THEN v.by_key[s] \ {n}
                     ELSE v.by_key[s]],
     by_node |-> [v.by_node EXCEPT ![n] = (@ \ out) \cup in]]

\* Mutant: only the reverse entry of the removed node is taken away.
ForgetReverseOnly(v, n) ==
    [v EXCEPT !.by_node = [v.by_node EXCEPT ![n] = {}]]

\* remove_node on one view: the reverse index names the entries to clean.
Forget(v, n) ==
    [by_key  |-> [s \in Subjects |->
                     IF s \in v.by_node[n] THEN v.by_key[s] \ {n} ELSE v.by_key[s]],
     by_node |-> [v.by_node EXCEPT ![n] = {}]]

\* replace_node_available_view
ReplaceView(v, n, desired) ==
    Exchange(v, n, v.by_node[n] \ desired, desired \ v.by_node[n])

\* Mutant: a fresh advertisement replaces the hints as it replaces the claims.
ReconcileForgetsHistory(v, n, desired) ==
    Exchange(v, n, v.by_node[n] \ desired, desired)

\* reconcile_node_subjects on the source hints: a version that a node does not
\* advertise any more stays a hint while the node advertises its key.
ReconcileHints(v, n, desired) ==
    LET bases == {BaseKey(s) : s \in desired}
        stale == {s \in v.by_node[n] :
                     s \notin desired /\ ~(IsVersioned(s) /\ BaseKey(s) \in bases)}
    IN  Exchange(v, n, stale, desired)

-------------------------------------------------------------------------------
(***************************************************************************)
(* Membership                                                              *)
(***************************************************************************)

\* register_node: a join, or any repeated registration.
RegisterNode(n) ==
    /\ nodes' = [m \in DOMAIN nodes \cup {n} |->
                    IF m = n THEN [status |-> Online, last_heartbeat |-> now] ELSE nodes[m]]
    /\ UNCHANGED <<replicas, available, worker, now>>

\* The admin request remove_node; a node does not remove itself.
RemoveNode(n) ==
    /\ n # Local
    /\ n \in DOMAIN nodes
    /\ nodes' = [m \in DOMAIN nodes \ {n} |-> nodes[m]]
    /\ replicas' = Forget(replicas, n)
    /\ available' = Forget(available, n)
    /\ UNCHANGED <<worker, now>>

\* touch_heartbeat
Heartbeat(n) ==
    /\ n \in DOMAIN nodes
    /\ nodes' = [nodes EXCEPT ![n] = [status |-> Online, last_heartbeat |-> now]]
    /\ UNCHANGED <<replicas, available, worker, now>>

\* update_health_and_detect_offline_transition
Health(ns) ==
    [n \in DOMAIN ns |->
        IF n = Local THEN [ns[n] EXCEPT !.status = Online]
        ELSE IF now > ns[n].last_heartbeat + HeartbeatTimeout
             THEN [ns[n] EXCEPT !.status = Offline]
             ELSE ns[n]]

CheckHealth ==
    /\ nodes' = Health(nodes)
    /\ UNCHANGED <<replicas, available, worker, now>>

Tick ==
    /\ now < MaxTime
    /\ now' = now + 1
    /\ UNCHANGED <<nodes, replicas, available, worker>>

-------------------------------------------------------------------------------
(***************************************************************************)
(* Local content                                                           *)
(***************************************************************************)

\* Mutant: a local write is announced as a claim and not as a source.
NoteAvailableOnly(subjects, n) ==
    /\ available' = Exchange(available, n, {}, subjects)
    /\ UNCHANGED replicas

\* note_replica, for each of some subjects
NoteReplicas(subjects, n) ==
    /\ replicas' = Exchange(replicas, n, {}, subjects)
    /\ available' = Exchange(available, n, {}, subjects)

\* remove_replica and remove_available, for each of some subjects
RemoveReplicas(subjects, n) ==
    /\ replicas' = Exchange(replicas, n, subjects, {})
    /\ available' = Exchange(available, n, subjects, {})

\* A put, a copy, a restore, a tombstone or an imported bundle made version v
\* of a key on this node.
StoreLocally(v) ==
    /\ v \in Versions
    /\ NoteReplicas({v, KeyOf[v]} \cap Subjects, Local)
    /\ UNCHANGED <<nodes, worker, now>>

\* A peer's cleanup drops this node's copy, a version is deleted, or a scrub
\* finds subjects degraded.
LoseLocally(subjects) ==
    /\ subjects # {}
    /\ RemoveReplicas(subjects, Local)
    /\ UNCHANGED <<nodes, worker, now>>

\* refresh_local_availability_view_once: a scan of the store is reconciled.
RefreshLocal(found) ==
    /\ replicas' = ReconcileHints(replicas, Local, found)
    /\ available' = ReplaceView(available, Local, found)
    /\ UNCHANGED <<nodes, worker, now>>

-------------------------------------------------------------------------------
(***************************************************************************)
(* Workers that await a peer                                               *)
(***************************************************************************)

Start(w, work) == worker[w] = Idle /\ worker' = [worker EXCEPT ![w] = work]
Finish(w) == worker' = [worker EXCEPT ![w] = Idle]

\* sync_remote_availability_views_once asks an online peer what it holds.
StartSync(w, n) ==
    /\ nodes' = Health(nodes)
    /\ n # Local
    /\ n \in DOMAIN nodes
    /\ nodes'[n].status = Online
    /\ Start(w, [op |-> "sync", peer |-> n])
    /\ UNCHANGED <<replicas, available, now>>

\* The answer is reconciled with the view as it is now.
ApplySync(w, subjects) ==
    /\ worker[w].op = "sync"
    /\ replicas' = ReconcileHints(replicas, worker[w].peer, subjects)
    /\ available' = ReplaceView(available, worker[w].peer, subjects)
    /\ Finish(w)
    /\ UNCHANGED <<nodes, now>>

Desired(s, ns) == SelectNodes(BaseKey(s), {n \in DOMAIN ns : ns[n].status = Online})

\* A repair run pushes this node's copy to a node the plan found missing.
StartPush(w, s, n) ==
    /\ nodes' = Health(nodes)
    /\ s \in available.by_node[Local]
    /\ n \in Elements(MissingNodes(Desired(s, nodes'), available.by_key[s]))
    /\ Start(w, [op |-> "push", peer |-> n, subject |-> s])
    /\ UNCHANGED <<replicas, available, now>>

\* The target has stored the bundle of version v: it is noted as a replica.
FinishPush(w, v) ==
    /\ worker[w].op = "push"
    /\ v \in Versions
    /\ IF worker[w].subject \in Versions
       THEN v = worker[w].subject ELSE KeyOf[v] = worker[w].subject
    /\ NoteReplicas({worker[w].subject, v}, worker[w].peer)
    /\ Finish(w)
    /\ UNCHANGED <<nodes, now>>

\* execute_replication_cleanup: the extra copies of a version that this node
\* can export and whose nodes it knows; max_deletions may cut the list short.
StartCleanup(w, s) ==
    /\ nodes' = Health(nodes)
    /\ s \in Versions
    /\ s \in replicas.by_node[Local]
    /\ \E tolerated \in 0..Tolerated :
         LET offline == {n \in DOMAIN nodes : nodes'[n].status = Offline}
         IN  \E extra \in ExtraNodeChoices(Desired(s, nodes'), available.by_key[s],
                                           offline, tolerated) :
                \E targets \in SUBSET (extra \cap DOMAIN nodes) :
                   /\ targets # {}
                   /\ Start(w, [op |-> "cleanup", subject |-> s, targets |-> targets])
    /\ UNCHANGED <<replicas, available, now>>

\* One target has dropped its copy; the claims of that node are removed.
DropExtra(w, n) ==
    /\ worker[w].op = "cleanup"
    /\ n \in worker[w].targets
    /\ RemoveReplicas({worker[w].subject}, n)
    /\ worker' = [worker EXCEPT ![w] =
                     IF worker[w].targets = {n} THEN Idle
                     ELSE [worker[w] EXCEPT !.targets = worker[w].targets \ {n}]]
    /\ UNCHANGED <<nodes, now>>

\* A request that fails, is rejected or times out changes nothing.
GiveUp(w) ==
    /\ worker[w] # Idle
    /\ Finish(w)
    /\ UNCHANGED <<nodes, replicas, available, now>>

-------------------------------------------------------------------------------

Membership == \E n \in NodeIds : RegisterNode(n) \/ RemoveNode(n) \/ Heartbeat(n)

LocalContent ==
    \/ \E v \in Subjects : StoreLocally(v)
    \/ \E subjects \in SUBSET Subjects : LoseLocally(subjects) \/ RefreshLocal(subjects)

Peers ==
    \E w \in Workers :
        \/ \E n \in NodeIds : StartSync(w, n) \/ DropExtra(w, n)
        \/ \E subjects \in SUBSET Subjects : ApplySync(w, subjects)
        \/ \E s \in Subjects : StartCleanup(w, s) \/ FinishPush(w, s)
        \/ \E s \in Subjects, n \in NodeIds : StartPush(w, s, n)
        \/ GiveUp(w)

Next == Membership \/ CheckHealth \/ Tick \/ LocalContent \/ Peers

Spec == Init /\ [][Next]_vars

-------------------------------------------------------------------------------
(***************************************************************************)
(* Properties                                                              *)
(***************************************************************************)

\* The view's maps; a node never stops knowing itself.
TypeOK ==
    /\ Local \in DOMAIN nodes
    /\ DOMAIN nodes \subseteq NodeIds
    /\ \A n \in DOMAIN nodes : nodes[n] \in Descriptor
    /\ replicas \in View
    /\ available \in View
    /\ worker \in [Workers -> Work]
    /\ now \in 0..MaxTime

Mirrored(v) == \A s \in Subjects, n \in NodeIds : n \in v.by_key[s] <=> s \in v.by_node[n]

\* The forward and the reverse map of both views describe the same relation, so
\* remove_node, which cleans the forward map through the reverse one, leaves
\* nothing behind.
IndexesAgree == Mirrored(replicas) /\ Mirrored(available)

\* Every current durability claim is also a source hint: a node that satisfies
\* the plan can be found as a source for the copies that are missing.
ClaimsHaveHints == \A s \in Subjects : available.by_key[s] \subseteq replicas.by_key[s]

\* A hint at an old version is lost only with the node, by an explicit drop of
\* that version, or when the node advertises no subject of its key any more.
HistoryIsKept ==
    [][\A s \in Subjects, n \in NodeIds :
          IsVersioned(s) /\ n \in replicas.by_key[s] /\ n \notin replicas'.by_key[s]
          => \/ n \notin DOMAIN nodes'
             \/ n = Local /\ \E gone \in SUBSET Subjects : s \in gone /\ LoseLocally(gone)
             \/ \E w \in Workers : DropExtra(w, n) /\ worker[w].subject = s
             \/ \A x \in available'.by_node[n] : BaseKey(x) # BaseKey(s)]_vars

\* A node that was removed and did not register again has no replica references
\* left (the test remove_node_cleans_membership_and_replica_references).
RemovedNodesHaveNoReferences ==
    \A n \in NodeIds \ DOMAIN nodes :
        replicas.by_node[n] = {} /\ available.by_node[n] = {}

\* "Never violate minimum replication policy" (docs/multi-node-strategy.md): the
\* copies that a cleanup is about to drop leave at least as many claims as the
\* placement over the online nodes asks for.
CleanupKeepsMinimum ==
    [][\A w \in Workers, s \in Subjects :
          StartCleanup(w, s) =>
              Cardinality(available.by_key[s] \ worker'[w].targets) >= Len(Desired(s, nodes'))]_vars

===============================================================================
