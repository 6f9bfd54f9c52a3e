--------------------------- MODULE ClusterPersistence ---------------------------
(***************************************************************************)
(* The cluster view and its copy in the metadata store                     *)
(* (persist_cluster_replicas_state, persist_cluster_nodes_state and        *)
(* persist_cluster_topology_state in crates/server-node-sdk/src/lib.rs).   *)
(*                                                                         *)
(* A handler changes the view under the mutex, releases it, takes it again *)
(* to export the whole view, and writes the export, which replaces the     *)
(* stored rows, after it has released the mutex.  Handlers run             *)
(* concurrently, so each is a task that goes through these stages at its   *)
(* own pace.  The node may stop at any point; what it knows afterwards is  *)
(* what the metadata store holds.                                          *)
(***************************************************************************)
EXTENDS ClusterView

CONSTANTS Tasks     \* bound: handlers that persist at the same time

VARIABLES disk,       \* the stored rows: node ids, hints and claims
          task,       \* what each handler still has to persist
          forgotten   \* nodes whose removal was acknowledged, since their last join

persistVars == <<disk, task, forgotten>>
allVars == <<vars, persistVars>>

Rows == [Subjects -> SUBSET NodeIds]

NoTask == [stage |-> "idle"]

PersistInit ==
    /\ Init
    /\ disk = [nodes |-> {Local}, replicas |-> EmptyView.by_key, available |-> EmptyView.by_key]
    /\ task = [t \in Tasks |-> NoTask]
    /\ forgotten = {}

\* A handler that has just changed the view has yet to export it.  removed is
\* the node it forgets, if any.
Spawn(t, parts, removed) ==
    /\ task[t] = NoTask
    /\ task' = [task EXCEPT ![t] = [stage |-> "export", parts |-> parts, removed |-> removed]]
    /\ UNCHANGED disk

Quiet == UNCHANGED persistVars

-------------------------------------------------------------------------------
(***************************************************************************)
(* The handlers and workers of ClusterView, with what each one persists    *)
(***************************************************************************)

\* register_node tells whether the descriptor is new or changed; a repeated
\* registration may or may not bring a change.
JoinAndPersist(t, n) ==
    /\ RegisterNode(n)
    /\ \/ Spawn(t, <<"nodes">>, {})
       \/ n \in DOMAIN nodes /\ UNCHANGED <<disk, task>>
    /\ forgotten' = forgotten \ {n}

\* persist_cluster_topology_state writes the nodes first.
RemoveAndPersist(t, n) ==
    /\ RemoveNode(n)
    /\ Spawn(t, <<"nodes", "views">>, {n})
    /\ UNCHANGED forgotten

ViewsChanged ==
    \/ LocalContent
    \/ \E w \in Workers : \/ \E subjects \in SUBSET Subjects : ApplySync(w, subjects)
                          \/ \E s \in Subjects : FinishPush(w, s)
                          \/ \E n \in NodeIds : DropExtra(w, n)

\* A put, a drop or a push persists in any case, a reconciliation only what it
\* changed.
ChangeViewsAndPersist(t) ==
    /\ ViewsChanged
    /\ \/ replicas' = replicas /\ available' = available /\ Quiet
       \/ Spawn(t, <<"views">>, {}) /\ UNCHANGED forgotten

\* Heartbeats, health checks and the start of a worker's request persist nothing.
Unpersisted ==
    /\ \/ \E n \in NodeIds : Heartbeat(n)
       \/ CheckHealth
       \/ Tick
       \/ \E w \in Workers :
             \/ \E n \in NodeIds : StartSync(w, n)
             \/ \E s \in Subjects : StartCleanup(w, s)
             \/ \E s \in Subjects, n \in NodeIds : StartPush(w, s, n)
             \/ GiveUp(w)
    /\ Quiet

-------------------------------------------------------------------------------
(***************************************************************************)
(* The stages of a task, and a restart                                     *)
(***************************************************************************)

\* Mutant: the export keeps both maps of a view.
ExportViews(t) ==
    /\ task[t].stage = "export"
    /\ task' = [task EXCEPT ![t] =
                  [stage |-> "write", parts |-> task[t].parts, removed |-> task[t].removed,
                   nodes |-> DOMAIN nodes, replicas |-> replicas, available |-> available]]
    /\ UNCHANGED <<vars, disk, forgotten>>

\* Both views and the nodes are exported under one lock.
Export(t) ==
    /\ task[t].stage = "export"
    /\ task' = [task EXCEPT ![t] =
                  [stage |-> "write", parts |-> task[t].parts, removed |-> task[t].removed,
                   nodes |-> DOMAIN nodes, replicas |-> replicas.by_key,
                   available |-> available.by_key]]
    /\ UNCHANGED <<vars, disk, forgotten>>

\* Mutant: the claims of the export are written and its hints are not.
WrittenClaimsOnly(d, job) ==
    IF Head(job.parts) = "nodes" THEN [d EXCEPT !.nodes = job.nodes]
    ELSE [d EXCEPT !.available = job.available]

\* persist_cluster_nodes or persist_cluster_replica_views: one transaction that
\* replaces all the rows.
Written(d, job) ==
    IF Head(job.parts) = "nodes" THEN [d EXCEPT !.nodes = job.nodes]
    ELSE [d EXCEPT !.replicas = job.replicas, !.available = job.available]

\* The last write of remove_node is followed by its answer.
Write(t) ==
    LET job == task[t]
    IN  /\ job.stage = "write"
        /\ disk' = Written(disk, job)
        /\ IF Len(job.parts) > 1
           THEN /\ task' = [task EXCEPT ![t].parts = Tail(@)]
                /\ UNCHANGED forgotten
           ELSE /\ task' = [task EXCEPT ![t] = NoTask]
                /\ forgotten' = forgotten \cup (job.removed \ DOMAIN nodes)
        /\ UNCHANGED vars

\* A write that fails is logged or reported to the caller; the view keeps the change.
FailWrite(t) ==
    /\ task[t].stage = "write"
    /\ task' = [task EXCEPT ![t] = NoTask]
    /\ UNCHANGED <<vars, disk, forgotten>>

\* load_cluster_nodes and load_cluster_replica_views: a failure of either is logged,
\* and the node goes on as if nothing were stored there.
Loaded(nodes_ok, views_ok) ==
    [nodes     |-> IF nodes_ok THEN disk.nodes ELSE {},
     replicas  |-> IF views_ok THEN disk.replicas ELSE EmptyView.by_key,
     available |-> IF views_ok THEN disk.available ELSE EmptyView.by_key]

\* Mutant: the stored rows are imported without the placeholder nodes.
KnownWithoutBackfill(rows) == rows.nodes \cup {Local}

\* backfill_cluster_nodes_from_replica_rows: nodes that are named in hints only
\* get a placeholder; then this node registers itself.
KnownAtStart(rows) == rows.nodes \cup (UNION {rows.replicas[s] : s \in Subjects}) \cup {Local}

\* import_replica_views, from the rows of the nodes that are known
Imported(rows, known) ==
    [by_key  |-> [s \in Subjects |-> rows[s] \cap known],
     by_node |-> [n \in NodeIds |-> {s \in Subjects : n \in rows[s] \cap known}]]

\* The process stops and starts again: import_nodes marks every peer offline.
Restart(nodes_ok, views_ok) ==
    LET rows == Loaded(nodes_ok, views_ok)
        known == KnownAtStart(rows)
    IN  /\ nodes' = [n \in known |->
                       [status |-> IF n = Local THEN Online ELSE Offline, last_heartbeat |-> now]]
        /\ replicas' = Imported(rows.replicas, known)
        /\ available' = Imported(rows.available, known)
        /\ worker' = [w \in Workers |-> Idle]
        /\ task' = [t \in Tasks |-> NoTask]
        /\ UNCHANGED <<disk, forgotten, now>>

PersistNext ==
    \/ \E t \in Tasks :
          \/ \E n \in NodeIds : JoinAndPersist(t, n) \/ RemoveAndPersist(t, n)
          \/ ChangeViewsAndPersist(t)
          \/ Export(t)
          \/ Write(t)
          \/ FailWrite(t)
    \/ Unpersisted
    \/ \E nodes_ok, views_ok \in BOOLEAN : Restart(nodes_ok, views_ok)

PersistSpec == PersistInit /\ [][PersistNext]_allVars

-------------------------------------------------------------------------------
(***************************************************************************)
(* Properties                                                              *)
(***************************************************************************)

Job == {NoTask}
       \cup [stage : {"export"}, parts : Seq({"nodes", "views"}), removed : SUBSET NodeIds]
       \cup [stage : {"write"}, parts : Seq({"nodes", "views"}), removed : SUBSET NodeIds,
             nodes : SUBSET NodeIds, replicas : Rows, available : Rows]

\* The view, what is stored of it and what each handler still has to persist.
PersistTypeOK ==
    /\ TypeOK
    /\ disk \in [nodes : SUBSET NodeIds, replicas : Rows, available : Rows]
    /\ task \in [Tasks -> Job]
    /\ forgotten \subseteq NodeIds

\* Whatever the order in which the exports are written, wherever the node stops
\* and whatever a start fails to load, the stored claims are backed by stored hints,
\* and the views that a restart imports are whole: their indexes agree and no claim
\* is without hint.
RestoredViewsAreWhole ==
    /\ \A s \in Subjects : disk.available[s] \subseteq disk.replicas[s]
    /\ IndexesAgree
    /\ ClaimsHaveHints

\* A restart that can load the replica views forgets no source: every stored hint
\* is in the view afterwards, also when its node is missing from the stored nodes
\* or these cannot be loaded at all.  When the views themselves cannot be loaded
\* the node starts without any, and the next handler to persist replaces the rows.
RestartKeepsHints ==
    [][\A nodes_ok \in BOOLEAN :
        Restart(nodes_ok, TRUE) =>
            \A s \in Subjects : disk.replicas[s] \subseteq replicas'.by_key[s]]_allVars

\* "removed node should be forgotten from persisted replica state" (main_tests.rs):
\* a removal that was acknowledged leaves no trace of the node in the store.
RemovedIsForgotten ==
    \A n \in forgotten : n \notin disk.nodes /\ \A s \in Subjects : n \notin disk.replicas[s]

===============================================================================
