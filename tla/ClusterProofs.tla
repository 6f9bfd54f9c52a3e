----------------------------- MODULE ClusterProofs -----------------------------
(***************************************************************************)
(* The cluster view and what is stored of it, for any nodes, subjects,     *)
(* labels, policy and number of workers and handlers.                      *)
(*                                                                         *)
(* The two-way indexes: the argument is one fact about Exchange, through   *)
(* which every change of a view goes but the removal of a node: it changes *)
(* both maps by the same pairs.  Removal needs the invariant itself, since *)
(* it cleans the forward map through the reverse one.  That claims have    *)
(* hints is preserved because hints are reconciled to a superset of the    *)
(* claims: what stays advertised is not stale.                             *)
(*                                                                         *)
(* Whatever is written and in whatever order, a restarted node has whole   *)
(* views.  The exports that wait to be written were taken under the lock,  *)
(* so each carries hints for its claims (ExportsAreWhole); a write stores  *)
(* both parts of one export in one transaction, so the store has the same  *)
(* property; and the import builds both maps from the same rows.           *)
(*                                                                         *)
(* The import drops the rows of nodes that it does not know.  It drops no  *)
(* stored hint, because the nodes of stored hints are registered first.    *)
(* The view and all that is stored of it keep their types.                 *)
(*                                                                         *)
(* Placement.  The two passes of select_nodes_by_rendezvous and the filter *)
(* of plan are recursive functions over the positions of a sequence.       *)
(* LoopRuns says that such a function exists and obeys its equations;      *)
(* LoopInduction says that what holds before the loop and is kept by every *)
(* iteration holds after it: were there a wrong iteration there would be a *)
(* first one.  From what one iteration keeps follow the size of a          *)
(* placement, its label values and the number of copies a plan makes, and  *)
(* that it is the first nodes of their kind by rank, which is why only the *)
(* copies of a lost node move.                                             *)
(***************************************************************************)
EXTENDS ClusterPersistence, PlacementWalk, FiniteSetTheorems, WellFoundedInduction, TLAPS

\* What the proof needs of the workers: an answer is about a node and subjects
\* of this cluster.
WorkersTyped == worker \in [Workers -> Work]

ViewsTyped == replicas \in View /\ available \in View

VInv == ViewsTyped /\ WorkersTyped /\ IndexesAgree /\ ClaimsHaveHints

-------------------------------------------------------------------------------

\* The pairs of a view before and after an exchange.
LEMMA ExchangeFacts ==
    ASSUME NEW v \in View, NEW n \in NodeIds, NEW out \in SUBSET Subjects, NEW in \in SUBSET Subjects
    PROVE  /\ Exchange(v, n, out, in) \in View
           /\ Mirrored(v) => Mirrored(Exchange(v, n, out, in))
           /\ \A s \in Subjects, m \in NodeIds :
                 m \in Exchange(v, n, out, in).by_key[s] <=>
                    \/ m = n /\ s \in in
                    \/ m \in v.by_key[s] /\ ~(m = n /\ s \in out)
  <1> DEFINE e == Exchange(v, n, out, in)
  <1>1. /\ v.by_key \in [Subjects -> SUBSET NodeIds]
        /\ v.by_node \in [NodeIds -> SUBSET Subjects]
    BY DEF View
  <1>2. /\ e = [by_key |-> e.by_key, by_node |-> e.by_node]
        /\ e.by_key = [s \in Subjects |->
                          IF s \in in THEN v.by_key[s] \cup {n}
                          ELSE IF s \in out THEN v.by_key[s] \ {n} ELSE v.by_key[s]]
        /\ e.by_node = [v.by_node EXCEPT ![n] = (@ \ out) \cup in]
    BY DEF Exchange
  <1> HIDE DEF e
  <1>3. e.by_key \in [Subjects -> SUBSET NodeIds] /\ e.by_node \in [NodeIds -> SUBSET Subjects]
    BY <1>1, <1>2
  <1>4. e \in View
    BY <1>2, <1>3 DEF View
  <1>5. \A s \in Subjects, m \in NodeIds :
            m \in e.by_key[s] <=> (m = n /\ s \in in) \/ (m \in v.by_key[s] /\ ~(m = n /\ s \in out))
    BY <1>1, <1>2
  <1>6. \A s \in Subjects, m \in NodeIds :
            s \in e.by_node[m] <=> (m = n /\ s \in in) \/ (s \in v.by_node[m] /\ ~(m = n /\ s \in out))
    BY <1>1, <1>2
  <1>7. Mirrored(v) => Mirrored(e)
    BY <1>5, <1>6 DEF Mirrored
  <1> QED
    BY <1>4, <1>5, <1>7 DEF e

\* remove_node leaves nothing of the node in a view whose maps agree.
LEMMA ForgetFacts ==
    ASSUME NEW v \in View, NEW n \in NodeIds, Mirrored(v)
    PROVE  /\ Forget(v, n) \in View
           /\ Mirrored(Forget(v, n))
           /\ \A s \in Subjects, m \in NodeIds :
                 m \in Forget(v, n).by_key[s] <=> m \in v.by_key[s] /\ m # n
  <1> DEFINE e == Forget(v, n)
  <1>1. /\ v.by_key \in [Subjects -> SUBSET NodeIds]
        /\ v.by_node \in [NodeIds -> SUBSET Subjects]
    BY DEF View
  <1>2. /\ e = [by_key |-> e.by_key, by_node |-> e.by_node]
        /\ e.by_key = [s \in Subjects |->
                          IF s \in v.by_node[n] THEN v.by_key[s] \ {n} ELSE v.by_key[s]]
        /\ e.by_node = [v.by_node EXCEPT ![n] = {}]
    BY DEF Forget
  <1> HIDE DEF e
  <1>3. e \in View
    BY <1>1, <1>2 DEF View
  <1>4. \A s \in Subjects, m \in NodeIds : m \in e.by_key[s] <=> m \in v.by_key[s] /\ m # n
    BY <1>1, <1>2 DEF Mirrored
  <1>5. Mirrored(e)
    BY <1>1, <1>2, <1>4 DEF Mirrored
  <1> QED
    BY <1>3, <1>4, <1>5 DEF e

\* Both views change by exchanges for one node, and what becomes a claim becomes
\* a hint, what stops being a hint stops being a claim.
LEMMA ExchangesKeep ==
    ASSUME VInv, NEW n \in NodeIds,
           NEW hout \in SUBSET Subjects, NEW hin \in SUBSET Subjects,
           NEW cout \in SUBSET Subjects, NEW cin \in SUBSET Subjects,
           replicas' = Exchange(replicas, n, hout, hin),
           available' = Exchange(available, n, cout, cin),
           cin \subseteq hin \cup replicas.by_node[n],
           hout \cap cin \subseteq hin,
           \A s \in hout : s \in hin \/ s \in cout \/ s \notin available.by_node[n]
    PROVE  ViewsTyped' /\ IndexesAgree' /\ ClaimsHaveHints'
  <1>1. replicas' \in View /\ available' \in View /\ Mirrored(replicas') /\ Mirrored(available')
    BY ExchangeFacts DEF VInv, ViewsTyped, IndexesAgree
  <1>2. ASSUME NEW s \in Subjects, NEW m \in NodeIds, m \in available'.by_key[s]
        PROVE  m \in replicas'.by_key[s]
    <2>1. (m = n /\ s \in cin) \/ (m \in available.by_key[s] /\ ~(m = n /\ s \in cout))
      BY <1>2, ExchangeFacts DEF VInv, ViewsTyped
    <2>2. m \in available.by_key[s] => m \in replicas.by_key[s] /\ s \in available.by_node[m]
      BY DEF VInv, ClaimsHaveHints, IndexesAgree, Mirrored
    <2>3. s \in replicas.by_node[m] => m \in replicas.by_key[s]
      BY DEF VInv, IndexesAgree, Mirrored
    <2>4. (m = n /\ s \in hin) \/ (m \in replicas.by_key[s] /\ ~(m = n /\ s \in hout))
      BY <2>1, <2>2, <2>3
    <2> QED
      BY <2>4, ExchangeFacts DEF VInv, ViewsTyped
  <1>3. ClaimsHaveHints'
    BY <1>1, <1>2 DEF ClaimsHaveHints, View
  <1> QED
    BY <1>1, <1>3 DEF ViewsTyped, IndexesAgree

\* reconcile_node_subjects, for a peer's answer or for the local scan
LEMMA ReconcileKeeps ==
    ASSUME VInv, NEW n \in NodeIds, NEW subjects \in SUBSET Subjects,
           replicas' = ReconcileHints(replicas, n, subjects),
           available' = ReplaceView(available, n, subjects)
    PROVE  ViewsTyped' /\ IndexesAgree' /\ ClaimsHaveHints'
  <1> DEFINE had   == available.by_node[n]
             bases == {BaseKey(s) : s \in subjects}
             stale == {s \in replicas.by_node[n] :
                          s \notin subjects /\ ~(IsVersioned(s) /\ BaseKey(s) \in bases)}
  <1>1. replicas.by_node[n] \in SUBSET Subjects /\ had \in SUBSET Subjects
    BY DEF VInv, ViewsTyped, View
  <1>2. /\ replicas' = Exchange(replicas, n, stale, subjects)
        /\ available' = Exchange(available, n, had \ subjects, subjects \ had)
    BY DEF ReconcileHints, ReplaceView
  <1>3. stale \in SUBSET Subjects /\ stale \cap subjects = {}
    BY <1>1
  <1> HIDE DEF stale
  <1> QED
    BY <1>1, <1>2, <1>3, ExchangesKeep

\* note_replicas keeps the two indexes each other's mirror and every claim hinted.
LEMMA NoteKeeps ==
    ASSUME VInv, NEW n \in NodeIds, NEW subjects \in SUBSET Subjects, NoteReplicas(subjects, n)
    PROVE  ViewsTyped' /\ IndexesAgree' /\ ClaimsHaveHints'
  BY ExchangesKeep DEF NoteReplicas

\* remove_replicas does so as well.
LEMMA RemoveKeeps ==
    ASSUME VInv, NEW n \in NodeIds, NEW subjects \in SUBSET Subjects, RemoveReplicas(subjects, n)
    PROVE  ViewsTyped' /\ IndexesAgree' /\ ClaimsHaveHints'
  BY ExchangesKeep DEF RemoveReplicas

\* Steps that leave both views alone.
LEMMA SameViewsKeep ==
    ASSUME VInv, UNCHANGED <<replicas, available>>, WorkersTyped'
    PROVE  VInv'
  BY DEF VInv, ViewsTyped, IndexesAgree, Mirrored, ClaimsHaveHints

-------------------------------------------------------------------------------

\* Registrations, heartbeats and removals of nodes keep the invariant.
LEMMA MembershipKeeps == ASSUME VInv, Membership PROVE VInv'
  <1>1. ASSUME NEW n \in NodeIds, RegisterNode(n) \/ Heartbeat(n) PROVE VInv'
    <2>1. UNCHANGED <<replicas, available>> /\ worker' = worker
      BY <1>1 DEF RegisterNode, Heartbeat
    <2> QED
      BY <2>1, SameViewsKeep DEF VInv, WorkersTyped
  <1>2. ASSUME NEW n \in NodeIds, RemoveNode(n) PROVE VInv'
    <2>1. replicas' = Forget(replicas, n) /\ available' = Forget(available, n) /\ worker' = worker
      BY <1>2 DEF RemoveNode
    <2>2. /\ ViewsTyped' /\ IndexesAgree'
          /\ \A s \in Subjects, m \in NodeIds :
                /\ m \in replicas'.by_key[s] <=> m \in replicas.by_key[s] /\ m # n
                /\ m \in available'.by_key[s] <=> m \in available.by_key[s] /\ m # n
      BY <2>1, ForgetFacts DEF VInv, ViewsTyped, IndexesAgree
    <2>3. ClaimsHaveHints'
      BY <2>2 DEF ClaimsHaveHints, VInv, ViewsTyped, View
    <2> QED
      BY <2>1, <2>2, <2>3 DEF VInv, WorkersTyped
  <1> QED
    BY <1>1, <1>2 DEF Membership

\* So does what the node stores, loses and lists of its own content.
LEMMA LocalContentKeeps == ASSUME VInv, LocalContent PROVE VInv'
  <1>1. worker' = worker
    BY DEF LocalContent, StoreLocally, LoseLocally, RefreshLocal
  <1>2. ASSUME NEW v \in Subjects, StoreLocally(v) PROVE ViewsTyped' /\ IndexesAgree' /\ ClaimsHaveHints'
    BY <1>2, NoteKeeps, LocalAssumption DEF StoreLocally
  <1>3. ASSUME NEW subjects \in SUBSET Subjects, LoseLocally(subjects)
        PROVE  ViewsTyped' /\ IndexesAgree' /\ ClaimsHaveHints'
    BY <1>3, RemoveKeeps, LocalAssumption DEF LoseLocally
  <1>4. ASSUME NEW subjects \in SUBSET Subjects, RefreshLocal(subjects)
        PROVE  ViewsTyped' /\ IndexesAgree' /\ ClaimsHaveHints'
    BY <1>4, ReconcileKeeps, LocalAssumption DEF RefreshLocal
  <1> QED
    BY <1>1, <1>2, <1>3, <1>4 DEF LocalContent, VInv, WorkersTyped

\* The completions of the workers' requests.
LEMMA CompletionKeeps ==
    ASSUME VInv, NEW w \in Workers,
           \/ \E subjects \in SUBSET Subjects : ApplySync(w, subjects)
           \/ \E s \in Subjects : FinishPush(w, s)
           \/ \E n \in NodeIds : DropExtra(w, n)
    PROVE  VInv'
  <1>0. worker \in [Workers -> Work] /\ worker[w] \in Work /\ Idle \in Work
    BY DEF VInv, WorkersTyped, Work
  <1>1. ASSUME NEW subjects \in SUBSET Subjects, ApplySync(w, subjects) PROVE VInv'
    <2>1. worker[w].peer \in NodeIds
      BY <1>0, <1>1 DEF ApplySync, Work, Idle
    <2>2. WorkersTyped'
      BY <1>0, <1>1 DEF ApplySync, Finish, WorkersTyped
    <2> QED
      BY <1>1, <2>1, <2>2, ReconcileKeeps DEF ApplySync, VInv
  <1>2. ASSUME NEW s \in Subjects, FinishPush(w, s) PROVE VInv'
    <2>1. worker[w].peer \in NodeIds /\ worker[w].subject \in Subjects
      BY <1>0, <1>2 DEF FinishPush, Work, Idle
    <2>2. WorkersTyped'
      BY <1>0, <1>2 DEF FinishPush, Finish, WorkersTyped
    <2>3. NoteReplicas({worker[w].subject, s}, worker[w].peer)
      BY <1>2 DEF FinishPush
    <2> QED
      BY <2>1, <2>2, <2>3, NoteKeeps DEF VInv
  <1>3. ASSUME NEW n \in NodeIds, DropExtra(w, n) PROVE VInv'
    <2>1. worker[w] \in [op : {"cleanup"}, subject : Subjects, targets : SUBSET NodeIds]
      BY <1>0, <1>3 DEF DropExtra, Work, Idle
    <2>2. [worker[w] EXCEPT !.targets = worker[w].targets \ {n}] \in Work
      BY <2>1 DEF Work
    <2>3. WorkersTyped'
      BY <1>0, <1>3, <2>2 DEF DropExtra, WorkersTyped
    <2>4. RemoveReplicas({worker[w].subject}, n)
      BY <1>3 DEF DropExtra
    <2> QED
      BY <2>1, <2>3, <2>4, RemoveKeeps DEF VInv
  <1> QED
    BY <1>1, <1>2, <1>3

\* Requests that start, and requests that fail.
LEMMA RequestKeeps ==
    ASSUME VInv, NEW w \in Workers,
           \/ \E n \in NodeIds : StartSync(w, n)
           \/ \E s \in Subjects : StartCleanup(w, s)
           \/ \E s \in Subjects, n \in NodeIds : StartPush(w, s, n)
           \/ GiveUp(w)
    PROVE  VInv'
  <1>1. UNCHANGED <<replicas, available>>
    BY DEF StartSync, StartCleanup, StartPush, GiveUp
  <1>2. PICK work \in Work : worker' = [worker EXCEPT ![w] = work]
    <2>1. ASSUME NEW n \in NodeIds, StartSync(w, n)
          PROVE  \E work \in Work : worker' = [worker EXCEPT ![w] = work]
      BY <2>1 DEF StartSync, Start, Work
    <2>2. ASSUME NEW s \in Subjects, StartCleanup(w, s)
          PROVE  \E work \in Work : worker' = [worker EXCEPT ![w] = work]
      <3>1. s \in Subjects /\ nodes' = Health(nodes)
        BY <2>2 DEF StartCleanup
      <3>2. PICK targets \in SUBSET (available.by_key[s]) :
              Start(w, [op |-> "cleanup", subject |-> s, targets |-> targets])
        BY <2>2 DEF StartCleanup, ExtraNodeChoices, RawExtraNodes
      <3>3. targets \in SUBSET NodeIds
        BY DEF VInv, ViewsTyped, View
      <3>4. [op |-> "cleanup", subject |-> s, targets |-> targets] \in Work
        BY <3>1, <3>3 DEF Work
      <3> QED
        BY <3>2, <3>4 DEF Start
    <2>3. ASSUME NEW s \in Subjects, NEW n \in NodeIds, StartPush(w, s, n)
          PROVE  \E work \in Work : worker' = [worker EXCEPT ![w] = work]
      BY <2>3 DEF StartPush, Start, Work
    <2>4. CASE GiveUp(w)
      BY <2>4 DEF GiveUp, Finish, Work
    <2> QED
      BY <2>1, <2>2, <2>3, <2>4
  <1>3. WorkersTyped'
    BY <1>2 DEF VInv, WorkersTyped
  <1> QED
    BY <1>1, <1>3, SameViewsKeep

\* The invariant of the view is inductive.
LEMMA ViewStepKeeps == VInv /\ [Next]_vars => VInv'
  <1> SUFFICES ASSUME VInv, [Next]_vars PROVE VInv'
    OBVIOUS
  <1>1. CASE CheckHealth \/ Tick \/ UNCHANGED vars
    <2>1. UNCHANGED <<replicas, available>> /\ worker' = worker
      BY <1>1 DEF CheckHealth, Tick, vars
    <2> QED
      BY <2>1, SameViewsKeep DEF VInv, WorkersTyped
  <1>2. CASE Peers
    BY <1>2, CompletionKeeps, RequestKeeps DEF Peers
  <1> QED
    BY <1>1, <1>2, MembershipKeeps, LocalContentKeeps DEF Next

\* An empty view has mirrored indexes and claims nothing.
LEMMA EmptyViews == EmptyView \in View /\ Mirrored(EmptyView) /\ \A s \in Subjects : EmptyView.by_key[s] = {}
  BY DEF EmptyView, View, Mirrored

\* A fresh cluster service satisfies the invariant.
LEMMA InitViews == Init => VInv
  <1> SUFFICES ASSUME Init PROVE VInv
    OBVIOUS
  <1>1. ViewsTyped /\ IndexesAgree /\ ClaimsHaveHints
    BY EmptyViews DEF Init, ViewsTyped, IndexesAgree, ClaimsHaveHints
  <1>2. WorkersTyped
    BY DEF Init, WorkersTyped, Work
  <1> QED
    BY <1>1, <1>2 DEF VInv

\* The maps from subjects to nodes and from nodes to subjects stay one relation.
THEOREM MapsAgree == Spec => []IndexesAgree
  <1>1. VInv => IndexesAgree
    BY DEF VInv
  <1> QED
    BY <1>1, InitViews, ViewStepKeeps, PTL DEF Spec

\* Every node that counts as a replica of a subject is also a source for it.
THEOREM ClaimsAreSources == Spec => []ClaimsHaveHints
  <1>1. VInv => ClaimsHaveHints
    BY DEF VInv
  <1> QED
    BY <1>1, InitViews, ViewStepKeeps, PTL DEF Spec

-------------------------------------------------------------------------------

\* Why a step may lose the hint that node n holds version s.
LossIsExplained(s, n) ==
    \/ n \notin DOMAIN nodes'
    \/ n = Local /\ \E gone \in SUBSET Subjects : s \in gone /\ LoseLocally(gone)
    \/ \E w \in Workers : DropExtra(w, n) /\ worker[w].subject = s
    \/ \A x \in available'.by_node[n] : BaseKey(x) # BaseKey(s)

\* A reconciliation loses a version only with every subject of its key.
LEMMA ReconcileExplains ==
    ASSUME VInv, NEW m \in NodeIds, NEW subjects \in SUBSET Subjects,
           replicas' = ReconcileHints(replicas, m, subjects),
           available' = ReplaceView(available, m, subjects),
           NEW s \in Subjects, NEW n \in NodeIds, IsVersioned(s),
           n \in replicas.by_key[s], n \notin replicas'.by_key[s]
    PROVE  \A x \in available'.by_node[n] : BaseKey(x) # BaseKey(s)
  <1> DEFINE had   == available.by_node[m]
             bases == {BaseKey(x) : x \in subjects}
             stale == {x \in replicas.by_node[m] :
                          x \notin subjects /\ ~(IsVersioned(x) /\ BaseKey(x) \in bases)}
  <1>1. /\ replicas.by_node[m] \in SUBSET Subjects /\ had \in SUBSET Subjects
        /\ available.by_node \in [NodeIds -> SUBSET Subjects]
    BY DEF VInv, ViewsTyped, View
  <1>2. /\ replicas' = Exchange(replicas, m, stale, subjects)
        /\ available' = Exchange(available, m, had \ subjects, subjects \ had)
    BY DEF ReconcileHints, ReplaceView
  <1>3. stale \in SUBSET Subjects
    BY <1>1
  <1>4. n = m /\ s \in stale
    <2> HIDE DEF stale
    <2> QED
      BY <1>2, <1>3, ExchangeFacts DEF VInv, ViewsTyped
  <1>5. available'.by_node[m] = subjects
    BY <1>1, <1>2 DEF Exchange
  <1> QED
    BY <1>4, <1>5

\* A hint at an old version survives everything but the removal of its node, an
\* explicit drop of that version, and an advertisement without its key.
THEOREM HintsAreKept == Spec => HistoryIsKept
  <1>1. ASSUME VInv, [Next]_vars, NEW s \in Subjects, NEW n \in NodeIds, IsVersioned(s),
               n \in replicas.by_key[s], n \notin replicas'.by_key[s]
        PROVE  LossIsExplained(s, n)
    <2> USE <1>1
    <2>1. replicas' # replicas
      OBVIOUS
    <2>2. ASSUME NEW m \in NodeIds, Membership, RemoveNode(m) PROVE LossIsExplained(s, n)
      <3>1. n = m
        BY <2>2, ForgetFacts DEF RemoveNode, VInv, ViewsTyped, IndexesAgree
      <3>2. DOMAIN nodes' = DOMAIN nodes \ {m}
        BY <2>2 DEF RemoveNode
      <3> QED
        BY <3>1, <3>2 DEF LossIsExplained
    <2>3. ASSUME NEW v \in Subjects, StoreLocally(v) PROVE FALSE
      BY <2>3, ExchangeFacts, LocalAssumption DEF StoreLocally, NoteReplicas, VInv, ViewsTyped
    <2>4. ASSUME NEW subjects \in SUBSET Subjects, LoseLocally(subjects) PROVE LossIsExplained(s, n)
      <3>1. n = Local /\ s \in subjects
        BY <2>4, ExchangeFacts, LocalAssumption DEF LoseLocally, RemoveReplicas, VInv, ViewsTyped
      <3> QED
        BY <2>4, <3>1 DEF LossIsExplained
    <2>5. ASSUME NEW subjects \in SUBSET Subjects, RefreshLocal(subjects) PROVE LossIsExplained(s, n)
      BY <2>5, ReconcileExplains, LocalAssumption DEF RefreshLocal, LossIsExplained
    <2>6. ASSUME NEW w \in Workers, NEW subjects \in SUBSET Subjects, ApplySync(w, subjects)
          PROVE  LossIsExplained(s, n)
      <3>1. worker[w].peer \in NodeIds
        BY <2>6 DEF ApplySync, VInv, WorkersTyped, Work, Idle
      <3> QED
        BY <2>6, <3>1, ReconcileExplains DEF ApplySync, LossIsExplained
    <2>7. ASSUME NEW w \in Workers, NEW v \in Subjects, FinishPush(w, v) PROVE FALSE
      <3>1. worker[w].peer \in NodeIds /\ worker[w].subject \in Subjects
        BY <2>7 DEF FinishPush, VInv, WorkersTyped, Work, Idle
      <3>2. NoteReplicas({worker[w].subject, v}, worker[w].peer)
        BY <2>7 DEF FinishPush
      <3> QED
        BY <3>1, <3>2, ExchangeFacts DEF NoteReplicas, VInv, ViewsTyped
    <2>8. ASSUME NEW w \in Workers, NEW m \in NodeIds, DropExtra(w, m) PROVE LossIsExplained(s, n)
      <3>1. worker[w].subject \in Subjects
        BY <2>8 DEF DropExtra, VInv, WorkersTyped, Work, Idle
      <3>2. n = m /\ s = worker[w].subject
        BY <2>8, <3>1, ExchangeFacts DEF DropExtra, RemoveReplicas, VInv, ViewsTyped
      <3> QED
        BY <2>8, <3>2 DEF LossIsExplained
    <2>9. CASE Membership
      BY <2>1, <2>2, <2>9 DEF Membership, RegisterNode, Heartbeat
    <2>10. CASE LocalContent
      BY <2>3, <2>4, <2>5, <2>10 DEF LocalContent
    <2>11. CASE Peers
      BY <2>1, <2>6, <2>7, <2>8, <2>11 DEF Peers, StartSync, StartCleanup, StartPush, GiveUp
    <2> QED
      BY <2>1, <2>9, <2>10, <2>11 DEF Next, CheckHealth, Tick, vars
  <1>2. VInv /\ [Next]_vars =>
            [\A s \in Subjects, n \in NodeIds :
                IsVersioned(s) /\ n \in replicas.by_key[s] /\ n \notin replicas'.by_key[s]
                => LossIsExplained(s, n)]_vars
    BY <1>1
  <1> QED
    BY <1>2, InitViews, ViewStepKeeps, PTL DEF Spec, HistoryIsKept, LossIsExplained

-------------------------------------------------------------------------------
(***************************************************************************)
(* The stored view                                                         *)
(***************************************************************************)

Backed(hints, claimed) ==
    /\ hints \in Rows /\ claimed \in Rows
    /\ \A s \in Subjects : claimed[s] \subseteq hints[s]

StoreIsWhole ==
    /\ disk = [nodes |-> disk.nodes, replicas |-> disk.replicas, available |-> disk.available]
    /\ Backed(disk.replicas, disk.available)

\* The export a task has yet to write.
WholeExport(job) ==
    job.stage = "write" =>
        /\ job = [stage |-> "write", parts |-> job.parts, removed |-> job.removed,
                  nodes |-> job.nodes, replicas |-> job.replicas, available |-> job.available]
        /\ Backed(job.replicas, job.available)

ExportsAreWhole ==
    /\ task = [t \in Tasks |-> task[t]]
    /\ \A t \in Tasks : WholeExport(task[t])

PInv == VInv /\ StoreIsWhole /\ ExportsAreWhole

-------------------------------------------------------------------------------

\* The view under the lock is fit to be exported.
LEMMA ViewsAreBacked == VInv => Backed(replicas.by_key, available.by_key)
  BY DEF VInv, ViewsTyped, View, Rows, Backed, ClaimsHaveHints

\* A handler that has exported nothing has nothing torn.
LEMMA NoTaskIsWhole == WholeExport(NoTask)
  BY DEF WholeExport, NoTask

\* A step of the view that persists nothing, or has a task spawned.
LEMMA ViewStepPersists ==
    ASSUME PInv, VInv', disk' = disk,
           \/ task' = task
           \/ \E t \in Tasks : \E parts, removed : Spawn(t, parts, removed)
    PROVE  PInv'
  <1>1. StoreIsWhole'
    BY DEF PInv, StoreIsWhole
  <1>2. CASE task' = task
    BY <1>1, <1>2 DEF PInv, ExportsAreWhole
  <1>3. ASSUME NEW t \in Tasks, NEW parts, NEW removed, Spawn(t, parts, removed)
        PROVE  ExportsAreWhole'
    <2>1. task' = [task EXCEPT ![t] = [stage |-> "export", parts |-> parts, removed |-> removed]]
      BY <1>3 DEF Spawn
    <2>2. WholeExport([stage |-> "export", parts |-> parts, removed |-> removed])
      BY DEF WholeExport
    <2> QED
      BY <2>1, <2>2 DEF PInv, ExportsAreWhole
  <1> QED
    BY <1>1, <1>2, <1>3 DEF PInv

\* The handlers and workers, which take one step of the view each.
LEMMA HandlersKeep ==
    ASSUME PInv,
           \/ Unpersisted
           \/ \E t \in Tasks :
                 \/ \E n \in NodeIds : JoinAndPersist(t, n) \/ RemoveAndPersist(t, n)
                 \/ ChangeViewsAndPersist(t)
    PROVE  PInv'
  <1>0. VInv
    BY DEF PInv
  <1>1. CASE Unpersisted
    <2>1. disk' = disk /\ task' = task
      BY <1>1 DEF Unpersisted, Quiet, persistVars
    <2>2. Next
      BY <1>1 DEF Unpersisted, Next, Membership, Peers
    <2> QED
      BY <1>0, <2>1, <2>2, ViewStepKeeps, ViewStepPersists
  <1>2. ASSUME NEW t \in Tasks, NEW n \in NodeIds, JoinAndPersist(t, n) \/ RemoveAndPersist(t, n)
        PROVE  PInv'
    <2>1. Next
      BY <1>2 DEF JoinAndPersist, RemoveAndPersist, Next, Membership
    <2>2. disk' = disk /\ (task' = task \/ \E parts, removed : Spawn(t, parts, removed))
      BY <1>2 DEF JoinAndPersist, RemoveAndPersist, Spawn
    <2> QED
      BY <1>0, <2>1, <2>2, ViewStepKeeps, ViewStepPersists
  <1>3. ASSUME NEW t \in Tasks, ChangeViewsAndPersist(t) PROVE PInv'
    <2>1. Next
      BY <1>3 DEF ChangeViewsAndPersist, ViewsChanged, Next, Peers
    <2>2. disk' = disk /\ (task' = task \/ \E parts, removed : Spawn(t, parts, removed))
      BY <1>3 DEF ChangeViewsAndPersist, Spawn, Quiet, persistVars
    <2> QED
      BY <1>0, <2>1, <2>2, ViewStepKeeps, ViewStepPersists
  <1> QED
    BY <1>1, <1>2, <1>3

\* Export, write and failure of a write.
LEMMA StagesKeep ==
    ASSUME PInv, NEW t \in Tasks, Export(t) \/ Write(t) \/ FailWrite(t)
    PROVE  PInv'
  <1>0. VInv' /\ WholeExport(task[t]) /\ task = [u \in Tasks |-> task[u]]
    <2>1. VInv /\ UNCHANGED vars
      BY DEF PInv, Export, Write, FailWrite
    <2> QED
      BY <2>1, ViewStepKeeps DEF PInv, ExportsAreWhole
  <1>1. CASE Export(t)
    <2> DEFINE job == [stage |-> "write", parts |-> task[t].parts, removed |-> task[t].removed,
                       nodes |-> DOMAIN nodes, replicas |-> replicas.by_key,
                       available |-> available.by_key]
    <2>1. task' = [task EXCEPT ![t] = job] /\ disk' = disk
      BY <1>1 DEF Export
    <2>2. WholeExport(job)
      BY ViewsAreBacked DEF PInv, WholeExport
    <2> HIDE DEF job
    <2> QED
      BY <1>0, <2>1, <2>2 DEF PInv, ExportsAreWhole, StoreIsWhole
  <1>2. CASE FailWrite(t)
    <2>1. task' = [task EXCEPT ![t] = NoTask] /\ disk' = disk
      BY <1>2 DEF FailWrite
    <2> QED
      BY <1>0, <2>1, NoTaskIsWhole DEF PInv, ExportsAreWhole, StoreIsWhole
  <1>3. CASE Write(t)
    <2>1. task[t].stage = "write" /\ disk' = Written(disk, task[t])
      BY <1>3 DEF Write
    <2>2. StoreIsWhole'
      BY <1>0, <2>1 DEF PInv, StoreIsWhole, Written, WholeExport
    <2>3. PICK job : task' = [task EXCEPT ![t] = job] /\ (job = NoTask \/ job = [task[t] EXCEPT !.parts = Tail(task[t].parts)])
      BY <1>3 DEF Write
    <2>4. WholeExport(job)
      BY <1>0, <2>1, <2>3, NoTaskIsWhole DEF WholeExport
    <2> QED
      BY <1>0, <2>2, <2>3, <2>4 DEF PInv, ExportsAreWhole
  <1> QED
    BY <1>1, <1>2, <1>3

\* What a restart loads is backed, a table that cannot be read included.
LEMMA LoadedIsBacked ==
    ASSUME StoreIsWhole, NEW nodes_ok \in BOOLEAN, NEW views_ok \in BOOLEAN
    PROVE  /\ Loaded(nodes_ok, views_ok).nodes \in {disk.nodes, {}}
           /\ Backed(Loaded(nodes_ok, views_ok).replicas, Loaded(nodes_ok, views_ok).available)
           /\ views_ok => Loaded(nodes_ok, views_ok).replicas = disk.replicas
  <1>1. Backed(EmptyView.by_key, EmptyView.by_key)
    BY EmptyViews DEF Backed, Rows, View
  <1> QED
    BY <1>1 DEF StoreIsWhole, Loaded

\* What a restart imports is whole.
LEMMA RestartKeeps ==
    ASSUME PInv, NEW nodes_ok \in BOOLEAN, NEW views_ok \in BOOLEAN, Restart(nodes_ok, views_ok)
    PROVE  PInv'
  <1> DEFINE rows == Loaded(nodes_ok, views_ok)
             known == KnownAtStart(rows)
  <1>1. Backed(rows.replicas, rows.available)
    BY LoadedIsBacked DEF PInv
  <1>2. ASSUME NEW r \in Rows
        PROVE  /\ Imported(r, known) \in View
               /\ Mirrored(Imported(r, known))
               /\ \A s \in Subjects : Imported(r, known).by_key[s] = r[s] \cap known
    BY DEF Imported, View, Mirrored, Rows
  <1>3. replicas' = Imported(rows.replicas, known) /\ available' = Imported(rows.available, known)
    BY DEF Restart
  <1>6. WorkersTyped'
    BY DEF Restart, WorkersTyped, Work
  <1>7. StoreIsWhole' /\ ExportsAreWhole'
    BY NoTaskIsWhole DEF Restart, PInv, StoreIsWhole, ExportsAreWhole
  <1> HIDE DEF known, rows
  <1>4. ViewsTyped' /\ IndexesAgree'
    BY <1>1, <1>2, <1>3 DEF Backed, ViewsTyped, IndexesAgree
  <1>5. ClaimsHaveHints'
    BY <1>1, <1>2, <1>3 DEF Backed, ClaimsHaveHints
  <1> QED
    BY <1>4, <1>5, <1>6, <1>7 DEF PInv, VInv

\* The invariant of view, tasks and disk is inductive.
LEMMA PersistStepKeeps == PInv /\ [PersistNext]_allVars => PInv'
  <1> SUFFICES ASSUME PInv, [PersistNext]_allVars PROVE PInv'
    OBVIOUS
  <1>1. CASE UNCHANGED allVars
    <2>1. VInv' /\ disk' = disk /\ task' = task
      BY <1>1, ViewStepKeeps DEF PInv, allVars, persistVars
    <2> QED
      BY <2>1, ViewStepPersists
  <1> QED
    BY <1>1, HandlersKeep, StagesKeep, RestartKeeps DEF PersistNext

\* A node that starts with empty files satisfies it.
LEMMA PersistInitHolds == PersistInit => PInv
  <1> SUFFICES ASSUME PersistInit PROVE PInv
    OBVIOUS
  <1>1. VInv
    BY InitViews DEF PersistInit
  <1>2. StoreIsWhole
    BY EmptyViews DEF PersistInit, StoreIsWhole, Backed, Rows, View
  <1>3. ExportsAreWhole
    BY NoTaskIsWhole DEF PersistInit, ExportsAreWhole
  <1> QED
    BY <1>1, <1>2, <1>3 DEF PInv

\* Restarts, failed writes and writes out of order never leave a store or a view
\* with a claim that has no hint, or a view whose maps disagree.
THEOREM RestartIsSafe == PersistSpec => []RestoredViewsAreWhole
  <1>1. PInv => RestoredViewsAreWhole
    BY DEF PInv, VInv, StoreIsWhole, Backed, RestoredViewsAreWhole
  <1> QED
    BY <1>1, PersistInitHolds, PersistStepKeeps, PTL DEF PersistSpec

\* backfill_cluster_nodes_from_replica_rows: the import drops the rows of unknown
\* nodes, but no loaded hint has one, since its node is registered first.  A stored
\* source is a source after a restart that can load the views, whatever the order of
\* earlier writes and whether or not the nodes can be loaded.
THEOREM RestartForgetsNoSource == PersistSpec => RestartKeepsHints
  <1> DEFINE Kept == \A s \in Subjects : disk.replicas[s] \subseteq replicas'.by_key[s]
  <1>1. ASSUME PInv, NEW nodes_ok \in BOOLEAN, Restart(nodes_ok, TRUE) PROVE Kept
    <2> DEFINE rows == Loaded(nodes_ok, TRUE)
    <2>1. rows.replicas = disk.replicas
      BY <1>1, LoadedIsBacked DEF PInv
    <2>2. \A s \in Subjects : replicas'.by_key[s] = rows.replicas[s] \cap KnownAtStart(rows)
      BY <1>1 DEF Restart, Imported
    <2>3. \A s \in Subjects : rows.replicas[s] \subseteq KnownAtStart(rows)
      BY DEF KnownAtStart
    <2> HIDE DEF rows
    <2> QED
      BY <2>1, <2>2, <2>3
  <1>2. PInv /\ [PersistNext]_allVars =>
            [\A nodes_ok \in BOOLEAN : Restart(nodes_ok, TRUE) => Kept]_allVars
    BY <1>1
  <1> QED
    BY <1>2, PersistInitHolds, PersistStepKeeps, PTL DEF PersistSpec, RestartKeepsHints

-------------------------------------------------------------------------------
(***************************************************************************)
(* Types: the nodes, the clock and the jobs, beside what PInv says of the  *)
(* views and the workers.                                                  *)
(***************************************************************************)

NodesTyped ==
    /\ Local \in DOMAIN nodes /\ DOMAIN nodes \subseteq NodeIds
    /\ \A n \in DOMAIN nodes : nodes[n] \in Descriptor
    /\ now \in 0..MaxTime

Parts == Seq({"nodes", "views"})

JobsTyped ==
    /\ disk \in [nodes : SUBSET NodeIds, replicas : Rows, available : Rows]
    /\ task \in [Tasks -> Job]
    /\ forgotten \subseteq NodeIds

\* update_health_and_detect_offline_transition neither adds nor forgets a node.
LEMMA HealthIsTyped ==
    ASSUME NodesTyped
    PROVE  DOMAIN Health(nodes) = DOMAIN nodes /\ \A n \in DOMAIN nodes : Health(nodes)[n] \in Descriptor
  <1>1. DOMAIN Health(nodes) = DOMAIN nodes
    BY DEF Health
  <1>2. ASSUME NEW n \in DOMAIN nodes PROVE Health(nodes)[n] \in Descriptor
    <2>1. nodes[n] \in Descriptor
      BY DEF NodesTyped
    <2>2. Health(nodes)[n] = nodes[n] \/ \E x \in {Online, Offline} : Health(nodes)[n] = [nodes[n] EXCEPT !.status = x]
      BY DEF Health
    <2> QED
      BY <2>1, <2>2 DEF Descriptor
  <1> QED
    BY <1>1, <1>2

\* A step of the view keeps the nodes and the clock typed, and this node known.
LEMMA NodesStayTyped == ASSUME NodesTyped, [Next]_vars PROVE NodesTyped'
  <1>0. /\ \A x \in {Online, Offline} : [status |-> x, last_heartbeat |-> now] \in Descriptor
        /\ now \in 0..MaxTime
    BY DEF NodesTyped, Descriptor
  <1>1. ASSUME NEW n \in NodeIds, RegisterNode(n) PROVE NodesTyped'
    BY <1>0, <1>1 DEF RegisterNode, NodesTyped
  <1>2. ASSUME NEW n \in NodeIds, RemoveNode(n) PROVE NodesTyped'
    BY <1>2 DEF RemoveNode, NodesTyped
  <1>3. ASSUME NEW n \in NodeIds, Heartbeat(n) PROVE NodesTyped'
    BY <1>0, <1>3 DEF Heartbeat, NodesTyped
  <1>4. ASSUME nodes' = Health(nodes), now' = now PROVE NodesTyped'
    BY <1>4, HealthIsTyped DEF NodesTyped
  <1>5. CASE Tick
    BY <1>5, ClockAssumption DEF Tick, NodesTyped
  <1>6. ASSUME UNCHANGED <<nodes, now>> PROVE NodesTyped'
    BY <1>6 DEF NodesTyped
  <1>7. CASE LocalContent
    BY <1>6, <1>7 DEF LocalContent, StoreLocally, LoseLocally, RefreshLocal
  <1>8. CASE Peers
    BY <1>4, <1>6, <1>8 DEF Peers, StartSync, DropExtra, ApplySync, StartCleanup, FinishPush, StartPush, GiveUp
  <1> QED
    BY <1>1, <1>2, <1>3, <1>4, <1>5, <1>6, <1>7, <1>8 DEF Next, Membership, CheckHealth, vars

\* A handler that is spawned has a job.
LEMMA SpawnIsTyped ==
    ASSUME JobsTyped, NEW t \in Tasks, NEW parts \in Parts, NEW removed \in SUBSET NodeIds,
           Spawn(t, parts, removed), forgotten' \subseteq forgotten
    PROVE  JobsTyped'
  <1>1. [stage |-> "export", parts |-> parts, removed |-> removed] \in Job
    BY DEF Job, Parts
  <1> QED
    BY <1>1 DEF Spawn, JobsTyped

\* What handlers export: the nodes, the views, or both in this order.
LEMMA SomeParts == <<"nodes">> \in Parts /\ <<"views">> \in Parts /\ <<"nodes", "views">> \in Parts
  BY DEF Parts

\* A job goes on to its next stage or part, or ends.
LEMMA JobsStayTyped ==
    ASSUME PInv, NodesTyped, JobsTyped, [PersistNext]_allVars
    PROVE  JobsTyped'
  <1>1. ASSUME UNCHANGED persistVars PROVE JobsTyped'
    BY <1>1 DEF persistVars, JobsTyped
  <1>2. ASSUME NEW t \in Tasks, NEW n \in NodeIds, JoinAndPersist(t, n) PROVE JobsTyped'
    <2>1. forgotten' \subseteq forgotten
      BY <1>2 DEF JoinAndPersist
    <2>2. CASE Spawn(t, <<"nodes">>, {})
      BY <2>1, <2>2, SpawnIsTyped, SomeParts
    <2>3. CASE UNCHANGED <<disk, task>>
      BY <2>1, <2>3 DEF JobsTyped
    <2> QED
      BY <1>2, <2>2, <2>3 DEF JoinAndPersist
  <1>3. ASSUME NEW t \in Tasks, NEW n \in NodeIds, RemoveAndPersist(t, n) PROVE JobsTyped'
    <2>1. Spawn(t, <<"nodes", "views">>, {n}) /\ forgotten' = forgotten
      BY <1>3 DEF RemoveAndPersist
    <2> QED
      BY <2>1, SpawnIsTyped, SomeParts
  <1>4. ASSUME NEW t \in Tasks, ChangeViewsAndPersist(t) PROVE JobsTyped'
    <2>1. Quiet \/ (Spawn(t, <<"views">>, {}) /\ forgotten' = forgotten)
      BY <1>4 DEF ChangeViewsAndPersist
    <2> QED
      BY <1>1, <2>1, SpawnIsTyped, SomeParts DEF Quiet
  <1>5. ASSUME NEW t \in Tasks, Export(t) PROVE JobsTyped'
    <2>1. task[t].parts \in Parts /\ task[t].removed \in SUBSET NodeIds
      BY <1>5 DEF Export, JobsTyped, Job, NoTask, Parts
    <2>2. replicas.by_key \in Rows /\ available.by_key \in Rows /\ DOMAIN nodes \in SUBSET NodeIds
      BY DEF PInv, VInv, ViewsTyped, View, Rows, NodesTyped
    <2>3. [stage |-> "write", parts |-> task[t].parts, removed |-> task[t].removed,
           nodes |-> DOMAIN nodes, replicas |-> replicas.by_key, available |-> available.by_key] \in Job
      BY <2>1, <2>2 DEF Job, Parts
    <2> QED
      BY <1>5, <2>3 DEF Export, JobsTyped
  <1>6. ASSUME NEW t \in Tasks, Write(t) PROVE JobsTyped'
    <2> DEFINE job == task[t]
    <2>1. job \in [stage : {"write"}, parts : Parts, removed : SUBSET NodeIds,
                   nodes : SUBSET NodeIds, replicas : Rows, available : Rows]
      BY <1>6 DEF Write, JobsTyped, Job, NoTask, Parts
    <2>2. disk' = Written(disk, job)
      BY <1>6 DEF Write
    <2>3. disk' \in [nodes : SUBSET NodeIds, replicas : Rows, available : Rows]
      BY <2>1, <2>2 DEF Written, JobsTyped
    <2>4. CASE Len(job.parts) > 1
      <3>1. Tail(job.parts) \in Parts
        BY <2>1, <2>4 DEF Parts
      <3>2. PICK rest : rest = [job EXCEPT !.parts = Tail(job.parts)]
        OBVIOUS
      <3>3. rest \in Job
        BY <2>1, <3>1, <3>2 DEF Job, Parts
      <3>4. task' = [task EXCEPT ![t] = rest] /\ forgotten' = forgotten
        BY <1>6, <2>4, <3>2 DEF Write, JobsTyped
      <3> QED
        BY <2>3, <3>3, <3>4 DEF JobsTyped
    <2>5. CASE ~(Len(job.parts) > 1)
      <3>1. task' = [task EXCEPT ![t] = NoTask] /\ forgotten' = forgotten \cup (job.removed \ DOMAIN nodes)
        BY <1>6, <2>5 DEF Write
      <3>2. NoTask \in Job
        BY DEF Job
      <3> QED
        BY <2>1, <2>3, <3>1, <3>2 DEF JobsTyped
    <2> QED
      BY <2>4, <2>5
  <1>7. ASSUME NEW t \in Tasks, FailWrite(t) PROVE JobsTyped'
    BY <1>7 DEF FailWrite, JobsTyped, Job
  <1>8. ASSUME NEW nodes_ok \in BOOLEAN, NEW views_ok \in BOOLEAN, Restart(nodes_ok, views_ok)
        PROVE  JobsTyped'
    BY <1>8 DEF Restart, JobsTyped, Job
  <1>9. CASE Unpersisted
    BY <1>1, <1>9 DEF Unpersisted, Quiet
  <1> QED
    BY <1>1, <1>2, <1>3, <1>4, <1>5, <1>6, <1>7, <1>8, <1>9 DEF PersistNext, allVars

\* The nodes that a restart knows are nodes of the cluster, this one among them.
LEMMA RestartIsTyped ==
    ASSUME PInv, NodesTyped, JobsTyped,
           NEW nodes_ok \in BOOLEAN, NEW views_ok \in BOOLEAN, Restart(nodes_ok, views_ok)
    PROVE  NodesTyped'
  <1> DEFINE rows == Loaded(nodes_ok, views_ok)
             known == KnownAtStart(rows)
  <1>1. known \subseteq NodeIds /\ Local \in known
    <2>1. rows.nodes \subseteq NodeIds /\ \A s \in Subjects : rows.replicas[s] \subseteq NodeIds
      BY LoadedIsBacked DEF PInv, JobsTyped, Backed, Rows
    <2> HIDE DEF rows
    <2>2. ASSUME NEW n \in known PROVE n \in NodeIds
      <3>1. n \in rows.nodes \/ n = Local \/ \E s \in Subjects : n \in rows.replicas[s]
        BY DEF KnownAtStart
      <3> QED
        BY <2>1, <3>1, LocalAssumption
    <2>3. Local \in known
      BY DEF KnownAtStart
    <2> QED
      BY <2>2, <2>3
  <1>2. /\ DOMAIN nodes' = known /\ now' = now
        /\ \A n \in known : nodes'[n] = [status |-> IF n = Local THEN Online ELSE Offline, last_heartbeat |-> now]
    BY DEF Restart
  <1> HIDE DEF known
  <1> QED
    BY <1>1, <1>2 DEF NodesTyped, Descriptor

\* The node's view and what is stored of it keep their types: in particular a node
\* never stops knowing itself, whatever is removed, written late or restored.
THEOREM PersistTypesHold == PersistSpec => []PersistTypeOK
  <1> DEFINE I == PInv /\ NodesTyped /\ JobsTyped
  <1>1. PersistInit => I
    <2> SUFFICES ASSUME PersistInit PROVE I
      OBVIOUS
    <2>1. NodesTyped
      BY LocalAssumption, ClockAssumption DEF PersistInit, Init, NodesTyped, Descriptor
    <2>2. EmptyView.by_key \in Rows
      BY DEF EmptyView, Rows
    <2>3. JobsTyped
      BY <2>2, LocalAssumption DEF PersistInit, JobsTyped, Job
    <2> QED
      BY <2>1, <2>3, PersistInitHolds
  <1>2. I /\ [PersistNext]_allVars => I'
    <2> SUFFICES ASSUME I, [PersistNext]_allVars PROVE I'
      OBVIOUS
    <2>1. PInv' /\ JobsTyped'
      BY PersistStepKeeps, JobsStayTyped
    <2>2. CASE \A nodes_ok, views_ok \in BOOLEAN : ~Restart(nodes_ok, views_ok)
      <3>1. [Next]_vars
        BY <2>2 DEF PersistNext, JoinAndPersist, RemoveAndPersist, ChangeViewsAndPersist, ViewsChanged,
                    Export, Write, FailWrite, Unpersisted, allVars, Next, Membership, Peers
      <3> QED
        BY <2>1, <3>1, NodesStayTyped
    <2> QED
      BY <2>1, <2>2, RestartIsTyped
  <1>3. I => PersistTypeOK
    BY DEF PInv, VInv, ViewsTyped, WorkersTyped, NodesTyped, JobsTyped, PersistTypeOK, TypeOK
  <1> QED
    BY <1>1, <1>2, <1>3, PTL DEF PersistSpec

-------------------------------------------------------------------------------
(***************************************************************************)
(* Placement.  The loops of select_nodes_by_rendezvous_matching are        *)
(* recursive functions; what they compute is shown of the first iteration  *)
(* that would be wrong, which the one before it contradicts.               *)
(***************************************************************************)

\* A set of natural numbers that is not empty has a least one.
LEMMA LeastExists ==
    ASSUME NEW T, T \subseteq Nat, T # {}
    PROVE  \E m \in T : \A j \in T : m <= j
  <1>1. PICK m \in T : \A j \in T : ~(<<j, m>> \in OpToRel(<, Nat))
    BY NatLessThanWellFounded, WFMin
  <1>2. \A j \in T : j < m => <<j, m>> \in OpToRel(<, Nat)
    BY DEF OpToRel
  <1>3. \A j \in T : ~(j < m)
    BY <1>1, <1>2
  <1> QED
    BY <1>3

\* f[i] is the value of a variable after i iterations of a loop with the body G.
IsRun(f, N, S, e, G) == f \in [0..N -> S] /\ f[0] = e /\ \A i \in 1..N : f[i] = G[i][f[i - 1]]
Bodies(N, S) == [1..N -> [S -> S]]

\* A loop of N iterations with the body G has a run.
LEMMA LoopRuns ==
    ASSUME NEW N \in Nat, NEW S, NEW e \in S, NEW G \in Bodies(N, S)
    PROVE  \E f : IsRun(f, N, S, e, G)
  <1> USE DEF IsRun, Bodies
  <1> DEFINE Run(n, f) == f[0] = e /\ \A i \in 1..n : f[i] = G[i][f[i - 1]]
             Bad == {n \in 0..N : ~\E f \in [0..n -> S] : Run(n, f)}
  <1>1. SUFFICES ASSUME Bad # {} PROVE FALSE
    <2>1. N \in 0..N
      OBVIOUS
    <2>2. ASSUME NEW f \in [0..N -> S], Run(N, f) PROVE IsRun(f, N, S, e, G)
      BY <2>2
    <2> HIDE DEF IsRun, Run
    <2>3. N \notin Bad => \E f \in [0..N -> S] : Run(N, f)
      BY <2>1
    <2> HIDE DEF Bad
    <2> QED
      BY <2>2, <2>3
  <1>2. PICK m \in Bad : \A j \in Bad : m <= j
    <2> HIDE DEF Bad
    <2>1. Bad \subseteq Nat
      BY DEF Bad
    <2> QED
      BY <1>1, <2>1, LeastExists
  <1>3. m # 0
    <2>1. [i \in 0..0 |-> e] \in [0..0 -> S] /\ Run(0, [i \in 0..0 |-> e])
      OBVIOUS
    <2> QED
      BY <2>1
  <1>4. m \in 1..N /\ m - 1 \in 0..N /\ m - 1 \notin Bad
    <2>1. m \in 0..N
      OBVIOUS
    <2> HIDE DEF Bad
    <2>2. m - 1 \in Bad => m <= m - 1
      BY <1>2
    <2> QED
      BY <1>3, <2>1, <2>2
  <1>5. PICK f \in [0..(m - 1) -> S] : Run(m - 1, f)
    BY <1>4
  <1> DEFINE g == [i \in 0..m |-> IF i = m THEN G[m][f[m - 1]] ELSE f[i]]
  <1>6. g \in [0..m -> S]
    BY <1>4
  <1>7. Run(m, g)
    <2>1. g[0] = e
      BY <1>3, <1>4, <1>5
    <2>2. ASSUME NEW i \in 1..m PROVE g[i] = G[i][g[i - 1]]
      <3>1. CASE i = m
        BY <1>4, <3>1
      <3>2. CASE i # m
        <4>1. i \in 1..(m - 1) /\ i - 1 \in 0..m /\ i \in 0..m /\ i - 1 # m
          BY <1>4, <3>2
        <4> QED
          BY <1>5, <3>2, <4>1
      <3> QED
        BY <3>1, <3>2
    <2> QED
      BY <2>1, <2>2
  <1> QED
    BY <1>2, <1>6, <1>7

\* The loop of Filtered.
FilterRun(f, T, q, S) ==
    /\ f \in [0..Len(q) -> Seq(T)]
    /\ f[0] = <<>> /\ Filtered(q, S) = f[Len(q)]
    /\ \A i \in 1..Len(q) : f[i] = IF q[i] \in S THEN Append(f[i - 1], q[i]) ELSE f[i - 1]

\* Filtered has a run.
LEMMA FilterRuns ==
    ASSUME NEW T, NEW q \in Seq(T), NEW S
    PROVE  \E f : FilterRun(f, T, q, S)
  <1> DEFINE N == Len(q)
             V == Seq(T)
             G == [i \in 1..N |-> [v \in V |-> IF q[i] \in S THEN Append(v, q[i]) ELSE v]]
             h[i \in 0..Len(q)] == IF i = 0 THEN <<>> ELSE IF q[i] \in S THEN Append(h[i - 1], q[i]) ELSE h[i - 1]
  <1>1. N \in Nat /\ G \in [1..N -> [V -> V]] /\ <<>> \in V
    <2>1. \A i \in 1..N : q[i] \in T
      OBVIOUS
    <2> QED
      BY <2>1
  <1>2. PICK f \in [0..N -> V] : f[0] = <<>> /\ \A i \in 1..N : f[i] = G[i][f[i - 1]]
    <2> DEFINE e == <<>>
    <2>1. e \in V
      BY <1>1
    <2>2. G \in Bodies(N, V)
      BY <1>1 DEF Bodies
    <2>3. PICK f : IsRun(f, N, V, e, G)
      <3> HIDE DEF G, N, V, e
      <3> QED
        BY <1>1, <2>1, <2>2, LoopRuns
    <2> HIDE DEF G, N, V
    <2> QED
      BY <2>3 DEF IsRun
  <1>3. \A i \in 1..N : i \in 0..N /\ i - 1 \in 0..N /\ i # 0
    BY <1>1
  <1>4. \A i \in 1..N : f[i] = IF q[i] \in S THEN Append(f[i - 1], q[i]) ELSE f[i - 1]
    <2> HIDE DEF N, V
    <2> QED
      BY <1>2, <1>3
  <1>5. f = [i \in 0..Len(q) |-> IF i = 0 THEN <<>> ELSE IF q[i] \in S THEN Append(f[i - 1], q[i]) ELSE f[i - 1]]
    <2>1. \A i \in 0..N : i = 0 \/ i \in 1..N
      BY <1>1
    <2> HIDE DEF V
    <2> QED
      BY <1>2, <1>4, <2>1
  <1>6. h = [i \in 0..Len(q) |-> IF i = 0 THEN <<>> ELSE IF q[i] \in S THEN Append(h[i - 1], q[i]) ELSE h[i - 1]]
    BY <1>5
  <1>7. Filtered(q, S) = h[Len(q)]
    BY DEF Filtered
  <1> HIDE DEF h
  <1>8. h[0] = <<>> /\ \A i \in 1..N : h[i] = IF q[i] \in S THEN Append(h[i - 1], q[i]) ELSE h[i - 1]
    <2>1. h[0] = <<>>
      BY <1>1, <1>6
    <2>2. ASSUME NEW i \in 1..N PROVE h[i] = IF q[i] \in S THEN Append(h[i - 1], q[i]) ELSE h[i - 1]
      BY <1>3, <1>6, <2>2
    <2> QED
      BY <2>1, <2>2
  <1> DEFINE Bad == {i \in 0..N : h[i] # f[i]}
  <1>9. ASSUME Bad # {} PROVE FALSE
    <2> HIDE DEF N, V, G
    <2>1. Bad \subseteq Nat
      BY <1>1
    <2>2. PICK m \in Bad : \A j \in Bad : m <= j
      <3> HIDE DEF Bad
      <3> QED
        BY <1>9, <2>1, LeastExists
    <2>3. m \in 1..N /\ m - 1 \in 0..N /\ ~(m <= m - 1)
      BY <1>1, <1>2, <1>8
    <2>4. h[m - 1] = f[m - 1]
      BY <2>2, <2>3
    <2> QED
      BY <1>4, <1>8, <2>3, <2>4
  <1>10. h[N] = f[N]
    <2>1. N \in 0..N
      BY <1>1
    <2> QED
      BY <1>9, <2>1
  <1> QED
    BY <1>2, <1>4, <1>7, <1>10 DEF FilterRun

\* The test of the first loop.
Takes(v, n) == Len(v) < ReplicationFactor /\ (HelpsConstraint(v, n) \/ Len(v) < Cardinality(LabelKeys))

\* The first loop of the selection.
FirstRun(f, q) ==
    /\ f \in [0..Len(q) -> Seq(NodeIds)]
    /\ f[0] = <<>> /\ FirstPass(q) = f[Len(q)]
    /\ \A i \in 1..Len(q) : f[i] = IF Takes(f[i - 1], q[i]) THEN Append(f[i - 1], q[i]) ELSE f[i - 1]

\* The first loop has a run.
LEMMA FirstPassRuns ==
    ASSUME NEW q \in Seq(NodeIds)
    PROVE  \E f : FirstRun(f, q)
  <1> DEFINE N == Len(q)
             V == Seq(NodeIds)
             G == [i \in 1..N |-> [v \in V |-> IF Takes(v, q[i]) THEN Append(v, q[i]) ELSE v]]
             h[i \in 0..Len(q)] == IF i = 0 THEN <<>> ELSE IF Takes(h[i - 1], q[i]) THEN Append(h[i - 1], q[i]) ELSE h[i - 1]
  <1>1. N \in Nat /\ G \in [1..N -> [V -> V]] /\ <<>> \in V
    <2>1. \A i \in 1..N : q[i] \in NodeIds
      OBVIOUS
    <2> QED
      BY <2>1
  <1>2. PICK f \in [0..N -> V] : f[0] = <<>> /\ \A i \in 1..N : f[i] = G[i][f[i - 1]]
    <2> DEFINE e == <<>>
    <2>1. e \in V
      BY <1>1
    <2>2. G \in Bodies(N, V)
      BY <1>1 DEF Bodies
    <2>3. PICK f : IsRun(f, N, V, e, G)
      <3> HIDE DEF G, N, V, e
      <3> QED
        BY <1>1, <2>1, <2>2, LoopRuns
    <2> HIDE DEF G, N, V
    <2> QED
      BY <2>3 DEF IsRun
  <1>3. \A i \in 1..N : i \in 0..N /\ i - 1 \in 0..N /\ i # 0
    BY <1>1
  <1>4. \A i \in 1..N : f[i] = IF Takes(f[i - 1], q[i]) THEN Append(f[i - 1], q[i]) ELSE f[i - 1]
    <2> HIDE DEF N, V
    <2> QED
      BY <1>2, <1>3
  <1>5. f = [i \in 0..Len(q) |-> IF i = 0 THEN <<>> ELSE IF Takes(f[i - 1], q[i]) THEN Append(f[i - 1], q[i]) ELSE f[i - 1]]
    <2>1. \A i \in 0..N : i = 0 \/ i \in 1..N
      BY <1>1
    <2> HIDE DEF V
    <2> QED
      BY <1>2, <1>4, <2>1
  <1>6. h = [i \in 0..Len(q) |-> IF i = 0 THEN <<>> ELSE IF Takes(h[i - 1], q[i]) THEN Append(h[i - 1], q[i]) ELSE h[i - 1]]
    BY <1>5
  <1>7. FirstPass(q) = h[Len(q)]
    BY DEF FirstPass, Takes
  <1> HIDE DEF h
  <1>8. h[0] = <<>> /\ \A i \in 1..N : h[i] = IF Takes(h[i - 1], q[i]) THEN Append(h[i - 1], q[i]) ELSE h[i - 1]
    <2>1. h[0] = <<>>
      BY <1>1, <1>6
    <2>2. ASSUME NEW i \in 1..N PROVE h[i] = IF Takes(h[i - 1], q[i]) THEN Append(h[i - 1], q[i]) ELSE h[i - 1]
      BY <1>3, <1>6, <2>2
    <2> QED
      BY <2>1, <2>2
  <1> DEFINE Bad == {i \in 0..N : h[i] # f[i]}
  <1>9. ASSUME Bad # {} PROVE FALSE
    <2> HIDE DEF N, V, G
    <2>1. Bad \subseteq Nat
      BY <1>1
    <2>2. PICK m \in Bad : \A j \in Bad : m <= j
      <3> HIDE DEF Bad
      <3> QED
        BY <1>9, <2>1, LeastExists
    <2>3. m \in 1..N /\ m - 1 \in 0..N /\ ~(m <= m - 1)
      BY <1>1, <1>2, <1>8
    <2>4. h[m - 1] = f[m - 1]
      BY <2>2, <2>3
    <2> QED
      BY <1>4, <1>8, <2>3, <2>4
  <1>10. h[N] = f[N]
    <2>1. N \in 0..N
      BY <1>1
    <2> QED
      BY <1>9, <2>1
  <1> QED
    BY <1>2, <1>4, <1>7, <1>10 DEF FirstRun

\* What holds before a loop and is kept by every iteration holds after each.
LEMMA LoopInduction ==
    ASSUME NEW N \in Nat, NEW Good, 0 \in Good, \A i \in 1..N : i - 1 \in Good => i \in Good
    PROVE  \A i \in 0..N : i \in Good
  <1> DEFINE Bad == {i \in 0..N : i \notin Good}
  <1>1. SUFFICES ASSUME Bad # {} PROVE FALSE
    OBVIOUS
  <1>2. PICK m \in Bad : \A j \in Bad : m <= j
    <2>1. Bad \subseteq Nat
      OBVIOUS
    <2> HIDE DEF Bad
    <2> QED
      BY <1>1, <2>1, LeastExists
  <1>3. m \in 1..N /\ m - 1 \in 0..N /\ ~(m <= m - 1)
    OBVIOUS
  <1> QED
    BY <1>2, <1>3

\* No entry of q is there twice.
Distinct(q) == \A i, j \in 1..Len(q) : q[i] = q[j] => i = j

\* The entries of r are entries of q and come in the same order.
InOrder(r, q) ==
    \A a, b \in 1..Len(r) : a < b => \E i, j \in 1..Len(q) : i < j /\ r[a] = q[i] /\ r[b] = q[j]

\* The elements of a longer sequence.
LEMMA AppendElements ==
    ASSUME NEW T, NEW q \in Seq(T), NEW x \in T
    PROVE  Elements(Append(q, x)) = Elements(q) \cup {x}
  <1>1. /\ DOMAIN Append(q, x) = 1..(Len(q) + 1) /\ DOMAIN q = 1..Len(q) /\ Len(q) \in Nat
        /\ Append(q, x)[Len(q) + 1] = x
        /\ \A i \in 1..Len(q) : Append(q, x)[i] = q[i]
    OBVIOUS
  <1>2. \A i \in 1..(Len(q) + 1) : i = Len(q) + 1 \/ i \in 1..Len(q)
    BY <1>1
  <1>3. Len(q) + 1 \in 1..(Len(q) + 1) /\ \A i \in 1..Len(q) : i \in 1..(Len(q) + 1)
    BY <1>1
  <1> QED
    BY <1>1, <1>2, <1>3 DEF Elements

\* A filter keeps what is in the set, and its order.
LEMMA FilteredIs ==
    ASSUME NEW T, NEW q \in Seq(T), NEW S
    PROVE  /\ Filtered(q, S) \in Seq(T)
           /\ Elements(Filtered(q, S)) = Elements(q) \cap S
           /\ InOrder(Filtered(q, S), q)
  <1>0. PICK f : FilterRun(f, T, q, S)
    BY FilterRuns
  <1>1. /\ f \in [0..Len(q) -> Seq(T)]
        /\ f[0] = <<>> /\ Filtered(q, S) = f[Len(q)]
        /\ \A i \in 1..Len(q) : f[i] = IF q[i] \in S THEN Append(f[i - 1], q[i]) ELSE f[i - 1]
    BY <1>0 DEF FilterRun
  <1> DEFINE Kept(i) == Elements(f[i]) = {q[j] : j \in 1..i} \cap S
             Ordered(i) == \A a, b \in 1..Len(f[i]) :
                               a < b => \E k, j \in 1..i : k < j /\ f[i][a] = q[k] /\ f[i][b] = q[j]
             Good == {i \in 0..Len(q) : Kept(i) /\ Ordered(i)}
  <1>2. Len(q) \in Nat /\ DOMAIN q = 1..Len(q)
    OBVIOUS
  <1>3. 0 \in Good
    BY <1>1, <1>2 DEF Elements
  <1>4. ASSUME NEW i \in 1..Len(q), i - 1 \in Good PROVE i \in Good
    <2>0. i \in 0..Len(q) /\ i - 1 \in 0..Len(q) /\ 1..i = 1..(i - 1) \cup {i}
      BY <1>2
    <2>1. q[i] \in T /\ f[i] \in Seq(T) /\ f[i - 1] \in Seq(T)
      <3>1. q[i] \in T
        OBVIOUS
      <3> QED
        BY <1>1, <2>0, <3>1
    <2>4. Kept(i - 1) /\ Ordered(i - 1)
      <3> HIDE DEF Kept, Ordered
      <3> QED
        BY <1>4
    <2>5. Kept(i) /\ Ordered(i) => i \in Good
      <3> HIDE DEF Kept, Ordered
      <3> QED
        BY <2>0
    <2>2. CASE q[i] \notin S
      <3>1. f[i] = f[i - 1]
        BY <1>1, <2>2
      <3>2. Kept(i)
        BY <2>0, <2>2, <2>4, <3>1
      <3>3. Ordered(i)
        <4>1. \A k \in 1..(i - 1) : k \in 1..i
          BY <2>0
        <4> QED
          BY <2>4, <3>1, <4>1
      <3> QED
        BY <2>5, <3>2, <3>3
    <2>3. CASE q[i] \in S
      <3>1. f[i] = Append(f[i - 1], q[i])
        BY <1>1, <2>3
      <3>2. Elements(f[i]) = Elements(f[i - 1]) \cup {q[i]}
        BY <2>1, <3>1, AppendElements
      <3>3. Kept(i)
        BY <2>0, <2>3, <2>4, <3>2
      <3>4. ASSUME NEW a \in 1..Len(f[i]), NEW b \in 1..Len(f[i]), a < b
            PROVE  \E k, j \in 1..i : k < j /\ f[i][a] = q[k] /\ f[i][b] = q[j]
        <4>1. a \in 1..Len(f[i - 1]) /\ f[i][a] = f[i - 1][a]
          BY <2>1, <3>1, <3>4
        <4>2. CASE b \in 1..Len(f[i - 1])
          <5>1. f[i][b] = f[i - 1][b]
            BY <2>1, <3>1, <4>2
          <5> QED
            <6>1. PICK k, j \in 1..(i - 1) : k < j /\ f[i - 1][a] = q[k] /\ f[i - 1][b] = q[j]
              BY <2>4, <3>4, <4>1, <4>2
            <6>2. k \in 1..i /\ j \in 1..i
              BY <2>0
            <6> QED
              BY <4>1, <5>1, <6>1, <6>2
        <4>3. CASE b \notin 1..Len(f[i - 1])
          <5>1. f[i][b] = q[i]
            BY <2>1, <3>1, <4>3
          <5>2. f[i - 1][a] \in Elements(f[i - 1])
            BY <2>1, <4>1 DEF Elements
          <5>3. PICK k \in 1..(i - 1) : f[i - 1][a] = q[k]
            BY <2>4, <5>2
          <5>4. k \in 1..i /\ i \in 1..i /\ k < i
            BY <1>2, <5>3
          <5> QED
            BY <4>1, <5>1, <5>3, <5>4
        <4> QED
          BY <4>2, <4>3
      <3> QED
        BY <2>5, <3>3, <3>4
    <2> QED
      BY <2>2, <2>3
  <1>5. Len(q) \in Good
    <2> HIDE DEF Good
    <2>1. \A i \in 0..Len(q) : i \in Good
      BY <1>2, <1>3, <1>4, LoopInduction
    <2> QED
      BY <1>2, <2>1
  <1>6. Kept(Len(q)) /\ Ordered(Len(q)) /\ Len(q) \in 0..Len(q)
    BY <1>2, <1>5
  <1>7. Elements(q) = {q[j] : j \in 1..Len(q)}
    BY <1>2 DEF Elements
  <1> QED
    BY <1>1, <1>6, <1>7 DEF InOrder

\* The elements of a sequence without duplicates are as many as its entries.
LEMMA DistinctLength ==
    ASSUME NEW q \in Seq(NodeIds), Distinct(q)
    PROVE  IsFiniteSet(Elements(q)) /\ Cardinality(Elements(q)) = Len(q)
  <1>1. Len(q) \in Nat /\ DOMAIN q = 1..Len(q) /\ q \in [1..Len(q) -> Elements(q)]
    BY DEF Elements
  <1>2. q \in Bijection(1..Len(q), Elements(q))
    <2>1. \A x \in Elements(q) : \E i \in 1..Len(q) : q[i] = x
      BY <1>1 DEF Elements
    <2>2. q \in Surjection(1..Len(q), Elements(q))
      BY <1>1, <2>1 DEF Surjection
    <2>3. q \in Injection(1..Len(q), Elements(q))
      <3>1. \A a, b \in 1..Len(q) : q[a] = q[b] => a = b
        BY DEF Distinct
      <3> QED
        BY <1>1, <3>1 DEF Injection, IsInjective
    <2> QED
      BY <2>2, <2>3 DEF Bijection
  <1>3. IsFiniteSet(1..Len(q)) /\ Cardinality(1..Len(q)) = Len(q)
    BY <1>1, FS_Interval
  <1> QED
    BY <1>2, <1>3, FS_Bijection DEF ExistsBijection

\* A filter makes no duplicates.
LEMMA FilteredDistinct ==
    ASSUME NEW T, NEW q \in Seq(T), Distinct(q), NEW r \in Seq(T), InOrder(r, q)
    PROVE  Distinct(r)
  <1> SUFFICES ASSUME NEW a \in 1..Len(r), NEW b \in 1..Len(r), r[a] = r[b], a # b PROVE FALSE
    BY DEF Distinct
  <1>1. a < b \/ b < a
    OBVIOUS
  <1> QED
    BY <1>1 DEF InOrder, Distinct

\* The first entries of a sequence.
LEMMA PrefixIs ==
    ASSUME NEW q \in Seq(NodeIds), Distinct(q), NEW n \in 0..Len(q)
    PROVE  /\ SubSeq(q, 1, n) \in Seq(NodeIds) /\ Len(SubSeq(q, 1, n)) = n
           /\ Distinct(SubSeq(q, 1, n))
           /\ Elements(SubSeq(q, 1, n)) = {q[i] : i \in 1..n}
           /\ Elements(SubSeq(q, 1, n)) \subseteq Elements(q)
  <1> DEFINE r == SubSeq(q, 1, n)
  <1>1. r \in Seq(NodeIds) /\ Len(r) = n /\ \A i \in 1..n : r[i] = q[i] /\ i \in 1..Len(q)
    OBVIOUS
  <1>2. DOMAIN r = 1..n /\ DOMAIN q = 1..Len(q)
    BY <1>1
  <1> HIDE DEF r
  <1>3. Distinct(r)
    BY <1>1 DEF Distinct
  <1>4. Elements(r) = {q[i] : i \in 1..n} /\ Elements(r) \subseteq Elements(q)
    BY <1>1, <1>2 DEF Elements
  <1> QED
    BY <1>1, <1>3, <1>4 DEF r

\* Two sequences, one after the other.
LEMMA JoinIs ==
    ASSUME NEW q \in Seq(NodeIds), NEW r \in Seq(NodeIds), Distinct(q), Distinct(r), Elements(q) \cap Elements(r) = {}
    PROVE  /\ q \o r \in Seq(NodeIds) /\ Len(q \o r) = Len(q) + Len(r)
           /\ Distinct(q \o r)
           /\ Elements(q \o r) = Elements(q) \cup Elements(r)
  <1> DEFINE s == q \o r
  <1>1. /\ s \in Seq(NodeIds) /\ Len(s) = Len(q) + Len(r) /\ Len(q) \in Nat /\ Len(r) \in Nat
        /\ \A i \in 1..Len(s) : s[i] = IF i <= Len(q) THEN q[i] ELSE r[i - Len(q)]
    OBVIOUS
  <1>2. DOMAIN s = 1..Len(s) /\ DOMAIN q = 1..Len(q) /\ DOMAIN r = 1..Len(r)
    BY <1>1
  <1> HIDE DEF s
  <1>3. \A i \in 1..Len(s) : \/ i \in 1..Len(q) /\ s[i] = q[i] /\ s[i] \in Elements(q)
                             \/ i - Len(q) \in 1..Len(r) /\ s[i] = r[i - Len(q)] /\ s[i] \in Elements(r)
    <2> SUFFICES ASSUME NEW i \in 1..Len(s)
                 PROVE  \/ i \in 1..Len(q) /\ s[i] = q[i] /\ s[i] \in Elements(q)
                        \/ i - Len(q) \in 1..Len(r) /\ s[i] = r[i - Len(q)] /\ s[i] \in Elements(r)
      OBVIOUS
    <2>1. CASE i <= Len(q)
      <3>1. i \in 1..Len(q) /\ s[i] = q[i]
        BY <1>1, <2>1
      <3> QED
        BY <1>2, <3>1 DEF Elements
    <2>2. CASE ~(i <= Len(q))
      <3>1. i - Len(q) \in 1..Len(r) /\ s[i] = r[i - Len(q)]
        BY <1>1, <2>2
      <3> QED
        BY <1>2, <3>1 DEF Elements
    <2> QED
      BY <2>1, <2>2
  <1>4. \A i \in 1..Len(q) : i \in 1..Len(s) /\ s[i] = q[i]
    BY <1>1
  <1>5. \A i \in 1..Len(r) : i + Len(q) \in 1..Len(s) /\ s[i + Len(q)] = r[i]
    <2> SUFFICES ASSUME NEW i \in 1..Len(r)
                 PROVE  i + Len(q) \in 1..Len(s) /\ s[i + Len(q)] = r[i]
      OBVIOUS
    <2>1. i + Len(q) \in 1..Len(s) /\ ~(i + Len(q) <= Len(q)) /\ (i + Len(q)) - Len(q) = i
      BY <1>1
    <2> QED
      BY <1>1, <2>1
  <1>6. Elements(s) = Elements(q) \cup Elements(r)
    <2>1. \A x \in Elements(s) : x \in Elements(q) \cup Elements(r)
      BY <1>2, <1>3 DEF Elements
    <2>2. \A x \in Elements(q) : x \in Elements(s)
      BY <1>2, <1>4 DEF Elements
    <2>3. \A x \in Elements(r) : x \in Elements(s)
      BY <1>2, <1>5 DEF Elements
    <2> QED
      BY <2>1, <2>2, <2>3
  <1>7. ASSUME NEW i \in 1..Len(s), NEW j \in 1..Len(s), s[i] = s[j] PROVE i = j
    <2>1. CASE i \in 1..Len(q) /\ s[i] \in Elements(q)
      <3>1. j \in 1..Len(q) /\ s[j] = q[j] /\ s[i] = q[i]
        BY <1>3, <1>4, <1>7, <2>1
      <3> QED
        BY <1>7, <2>1, <3>1 DEF Distinct
    <2>2. CASE i - Len(q) \in 1..Len(r) /\ s[i] \in Elements(r)
      <3>1. j - Len(q) \in 1..Len(r) /\ s[j] = r[j - Len(q)]
        BY <1>3, <1>7, <2>2
      <3>2. s[i] = r[i - Len(q)]
        BY <1>1, <2>2
      <3>3. i - Len(q) = j - Len(q)
        BY <1>7, <2>2, <3>1, <3>2 DEF Distinct
      <3> QED
        BY <1>1, <3>3
    <2> QED
      BY <1>3, <2>1, <2>2
  <1>8. Distinct(s)
    BY <1>7 DEF Distinct
  <1> QED
    BY <1>1, <1>6, <1>8 DEF s

\* The nodes by rank: each of them once.
LEMMA RankIs ==
    ASSUME NEW k \in Keys
    PROVE  Rank[k] \in Seq(NodeIds) /\ Distinct(Rank[k]) /\ Elements(Rank[k]) = NodeIds
  <1> DEFINE N == Cardinality(NodeIds)
             r == Rank[k]
  <1>1. N \in Nat /\ r \in [1..N -> NodeIds] /\ {r[i] : i \in 1..N} = NodeIds
    BY RankAssumption, PolicyAssumption, FS_CardinalityType
  <1>2. r \in Seq(NodeIds) /\ Len(r) = N
    BY <1>1
  <1>3. IsFiniteSet(1..N) /\ Cardinality(1..N) = N
    BY <1>1, FS_Interval
  <1>4. r \in Surjection(1..N, NodeIds)
    BY <1>1 DEF Surjection
  <1>5. r \in Injection(1..N, NodeIds)
    <2> HIDE DEF r
    <2> QED
      BY <1>3, <1>4, PolicyAssumption, FS_SurjSameCardinalityImpliesInj
  <1>6. Distinct(r)
    BY <1>1, <1>2, <1>5 DEF Injection, IsInjective, Distinct
  <1>7. Elements(r) = NodeIds
    BY <1>1 DEF Elements
  <1> QED
    BY <1>2, <1>6, <1>7

\* The eligible nodes by rank.
LEMMA RankedIs ==
    ASSUME NEW k \in Keys, NEW E \in SUBSET NodeIds
    PROVE  /\ Filtered(Rank[k], E) \in Seq(NodeIds) /\ Distinct(Filtered(Rank[k], E))
           /\ Elements(Filtered(Rank[k], E)) = E /\ InOrder(Filtered(Rank[k], E), Rank[k])
  <1>1. Rank[k] \in Seq(NodeIds) /\ Distinct(Rank[k]) /\ Elements(Rank[k]) = NodeIds
    BY RankIs
  <1>2. /\ Filtered(Rank[k], E) \in Seq(NodeIds) /\ Elements(Filtered(Rank[k], E)) = NodeIds \cap E
        /\ InOrder(Filtered(Rank[k], E), Rank[k])
    BY <1>1, FilteredIs
  <1> QED
    BY <1>1, <1>2, FilteredDistinct

\* The first pass takes each node once and no more of them than the factor.
LEMMA FirstPassIs ==
    ASSUME NEW q \in Seq(NodeIds), Distinct(q)
    PROVE  /\ FirstPass(q) \in Seq(NodeIds) /\ Distinct(FirstPass(q))
           /\ Elements(FirstPass(q)) \subseteq Elements(q) /\ Len(FirstPass(q)) <= ReplicationFactor
  <1>0. PICK f : FirstRun(f, q)
    BY FirstPassRuns
  <1>1. /\ f \in [0..Len(q) -> Seq(NodeIds)]
        /\ f[0] = <<>> /\ FirstPass(q) = f[Len(q)]
        /\ \A i \in 1..Len(q) : f[i] = IF Takes(f[i - 1], q[i]) THEN Append(f[i - 1], q[i]) ELSE f[i - 1]
    BY <1>0 DEF FirstRun
  <1> DEFINE Within(i) == Elements(f[i]) \subseteq {q[j] : j \in 1..i} /\ Len(f[i]) <= ReplicationFactor
             Good == {i \in 0..Len(q) : Within(i) /\ Distinct(f[i])}
  <1>2. Len(q) \in Nat /\ DOMAIN q = 1..Len(q) /\ ReplicationFactor \in Nat
    BY PolicyAssumption
  <1>3. 0 \in Good
    BY <1>1, <1>2 DEF Elements, Distinct
  <1>4. ASSUME NEW i \in 1..Len(q), i - 1 \in Good PROVE i \in Good
    <2>1. i \in 0..Len(q) /\ i - 1 \in 0..Len(q) /\ 1..i = 1..(i - 1) \cup {i} /\ i \notin 1..(i - 1)
      BY <1>2
    <2>2. q[i] \in NodeIds
      OBVIOUS
    <2>3. f[i] \in Seq(NodeIds) /\ f[i - 1] \in Seq(NodeIds)
      BY <1>1, <2>1
    <2>4. Within(i - 1) /\ Distinct(f[i - 1])
      <3> HIDE DEF Within
      <3> QED
        BY <1>4
    <2>5. CASE ~Takes(f[i - 1], q[i])
      <3>1. f[i] = f[i - 1]
        BY <1>1, <2>5
      <3>2. Within(i)
        BY <2>1, <2>4, <3>1
      <3> HIDE DEF Within
      <3> QED
        BY <2>1, <2>4, <3>1, <3>2
    <2>6. CASE Takes(f[i - 1], q[i])
      <3>1. f[i] = Append(f[i - 1], q[i]) /\ Len(f[i - 1]) < ReplicationFactor
        BY <1>1, <2>6 DEF Takes
      <3>2. Elements(f[i]) = Elements(f[i - 1]) \cup {q[i]}
        BY <2>2, <2>3, <3>1, AppendElements
      <3>3. Len(f[i]) = Len(f[i - 1]) + 1 /\ Len(f[i - 1]) \in Nat
        BY <2>2, <2>3, <3>1
      <3>4. Within(i)
        BY <1>2, <2>1, <2>4, <3>1, <3>2, <3>3
      <3>5. q[i] \notin Elements(f[i - 1])
        <4>1. \A j \in 1..(i - 1) : j \in 1..Len(q) /\ j # i
          BY <1>2, <2>1
        <4>2. \A j \in 1..(i - 1) : q[j] # q[i]
          BY <4>1 DEF Distinct
        <4> QED
          BY <2>4, <4>2
      <3>6. Distinct(f[i])
        <4>1. \A a \in 1..Len(f[i]) : \/ a = Len(f[i]) /\ f[i][a] = q[i]
                                      \/ a \in 1..Len(f[i - 1]) /\ f[i][a] = f[i - 1][a]
          BY <2>2, <2>3, <3>1, <3>3
        <4>2. \A a \in 1..Len(f[i - 1]) : f[i - 1][a] \in Elements(f[i - 1])
          BY <2>3 DEF Elements
        <4> QED
          BY <2>4, <3>5, <4>1, <4>2 DEF Distinct
      <3> HIDE DEF Within
      <3> QED
        BY <2>1, <3>4, <3>6
    <2> QED
      BY <2>5, <2>6
  <1>5. Len(q) \in Good
    <2> HIDE DEF Good
    <2>1. \A i \in 0..Len(q) : i \in Good
      BY <1>2, <1>3, <1>4, LoopInduction
    <2> QED
      BY <1>2, <2>1
  <1>6. Within(Len(q)) /\ Distinct(f[Len(q)]) /\ Len(q) \in 0..Len(q)
    <2> HIDE DEF Within
    <2> QED
      BY <1>2, <1>5
  <1>7. Elements(q) = {q[j] : j \in 1..Len(q)}
    BY <1>2 DEF Elements
  <1> QED
    BY <1>1, <1>6, <1>7

\* What the first pass over the eligible nodes q leaves, how many of these the second
\* one adds, and both together.
Rest(q) == Filtered(q, NodeIds \ Elements(FirstPass(q)))
Added(q) == Least(Len(Rest(q)), ReplicationFactor - Len(FirstPass(q)))
Passes(q) == SecondPass(FirstPass(q), q)

\* The two passes together.
LEMMA PassesAre ==
    ASSUME NEW q \in Seq(NodeIds), Distinct(q)
    PROVE  /\ Rest(q) \in Seq(NodeIds) /\ Distinct(Rest(q)) /\ InOrder(Rest(q), q)
           /\ Elements(Rest(q)) = Elements(q) \ Elements(FirstPass(q))
           /\ Added(q) \in 0..Len(Rest(q))
           /\ Added(q) = Len(Rest(q)) \/ Added(q) + Len(FirstPass(q)) = ReplicationFactor
           /\ Added(q) + Len(FirstPass(q)) <= ReplicationFactor
           /\ Passes(q) \in Seq(NodeIds) /\ Distinct(Passes(q)) /\ Len(Passes(q)) = Len(FirstPass(q)) + Added(q)
           /\ Elements(Passes(q)) = Elements(FirstPass(q)) \cup {Rest(q)[i] : i \in 1..Added(q)}
           /\ Elements(Passes(q)) \subseteq Elements(q)
  <1> DEFINE sel == FirstPass(q)
             rest == Rest(q)
             res == Passes(q)
  <1>1. /\ sel \in Seq(NodeIds) /\ Distinct(sel) /\ Elements(sel) \subseteq Elements(q)
        /\ Len(sel) <= ReplicationFactor
    BY FirstPassIs
  <1>2. Elements(q) \subseteq NodeIds
    BY DEF Elements
  <1>3. rest \in Seq(NodeIds) /\ InOrder(rest, q) /\ Elements(rest) = Elements(q) \cap (NodeIds \ Elements(sel))
    BY FilteredIs DEF Rest
  <1>4. Distinct(rest) /\ Elements(rest) = Elements(q) \ Elements(sel)
    BY <1>2, <1>3, FilteredDistinct
  <1>5. /\ Added(q) \in 0..Len(rest)
        /\ Added(q) = Len(rest) \/ Added(q) + Len(sel) = ReplicationFactor
        /\ Added(q) + Len(sel) <= ReplicationFactor
    <2>1. Len(rest) \in Nat /\ Len(sel) \in Nat /\ ReplicationFactor \in Nat
      BY <1>1, <1>3, PolicyAssumption
    <2>2. Added(q) = Least(Len(rest), ReplicationFactor - Len(sel))
      BY DEF Added
    <2> QED
      BY <1>1, <2>1, <2>2 DEF Least
  <1> HIDE DEF sel, rest
  <1> DEFINE more == SubSeq(rest, 1, Added(q))
  <1>6. /\ more \in Seq(NodeIds) /\ Len(more) = Added(q) /\ Distinct(more)
        /\ Elements(more) = {rest[i] : i \in 1..Added(q)} /\ Elements(more) \subseteq Elements(rest)
    <2> DEFINE n == Added(q)
    <2>1. n \in 0..Len(rest)
      BY <1>5
    <2> HIDE DEF n
    <2>2. /\ SubSeq(rest, 1, n) \in Seq(NodeIds) /\ Len(SubSeq(rest, 1, n)) = n
          /\ Distinct(SubSeq(rest, 1, n))
          /\ Elements(SubSeq(rest, 1, n)) = {rest[i] : i \in 1..n}
          /\ Elements(SubSeq(rest, 1, n)) \subseteq Elements(rest)
      BY <1>3, <1>4, <2>1, PrefixIs
    <2> QED
      BY <2>2 DEF n
  <1>7. res = sel \o more
    BY DEF sel, rest, SecondPass, Added, Passes, Rest
  <1> HIDE DEF more, res
  <1>8. /\ res \in Seq(NodeIds) /\ Distinct(res) /\ Len(res) = Len(sel) + Added(q)
        /\ Elements(res) = Elements(sel) \cup Elements(more)
    <2>1. Elements(sel) \cap Elements(more) = {}
      BY <1>4, <1>6
    <2>2. sel \in Seq(NodeIds) /\ more \in Seq(NodeIds) /\ Distinct(sel) /\ Distinct(more)
      BY <1>1, <1>6
    <2>3. /\ sel \o more \in Seq(NodeIds) /\ Len(sel \o more) = Len(sel) + Len(more) /\ Distinct(sel \o more)
          /\ Elements(sel \o more) = Elements(sel) \cup Elements(more)
      BY <2>1, <2>2, JoinIs
    <2> QED
      BY <1>6, <1>7, <2>3
  <1> QED
    BY <1>1, <1>3, <1>4, <1>5, <1>6, <1>8 DEF sel, rest, res

\* The placement of a key over the nodes E.
LEMMA SelectedAre ==
    ASSUME NEW k \in Keys, NEW E \in SUBSET NodeIds, NEW sel, sel = SelectNodes(k, E)
    PROVE  /\ sel \in Seq(NodeIds) /\ Distinct(sel) /\ Elements(sel) \subseteq E
           /\ IsFiniteSet(E) /\ Cardinality(E) \in Nat
           /\ Len(sel) = Least(ReplicationFactor, Cardinality(E))
  <1> DEFINE q == Filtered(Rank[k], E)
             s == FirstPass(q)
             rest == Rest(q)
  <1>1. q \in Seq(NodeIds) /\ Distinct(q) /\ Elements(q) = E
    BY RankedIs
  <1>2. sel = Passes(q)
    BY DEF SelectNodes, Passes
  <1>3. s \in Seq(NodeIds) /\ Distinct(s) /\ Elements(s) \subseteq E
    <2> HIDE DEF q
    <2> QED
      BY <1>1, FirstPassIs
  <1>4. /\ rest \in Seq(NodeIds) /\ Distinct(rest) /\ Elements(rest) = Elements(q) \ Elements(s)
        /\ Added(q) \in 0..Len(rest)
        /\ Added(q) = Len(rest) \/ Added(q) + Len(s) = ReplicationFactor
        /\ Added(q) + Len(s) <= ReplicationFactor
        /\ sel \in Seq(NodeIds) /\ Distinct(sel) /\ Len(sel) = Len(s) + Added(q)
        /\ Elements(sel) \subseteq Elements(q)
    <2> HIDE DEF q
    <2> QED
      BY <1>1, <1>2, PassesAre
  <1> HIDE DEF q, s, rest
  <1>5. IsFiniteSet(E) /\ Cardinality(E) = Len(q) /\ Len(q) \in Nat
    BY <1>1, DistinctLength
  <1>6. Cardinality(Elements(s)) = Len(s) /\ Len(s) \in Nat
    BY <1>3, DistinctLength
  <1>7. Cardinality(Elements(rest)) = Len(rest) /\ Len(rest) \in Nat
    <2>1. rest \in Seq(NodeIds) /\ Distinct(rest)
      BY <1>4
    <2> QED
      BY <2>1, DistinctLength
  <1>8. Cardinality(E \ Elements(s)) = Cardinality(E) - Cardinality(E \cap Elements(s))
    BY <1>5, FS_Difference
  <1>9. E \cap Elements(s) = Elements(s)
    BY <1>3
  <1>10. Len(rest) = Cardinality(E) - Len(s)
    BY <1>1, <1>4, <1>6, <1>7, <1>8, <1>9
  <1>11. Len(sel) = Least(ReplicationFactor, Cardinality(E))
    BY <1>4, <1>5, <1>6, <1>7, <1>10, PolicyAssumption DEF Least
  <1> QED
    BY <1>1, <1>4, <1>5, <1>11

\* The copies that a plan with the placement d misses, of a key with the claims C.
LEMMA MissingAre ==
    ASSUME NEW d \in Seq(NodeIds), Distinct(d), NEW C \in SUBSET NodeIds, NEW m, m = MissingNodes(d, C)
    PROVE  /\ Elements(m) \subseteq NodeIds /\ Elements(m) \cap C = {}
           /\ IsFiniteSet(C) /\ Cardinality(C) \in Nat /\ IsFiniteSet(Elements(m))
           /\ Cardinality(Elements(m)) = IF Len(d) > Cardinality(C) THEN Len(d) - Cardinality(C) ELSE 0
  <1> DEFINE absent == Filtered(d, NodeIds \ C)
             needed == IF Len(d) > Cardinality(C) THEN Len(d) - Cardinality(C) ELSE 0
  <1>1. IsFiniteSet(C) /\ Cardinality(C) \in Nat
    BY PolicyAssumption, FS_Subset, FS_CardinalityType
  <1>2. absent \in Seq(NodeIds) /\ InOrder(absent, d) /\ Elements(absent) = Elements(d) \cap (NodeIds \ C)
    BY FilteredIs
  <1>3. Distinct(absent)
    BY <1>2, FilteredDistinct
  <1>4. Elements(d) \subseteq NodeIds
    BY DEF Elements
  <1>5. Elements(absent) = Elements(d) \ C
    BY <1>2, <1>4
  <1>6. m = SubSeq(absent, 1, Least(Len(absent), needed))
    BY DEF MissingNodes
  <1> HIDE DEF absent
  <1>7. IsFiniteSet(Elements(d)) /\ Cardinality(Elements(d)) = Len(d) /\ Len(d) \in Nat
    BY DistinctLength
  <1>8. Cardinality(Elements(absent)) = Len(absent) /\ Len(absent) \in Nat
    <2>1. absent \in Seq(NodeIds) /\ Distinct(absent)
      BY <1>2, <1>3
    <2> QED
      BY <2>1, DistinctLength
  <1>9. Len(absent) = Len(d) - Cardinality(Elements(d) \cap C)
    BY <1>5, <1>7, <1>8, FS_Difference
  <1>10. Cardinality(Elements(d) \cap C) <= Cardinality(C) /\ Cardinality(Elements(d) \cap C) \in Nat
    <2>1. Elements(d) \cap C \subseteq C
      OBVIOUS
    <2> QED
      BY <1>1, <2>1, FS_Subset, FS_CardinalityType
  <1>11. needed \in 0..Len(absent) /\ Least(Len(absent), needed) = needed
    BY <1>1, <1>7, <1>8, <1>9, <1>10 DEF Least
  <1> HIDE DEF needed
  <1>12. /\ m \in Seq(NodeIds) /\ Len(m) = needed /\ Distinct(m) /\ Elements(m) \subseteq Elements(absent)
    BY <1>2, <1>3, <1>6, <1>11, PrefixIs
  <1>13. IsFiniteSet(Elements(m)) /\ Cardinality(Elements(m)) = needed
    BY <1>12, DistinctLength
  <1> QED
    BY <1>1, <1>2, <1>12, <1>13 DEF needed

\* The claims and the eligible nodes of the walk are nodes.
WalkTypeOK == eligible \subseteq NodeIds /\ claims \subseteq NodeIds

\* A walk stays among the nodes.
LEMMA WalkTyped == WalkSpec => []WalkTypeOK
  <1>1. WalkInit => WalkTypeOK
    BY DEF WalkInit, WalkTypeOK
  <1>2. ASSUME WalkTypeOK, [WalkNext]_walkVars PROVE WalkTypeOK'
    <2>1. ASSUME NEW n \in NodeIds, Toggle(n) PROVE WalkTypeOK'
      BY <1>2, <2>1 DEF WalkTypeOK, Toggle
    <2>2. ASSUME NEW k \in Keys, Repair(k) PROVE WalkTypeOK'
      <3>1. SelectNodes(k, eligible) \in Seq(NodeIds) /\ Distinct(SelectNodes(k, eligible))
        BY <1>2, SelectedAre DEF WalkTypeOK
      <3>2. Elements(MissingNodes(SelectNodes(k, eligible), claims)) \subseteq NodeIds
        BY <1>2, <3>1, MissingAre DEF WalkTypeOK
      <3> QED
        BY <1>2, <2>2, <3>2 DEF WalkTypeOK, Repair
    <2>3. CASE UNCHANGED walkVars
      BY <1>2, <2>3 DEF WalkTypeOK, walkVars
    <2> QED
      BY <1>2, <2>1, <2>2, <2>3 DEF WalkNext
  <1> QED
    BY <1>1, <1>2, PTL DEF WalkSpec

\* The placement is as large as it can be.
LEMMA FullPlacement ==
    ASSUME WalkTypeOK
    PROVE  PlacementIsFull
  <1> SUFFICES ASSUME NEW k \in Keys, NEW sel, sel = SelectNodes(k, eligible)
               PROVE  /\ Elements(sel) \subseteq eligible /\ Cardinality(Elements(sel)) = Len(sel)
                      /\ Len(sel) = Least(ReplicationFactor, Cardinality(eligible))
    BY DEF PlacementIsFull
  <1>1. /\ sel \in Seq(NodeIds) /\ Distinct(sel) /\ Elements(sel) \subseteq eligible
        /\ Len(sel) = Least(ReplicationFactor, Cardinality(eligible))
    BY SelectedAre DEF WalkTypeOK
  <1> QED
    BY <1>1, DistinctLength

\* The missing copies fill the placement up.
LEMMA ExactRepair ==
    ASSUME WalkTypeOK
    PROVE  RepairReachesTarget
  <1> SUFFICES ASSUME NEW k \in Keys, NEW d, d = SelectNodes(k, eligible), NEW m, m = MissingNodes(d, claims)
               PROVE  Cardinality(claims \cup Elements(m)) = IF Cardinality(claims) > Len(d)
                                                             THEN Cardinality(claims) ELSE Len(d)
    BY DEF RepairReachesTarget
  <1>1. d \in Seq(NodeIds) /\ Distinct(d)
    BY SelectedAre DEF WalkTypeOK
  <1>2. /\ Elements(m) \cap claims = {}
        /\ IsFiniteSet(claims) /\ Cardinality(claims) \in Nat /\ IsFiniteSet(Elements(m))
        /\ Cardinality(Elements(m)) = IF Len(d) > Cardinality(claims) THEN Len(d) - Cardinality(claims) ELSE 0
    BY <1>1, MissingAre DEF WalkTypeOK
  <1>3. Cardinality(claims \cap Elements(m)) = 0
    <2>1. claims \cap Elements(m) = {}
      BY <1>2
    <2> QED
      BY <2>1, FS_EmptySet
  <1>4. Cardinality(claims \cup Elements(m)) = Cardinality(claims) + Cardinality(Elements(m))
    <2>1. Cardinality(Elements(m)) \in Nat
      BY <1>2, FS_CardinalityType
    <2>2. Cardinality(claims \cup Elements(m))
            = Cardinality(claims) + Cardinality(Elements(m)) - Cardinality(claims \cap Elements(m))
      BY <1>2, FS_Union
    <2> QED
      BY <1>2, <1>3, <2>1, <2>2
  <1>5. Len(d) \in Nat
    BY <1>1
  <1> QED
    BY <1>2, <1>4, <1>5

\* The label values of a longer selection.
LEMMA AppendValues ==
    ASSUME NEW q \in Seq(NodeIds), NEW n \in NodeIds, NEW l
    PROVE  SeenValues(Append(q, n), l) = SeenValues(q, l) \cup {Label[n][l]}
  <1>1. Elements(Append(q, n)) = Elements(q) \cup {n}
    BY AppendElements
  <1> QED
    BY <1>1 DEF SeenValues

\* With one label, of which the policy asks for a value, every node that the first
\* pass takes has a value of its own, and it passes over new values only when it has
\* enough of them.
LEMMA FirstPassSpreads ==
    ASSUME NEW q \in Seq(NodeIds), NEW l, LabelKeys = {l}, MinDistinct[l] > 0
    PROVE  LET V == SeenValues(FirstPass(q), l)
           IN  \/ Cardinality(V) >= MinDistinct[l]
               \/ Cardinality(V) >= ReplicationFactor
               \/ \A n \in Elements(q) : Label[n][l] \in V
  <1>0. PICK f : FirstRun(f, q)
    BY FirstPassRuns
  <1>1. /\ f \in [0..Len(q) -> Seq(NodeIds)]
        /\ f[0] = <<>> /\ FirstPass(q) = f[Len(q)]
        /\ \A i \in 1..Len(q) : f[i] = IF Takes(f[i - 1], q[i]) THEN Append(f[i - 1], q[i]) ELSE f[i - 1]
    BY <1>0 DEF FirstRun
  <1> DEFINE V(i) == SeenValues(f[i], l)
             Counted(i) == IsFiniteSet(V(i)) /\ Cardinality(V(i)) = Len(f[i])
             Enough(i) == Cardinality(V(i)) >= MinDistinct[l] \/ Cardinality(V(i)) >= ReplicationFactor
             All(i) == \A j \in 1..i : Label[q[j]][l] \in V(i)
             Good == {i \in 0..Len(q) : Counted(i) /\ (Enough(i) \/ All(i))}
  <1>2. Len(q) \in Nat /\ DOMAIN q = 1..Len(q) /\ ReplicationFactor \in Nat /\ MinDistinct[l] \in Nat
    BY PolicyAssumption
  <1>3. Cardinality(LabelKeys) = 1
    BY FS_Singleton
  <1>4. 0 \in Good
    <2>1. V(0) = {} /\ Len(f[0]) = 0
      BY <1>1 DEF SeenValues, Elements
    <2>2. Counted(0)
      BY <2>1, FS_EmptySet
    <2>3. All(0)
      OBVIOUS
    <2> HIDE DEF Counted, Enough, All
    <2> QED
      BY <1>2, <2>2, <2>3
  <1>5. ASSUME NEW i \in 1..Len(q), i - 1 \in Good PROVE i \in Good
    <2>1. i \in 0..Len(q) /\ i - 1 \in 0..Len(q) /\ 1..i = 1..(i - 1) \cup {i}
      BY <1>2
    <2>2. q[i] \in NodeIds
      OBVIOUS
    <2>3. f[i] \in Seq(NodeIds) /\ f[i - 1] \in Seq(NodeIds)
      BY <1>1, <2>1
    <2>4. Counted(i - 1) /\ (Enough(i - 1) \/ All(i - 1))
      <3> HIDE DEF Counted, Enough, All
      <3> QED
        BY <1>5
    <2>5. Len(f[i - 1]) \in Nat
      BY <2>3
    <2>6. HelpsConstraint(f[i - 1], q[i])
            <=> Cardinality(V(i - 1)) < MinDistinct[l] /\ Label[q[i]][l] \notin V(i - 1)
      BY DEF HelpsConstraint
    <2>7. CASE ~Takes(f[i - 1], q[i])
      <3>1. f[i] = f[i - 1]
        BY <1>1, <2>7
      <3>2. Counted(i)
        BY <2>4, <3>1
      <3>3. CASE Enough(i - 1)
        <4>1. Enough(i)
          BY <3>1, <3>3
        <4> HIDE DEF Counted, Enough, All
        <4> QED
          BY <2>1, <3>2, <4>1
      <3>4. CASE All(i - 1) /\ ~Enough(i - 1)
        <4>1. Label[q[i]][l] \in V(i - 1)
          <5>1. Len(f[i - 1]) < ReplicationFactor /\ Cardinality(V(i - 1)) < MinDistinct[l]
            BY <1>2, <2>4, <2>5, <3>4
          <5> QED
            BY <2>6, <2>7, <5>1 DEF Takes
        <4>2. All(i)
          BY <2>1, <3>1, <3>4, <4>1
        <4> HIDE DEF Counted, Enough, All
        <4> QED
          BY <2>1, <3>2, <4>2
      <3> QED
        BY <2>4, <3>3, <3>4
    <2>8. CASE Takes(f[i - 1], q[i])
      <3>1. f[i] = Append(f[i - 1], q[i])
        BY <1>1, <2>8
      <3>2. V(i) = V(i - 1) \cup {Label[q[i]][l]} /\ Len(f[i]) = Len(f[i - 1]) + 1
        BY <2>2, <2>3, <3>1, AppendValues
      <3>3. Label[q[i]][l] \notin V(i - 1)
        <4>1. CASE Len(f[i - 1]) < 1
          <5>1. V(i - 1) = {}
            BY <2>4, <2>5, <4>1, FS_EmptySet
          <5> QED
            BY <5>1
        <4> QED
          BY <1>3, <2>6, <2>8, <4>1 DEF Takes
      <3>4. IsFiniteSet(V(i)) /\ Cardinality(V(i)) = Cardinality(V(i - 1)) + 1
        <4> DEFINE S == V(i - 1)
                   x == Label[q[i]][l]
        <4>1. IsFiniteSet(S) /\ x \notin S
          BY <2>4, <3>3
        <4>2. IsFiniteSet(S \cup {x}) /\ Cardinality(S \cup {x}) = Cardinality(S) + 1
          <5> HIDE DEF S, x
          <5> QED
            BY <4>1, FS_AddElement
        <4> QED
          BY <3>2, <4>2
      <3>5. Counted(i)
        BY <2>4, <3>2, <3>4
      <3>6. Enough(i - 1) => Enough(i)
        BY <1>2, <2>4, <2>5, <3>4
      <3>7. All(i - 1) => All(i)
        BY <2>1, <3>2
      <3> HIDE DEF Counted, Enough, All
      <3> QED
        BY <2>1, <2>4, <3>5, <3>6, <3>7
    <2> QED
      BY <2>7, <2>8
  <1>6. Len(q) \in Good
    <2> HIDE DEF Good
    <2>1. \A i \in 0..Len(q) : i \in Good
      BY <1>2, <1>4, <1>5, LoopInduction
    <2> QED
      BY <1>2, <2>1
  <1>7. Enough(Len(q)) \/ All(Len(q))
    <2> HIDE DEF Counted, Enough, All
    <2> QED
      BY <1>6
  <1>8. Elements(q) = {q[j] : j \in 1..Len(q)}
    BY <1>2 DEF Elements
  <1> QED
    BY <1>1, <1>7, <1>8

\* Values are spread as far as the policy asks.
LEMMA SpreadLabels ==
    ASSUME WalkTypeOK
    PROVE  LabelsAreSpread
  <1> SUFFICES ASSUME Cardinality(LabelKeys) = 1, NEW k \in Keys, NEW l \in LabelKeys
               PROVE  Cardinality(SeenValues(SelectNodes(k, eligible), l))
                        >= Least(MinDistinct[l],
                                 Least(ReplicationFactor, Cardinality({Label[n][l] : n \in eligible})))
    BY DEF LabelsAreSpread
  <1> DEFINE q == Filtered(Rank[k], eligible)
             V == SeenValues(FirstPass(q), l)
             W == SeenValues(SelectNodes(k, eligible), l)
             X == {Label[n][l] : n \in eligible}
  <1>1. LabelKeys = {l}
    <2>1. PICK x : LabelKeys = {x}
      BY PolicyAssumption, FS_Singleton
    <2> QED
      BY <2>1
  <1>2. q \in Seq(NodeIds) /\ Distinct(q) /\ Elements(q) = eligible
    BY RankedIs DEF WalkTypeOK
  <1>3. SelectNodes(k, eligible) = Passes(q)
    BY DEF SelectNodes, Passes
  <1> HIDE DEF q
  <1>4. Elements(FirstPass(q)) \subseteq Elements(Passes(q)) /\ Elements(Passes(q)) \subseteq eligible
    BY <1>2, PassesAre
  <1>5. V \subseteq W /\ W \subseteq X
    BY <1>3, <1>4 DEF SeenValues
  <1>6. IsFiniteSet(X)
    <2>1. IsFiniteSet(eligible)
      BY PolicyAssumption, FS_Subset DEF WalkTypeOK
    <2> DEFINE g == [n \in eligible |-> Label[n][l]]
    <2>2. g \in Surjection(eligible, X)
      BY DEF Surjection
    <2> HIDE DEF g, X
    <2> QED
      BY <2>1, <2>2, FS_Surjection DEF ExistsSurjection
  <1> HIDE DEF V, W, X
  <1>7. /\ IsFiniteSet(V) /\ IsFiniteSet(W) /\ Cardinality(V) <= Cardinality(W)
        /\ Cardinality(V) \in Nat /\ Cardinality(W) \in Nat /\ Cardinality(X) \in Nat
    BY <1>5, <1>6, FS_Subset, FS_CardinalityType
  <1>8. MinDistinct[l] \in Nat /\ ReplicationFactor \in Nat
    BY PolicyAssumption
  <1>9. CASE MinDistinct[l] = 0
    BY <1>7, <1>8, <1>9 DEF Least, W, X
  <1>10. CASE MinDistinct[l] > 0
    <2>1. \/ Cardinality(V) >= MinDistinct[l] \/ Cardinality(V) >= ReplicationFactor
          \/ \A n \in eligible : Label[n][l] \in V
      BY <1>1, <1>2, <1>10, FirstPassSpreads DEF V
    <2>2. CASE \A n \in eligible : Label[n][l] \in V
      <3>1. X \subseteq W
        BY <1>5, <2>2 DEF X
      <3>2. Cardinality(X) <= Cardinality(W)
        BY <1>7, <3>1, FS_Subset
      <3> QED
        BY <1>7, <1>8, <3>2 DEF Least, W, X
    <2> QED
      BY <1>7, <1>8, <2>1, <2>2 DEF Least, W, X
  <1> QED
    BY <1>8, <1>9, <1>10

\* The placement that select_nodes_by_rendezvous makes is as large as the factor and
\* the online nodes allow, has the label values that one label asks for, and a plan
\* brings the claims to its size and not above it: for any nodes, ranks, labels,
\* factor, online nodes and claims.
THEOREM PlansAlwaysMeetThePolicy == WalkSpec => []PlansMeetThePolicy
  <1>1. WalkTypeOK => PlansMeetThePolicy
    BY FullPlacement, ExactRepair, SpreadLabels DEF PlansMeetThePolicy
  <1> QED
    BY <1>1, WalkTyped, PTL

-------------------------------------------------------------------------------
(***************************************************************************)
(* Stability.  Both kinds of policy take nodes greedily: the first pass    *)
(* takes a node if fewer than c are taken and none of them has its value,  *)
(* which is the value of the one label, or else the node itself.  So it    *)
(* takes the first c leaders: nodes that rank before all others of their   *)
(* value.  A node that goes away makes at most one other node a leader,    *)
(* which ranks after it, so the first pass keeps what it had and takes at  *)
(* most one more.  The second pass takes the first of the others.          *)
(***************************************************************************)

StablePolicy == Cardinality(LabelKeys) <= 1 \/ \A l \in LabelKeys : MinDistinct[l] <= 1

\* No two members of s have the same value.
OneOfEach(g, s) == \A i, j \in 1..Len(s) : g[s[i]] = g[s[j]] => i = j

\* The first pass takes the first c nodes of different values.
Greedy(g, c) ==
    \A s \in Seq(NodeIds), n \in NodeIds :
        OneOfEach(g, s) /\ n \notin Elements(s) =>
            (Takes(s, n) <=> Len(s) < c /\ \A e \in Elements(s) : g[e] # g[n])

\* y comes before x in the ranking of k.
Earlier(k, y, x) == \E i, j \in 1..Len(Rank[k]) : i < j /\ Rank[k][i] = y /\ Rank[k][j] = x

\* The nodes of E that rank before all others of their value.
Leaders(k, g, E) == {n \in E : \A y \in E : Earlier(k, y, n) => g[y] # g[n]}

\* S has the first members of A, and c of them if there are so many.
FirstOf(k, S, A, c) ==
    /\ S \subseteq A /\ \A s \in S, a \in A \ S : Earlier(k, s, a)
    /\ Cardinality(S) <= c /\ (Cardinality(S) = c \/ S = A)

\* The label values of a selection are finitely many.
LEMMA ValuesAreFinite ==
    ASSUME NEW s \in Seq(NodeIds), NEW l
    PROVE  IsFiniteSet(SeenValues(s, l)) /\ Cardinality(SeenValues(s, l)) \in Nat
  <1> DEFINE g == [m \in Elements(s) |-> Label[m][l]]
  <1>1. IsFiniteSet(Elements(s))
    <2>1. Elements(s) \subseteq NodeIds
      BY DEF Elements
    <2> QED
      BY <2>1, PolicyAssumption, FS_Subset
  <1>2. g \in Surjection(Elements(s), SeenValues(s, l))
    BY DEF Surjection, SeenValues
  <1> HIDE DEF g
  <1> QED
    BY <1>1, <1>2, FS_Surjection, FS_CardinalityType DEF ExistsSurjection

\* If one value of each label is enough, a node that helps is the first.
LEMMA FirstNodeHelps ==
    ASSUME \A l \in LabelKeys : MinDistinct[l] <= 1,
           NEW s \in Seq(NodeIds), NEW n \in NodeIds, HelpsConstraint(s, n)
    PROVE  Len(s) = 0 /\ LabelKeys # {}
  <1>1. PICK l \in LabelKeys : Cardinality(SeenValues(s, l)) < MinDistinct[l]
    BY DEF HelpsConstraint
  <1>2. IsFiniteSet(SeenValues(s, l)) /\ Cardinality(SeenValues(s, l)) = 0
    BY <1>1, ValuesAreFinite, PolicyAssumption
  <1>3. ASSUME Len(s) # 0 PROVE FALSE
    <2>1. 1 \in 1..Len(s) /\ DOMAIN s = 1..Len(s)
      BY <1>3
    <2>2. Label[s[1]][l] \in SeenValues(s, l)
      BY <2>1 DEF SeenValues, Elements
    <2> QED
      BY <1>2, <2>2, FS_EmptySet
  <1> QED
    BY <1>1, <1>3

\* The positions of a sequence of n members.
LEMMA IntervalCounted ==
    ASSUME NEW n \in Nat
    PROVE  IsFiniteSet(1..n) /\ Cardinality(1..n) = n
  BY FS_Interval

\* A selection with one node of each value of the label has as many values.
LEMMA ValuesCounted ==
    ASSUME NEW s \in Seq(NodeIds), NEW l, NEW g, \A n \in NodeIds : g[n] = Label[n][l], OneOfEach(g, s)
    PROVE  Cardinality(SeenValues(s, l)) = Len(s) /\ SeenValues(s, l) = {g[e] : e \in Elements(s)}
  <1>1. Len(s) \in Nat /\ DOMAIN s = 1..Len(s) /\ \A i \in 1..Len(s) : s[i] \in NodeIds
    OBVIOUS
  <1>2. SeenValues(s, l) = {g[e] : e \in Elements(s)}
    BY <1>1 DEF SeenValues, Elements
  <1> DEFINE b == [i \in 1..Len(s) |-> g[s[i]]]
  <1>3. b \in Bijection(1..Len(s), SeenValues(s, l))
    <2>1. \A v \in SeenValues(s, l) : \E i \in 1..Len(s) : b[i] = v
      BY <1>1, <1>2 DEF Elements
    <2>2. \A i \in 1..Len(s) : b[i] \in SeenValues(s, l)
      BY <1>1, <1>2 DEF Elements
    <2>3. b \in Surjection(1..Len(s), SeenValues(s, l))
      BY <2>1, <2>2 DEF Surjection
    <2>4. \A i, j \in 1..Len(s) : b[i] = b[j] => i = j
      BY DEF OneOfEach
    <2>5. b \in Injection(1..Len(s), SeenValues(s, l))
      BY <2>2, <2>4 DEF Injection, IsInjective
    <2> HIDE DEF b
    <2> QED
      BY <2>3, <2>5 DEF Bijection
  <1> HIDE DEF b
  <1>4. IsFiniteSet(1..Len(s)) /\ Cardinality(1..Len(s)) = Len(s)
    <2>1. Len(s) \in Nat
      OBVIOUS
    <2> QED
      BY <2>1, IntervalCounted
  <1> QED
    BY <1>2, <1>3, <1>4, FS_Bijection DEF ExistsBijection

\* A policy with one value of each label takes the first nodes.
LEMMA OneValueIsGreedy ==
    ASSUME \A l \in LabelKeys : MinDistinct[l] <= 1
    PROVE  Greedy([n \in NodeIds |-> n], Least(ReplicationFactor, Cardinality(LabelKeys)))
  <1> DEFINE g == [n \in NodeIds |-> n]
             c == Least(ReplicationFactor, Cardinality(LabelKeys))
  <1> SUFFICES ASSUME NEW s \in Seq(NodeIds), NEW n \in NodeIds, n \notin Elements(s)
               PROVE  Takes(s, n) <=> Len(s) < c /\ \A e \in Elements(s) : g[e] # g[n]
    BY DEF Greedy
  <1>1. Len(s) \in Nat /\ ReplicationFactor \in Nat /\ Cardinality(LabelKeys) \in Nat
    BY PolicyAssumption, FS_CardinalityType
  <1>2. \A e \in Elements(s) : g[e] # g[n]
    BY DEF Elements
  <1>3. ASSUME HelpsConstraint(s, n) PROVE Len(s) < Cardinality(LabelKeys)
    <2>1. Len(s) = 0 /\ LabelKeys # {}
      BY <1>3, FirstNodeHelps
    <2>2. Cardinality(LabelKeys) # 0
      BY <2>1, PolicyAssumption, FS_EmptySet
    <2> QED
      BY <1>1, <2>1, <2>2
  <1>4. Takes(s, n) <=> Len(s) < ReplicationFactor /\ Len(s) < Cardinality(LabelKeys)
    BY <1>3 DEF Takes
  <1>5. Len(s) < c <=> Len(s) < ReplicationFactor /\ Len(s) < Cardinality(LabelKeys)
    BY <1>1 DEF Least
  <1> QED
    BY <1>2, <1>4, <1>5

\* A policy with one label takes the first nodes of different values.
LEMMA OneLabelIsGreedy ==
    ASSUME NEW l, LabelKeys = {l}, MinDistinct[l] > 0
    PROVE  Greedy([n \in NodeIds |-> Label[n][l]], Least(ReplicationFactor, MinDistinct[l]))
  <1> DEFINE g == [n \in NodeIds |-> Label[n][l]]
             c == Least(ReplicationFactor, MinDistinct[l])
  <1> SUFFICES ASSUME NEW s \in Seq(NodeIds), NEW n \in NodeIds, OneOfEach(g, s), n \notin Elements(s)
               PROVE  Takes(s, n) <=> Len(s) < c /\ \A e \in Elements(s) : g[e] # g[n]
    BY DEF Greedy
  <1>1. Len(s) \in Nat /\ ReplicationFactor \in Nat /\ MinDistinct[l] \in Nat /\ Cardinality(LabelKeys) = 1
    <2>1. Len(s) \in Nat
      OBVIOUS
    <2>2. ReplicationFactor \in Nat /\ MinDistinct[l] \in Nat
      BY PolicyAssumption
    <2>3. Cardinality({l}) = 1
      BY FS_Singleton
    <2> QED
      BY <2>1, <2>2, <2>3
  <1>2. Cardinality(SeenValues(s, l)) = Len(s) /\ SeenValues(s, l) = {g[e] : e \in Elements(s)}
    <2>1. \A m \in NodeIds : g[m] = Label[m][l]
      OBVIOUS
    <2> HIDE DEF g
    <2> QED
      BY <2>1, ValuesCounted
  <1>3. HelpsConstraint(s, n) <=> Len(s) < MinDistinct[l] /\ \A e \in Elements(s) : g[e] # g[n]
    <2>1. HelpsConstraint(s, n) <=> Len(s) < MinDistinct[l] /\ Label[n][l] \notin SeenValues(s, l)
      BY <1>2 DEF HelpsConstraint
    <2>2. g[n] = Label[n][l]
      OBVIOUS
    <2> HIDE DEF g
    <2> QED
      BY <1>2, <2>1, <2>2
  <1>4. Len(s) < 1 => Elements(s) = {} /\ Len(s) < MinDistinct[l]
    BY <1>1 DEF Elements
  <1>5. Takes(s, n) <=> Len(s) < ReplicationFactor /\ (HelpsConstraint(s, n) \/ Len(s) < 1)
    BY <1>1 DEF Takes
  <1>6. Len(s) < c <=> Len(s) < ReplicationFactor /\ Len(s) < MinDistinct[l]
    BY <1>1 DEF Least
  <1> HIDE DEF g, c
  <1> QED
    BY <1>3, <1>4, <1>5, <1>6

\* Every policy that is stable is greedy.
LEMMA StableIsGreedy ==
    ASSUME StablePolicy
    PROVE  \E g, c : c \in Nat /\ Greedy(g, c)
  <1>1. CASE \A l \in LabelKeys : MinDistinct[l] <= 1
    <2>1. Least(ReplicationFactor, Cardinality(LabelKeys)) \in Nat
      BY PolicyAssumption, FS_CardinalityType DEF Least
    <2> QED
      BY <1>1, <2>1, OneValueIsGreedy
  <1>2. CASE ~\A l \in LabelKeys : MinDistinct[l] <= 1
    <2>1. PICK l \in LabelKeys : MinDistinct[l] \in Nat /\ MinDistinct[l] > 1
      BY <1>2, PolicyAssumption
    <2>2. Cardinality(LabelKeys) = 1
      BY <1>2, <2>1, PolicyAssumption, FS_EmptySet, FS_CardinalityType DEF StablePolicy
    <2>3. LabelKeys = {l}
      BY <2>1, <2>2, PolicyAssumption, FS_Singleton
    <2>4. Least(ReplicationFactor, MinDistinct[l]) \in Nat
      BY <2>1, PolicyAssumption DEF Least
    <2>5. Greedy([n \in NodeIds |-> Label[n][l]], Least(ReplicationFactor, MinDistinct[l]))
      BY <2>1, <2>3, OneLabelIsGreedy
    <2> QED
      BY <2>4, <2>5
  <1> QED
    BY <1>1, <1>2

\* The first pass of a greedy policy takes the first of the nodes that have a value
\* which none before them has.
LEMMA FirstPassIsGreedy ==
    ASSUME NEW q \in Seq(NodeIds), Distinct(q), NEW g, NEW c \in Nat, Greedy(g, c)
    PROVE  LET s == FirstPass(q)
               Lead(j) == \A a \in 1..(j - 1) : g[q[a]] # g[q[j]]
           IN  /\ Len(s) <= c
               /\ \E p \in 0..Len(q) : /\ Elements(s) = {q[j] : j \in {b \in 1..p : Lead(b)}}
                                       /\ p = Len(q) \/ Len(s) = c
  <1>0. PICK f : FirstRun(f, q)
    BY FirstPassRuns
  <1>1. /\ f \in [0..Len(q) -> Seq(NodeIds)]
        /\ f[0] = <<>> /\ FirstPass(q) = f[Len(q)]
        /\ \A i \in 1..Len(q) : f[i] = IF Takes(f[i - 1], q[i]) THEN Append(f[i - 1], q[i]) ELSE f[i - 1]
    BY <1>0 DEF FirstRun
  <1> DEFINE Lead(j) == \A a \in 1..(j - 1) : g[q[a]] # g[q[j]]
             Leads(p) == {q[j] : j \in {b \in 1..p : Lead(b)}}
             Met(i) == \A j \in 1..i : \E e \in Elements(f[i]) : g[e] = g[q[j]]
             Some(i) == \E p \in 0..i : Elements(f[i]) = Leads(p)
             Good == {i \in 0..Len(q) : /\ OneOfEach(g, f[i]) /\ Len(f[i]) <= c
                                        /\ \/ Elements(f[i]) = Leads(i) /\ Met(i)
                                           \/ Len(f[i]) = c /\ Some(i)}
  <1>2. Len(q) \in Nat /\ DOMAIN q = 1..Len(q)
    OBVIOUS
  <1>3. 0 \in Good
    <2>1. Len(f[0]) = 0 /\ Elements(f[0]) = {} /\ Leads(0) = {} /\ OneOfEach(g, f[0])
      BY <1>1 DEF Elements, OneOfEach
    <2>2. Met(0)
      OBVIOUS
    <2>3. 0 \in 0..Len(q) /\ Len(f[0]) <= c
      BY <1>2, <2>1
    <2> HIDE DEF Leads, Met, Some
    <2> QED
      BY <2>1, <2>2, <2>3
  <1>4. ASSUME NEW i \in 1..Len(q), i - 1 \in Good PROVE i \in Good
    <2>1. i \in 0..Len(q) /\ i - 1 \in 0..Len(q) /\ 1..i = 1..(i - 1) \cup {i}
      BY <1>2
    <2>2. q[i] \in NodeIds
      OBVIOUS
    <2>3. f[i] \in Seq(NodeIds) /\ f[i - 1] \in Seq(NodeIds)
      BY <1>1, <2>1
    <2>4. Len(f[i - 1]) \in Nat
      BY <2>3
    <2>5. /\ OneOfEach(g, f[i - 1]) /\ Len(f[i - 1]) <= c
          /\ \/ Elements(f[i - 1]) = Leads(i - 1) /\ Met(i - 1)
             \/ Len(f[i - 1]) = c /\ Some(i - 1)
      <3> HIDE DEF Leads, Met, Some
      <3> QED
        BY <1>4
    <2>6. Some(i - 1) => Some(i) \/ f[i] # f[i - 1]
      BY <2>1
    <2>7. \A e \in Elements(f[i - 1]) : \E j \in 1..(i - 1) : e = q[j]
      <3>1. \E p \in 0..(i - 1) : Elements(f[i - 1]) = Leads(p)
        <4>1. i - 1 \in 0..(i - 1)
          BY <2>1
        <4> HIDE DEF Leads
        <4> QED
          BY <2>5, <4>1
      <3>2. PICK p \in 0..(i - 1) : Elements(f[i - 1]) = Leads(p)
        BY <3>1
      <3>3. \A j \in 1..p : j \in 1..(i - 1)
        BY <2>1
      <3> QED
        BY <3>2, <3>3
    <2>8. q[i] \notin Elements(f[i - 1])
      BY <1>2, <2>1, <2>7 DEF Distinct
    <2>9. Takes(f[i - 1], q[i]) <=> Len(f[i - 1]) < c /\ \A e \in Elements(f[i - 1]) : g[e] # g[q[i]]
      BY <2>2, <2>3, <2>5, <2>8 DEF Greedy
    <2>10. Leads(i) = IF Lead(i) THEN Leads(i - 1) \cup {q[i]} ELSE Leads(i - 1)
      <3>1. {b \in 1..i : Lead(b)} = {b \in 1..(i - 1) : Lead(b)} \cup (IF Lead(i) THEN {i} ELSE {})
        BY <2>1
      <3> HIDE DEF Lead
      <3> QED
        BY <3>1
    <2>11. CASE Len(f[i - 1]) = c /\ Some(i - 1)
      <3>1. f[i] = f[i - 1]
        BY <1>1, <2>4, <2>9, <2>11
      <3>2. Some(i)
        BY <2>6, <2>11, <3>1
      <3> HIDE DEF Leads, Met, Some
      <3> QED
        BY <2>1, <2>5, <2>11, <3>1, <3>2
    <2>12. CASE Len(f[i - 1]) < c /\ Elements(f[i - 1]) = Leads(i - 1) /\ Met(i - 1)
      <3>1. Lead(i) <=> \A e \in Elements(f[i - 1]) : g[e] # g[q[i]]
        <4>1. ASSUME NEW e \in Elements(f[i - 1]), g[e] = g[q[i]] PROVE ~Lead(i)
          BY <2>7, <4>1
        <4>2. ASSUME NEW a \in 1..(i - 1), g[q[a]] = g[q[i]]
              PROVE  \E e \in Elements(f[i - 1]) : g[e] = g[q[i]]
          BY <2>12, <4>2
        <4> QED
          BY <4>1, <4>2
      <3>2. CASE Takes(f[i - 1], q[i])
        <4>1. f[i] = Append(f[i - 1], q[i])
          BY <1>1, <3>2
        <4>2. Elements(f[i]) = Elements(f[i - 1]) \cup {q[i]}
          BY <2>2, <2>3, <4>1, AppendElements
        <4>3. Len(f[i]) = Len(f[i - 1]) + 1
          BY <2>2, <2>3, <4>1
        <4>4. Elements(f[i]) = Leads(i)
          BY <2>9, <2>10, <2>12, <3>1, <3>2, <4>2
        <4>5. Met(i)
          BY <2>1, <2>12, <4>2
        <4>6. OneOfEach(g, f[i])
          <5>1. \A a \in 1..Len(f[i - 1]) : f[i][a] = f[i - 1][a] /\ f[i - 1][a] \in Elements(f[i - 1])
            BY <2>2, <2>3, <4>1 DEF Elements
          <5>2. f[i][Len(f[i])] = q[i]
            BY <2>2, <2>3, <4>1, <4>3
          <5>3. \A a \in 1..Len(f[i]) : a = Len(f[i]) \/ a \in 1..Len(f[i - 1])
            BY <2>4, <4>3
          <5>4. \A a \in 1..Len(f[i - 1]) : g[f[i][a]] # g[q[i]]
            BY <2>9, <3>2, <5>1
          <5> QED
            BY <2>5, <5>1, <5>2, <5>3, <5>4 DEF OneOfEach
        <4>7. Len(f[i]) <= c
          BY <2>4, <2>12, <4>3
        <4> HIDE DEF Leads, Met, Some
        <4> QED
          BY <2>1, <4>4, <4>5, <4>6, <4>7
      <3>3. CASE ~Takes(f[i - 1], q[i])
        <4>1. f[i] = f[i - 1]
          BY <1>1, <3>3
        <4>2. ~Lead(i)
          BY <2>9, <2>12, <3>1, <3>3
        <4>3. Elements(f[i]) = Leads(i)
          BY <2>10, <2>12, <4>1, <4>2
        <4>4. Met(i)
          <5>1. \E e \in Elements(f[i - 1]) : g[e] = g[q[i]]
            BY <3>1, <4>2
          <5> QED
            BY <2>1, <2>12, <4>1, <5>1
        <4> HIDE DEF Leads, Met, Some
        <4> QED
          BY <2>1, <2>5, <4>1, <4>3, <4>4
      <3> QED
        BY <3>2, <3>3
    <2>13. Elements(f[i - 1]) = Leads(i - 1) => Some(i - 1)
      <3>1. i - 1 \in 0..(i - 1)
        BY <2>1
      <3> HIDE DEF Leads
      <3> QED
        BY <3>1
    <2> HIDE DEF Leads, Met, Some, Good
    <2> QED
      BY <2>4, <2>5, <2>11, <2>12, <2>13
  <1>5. Len(q) \in Good
    <2> HIDE DEF Good
    <2>1. \A i \in 0..Len(q) : i \in Good
      BY <1>2, <1>3, <1>4, LoopInduction
    <2> QED
      BY <1>2, <2>1
  <1>6. /\ Len(f[Len(q)]) <= c
        /\ Elements(f[Len(q)]) = Leads(Len(q)) \/ (Len(f[Len(q)]) = c /\ Some(Len(q)))
    <2> HIDE DEF Leads, Met, Some
    <2> QED
      BY <1>5
  <1>7. \E p \in 0..Len(q) : Elements(f[Len(q)]) = Leads(p) /\ (p = Len(q) \/ Len(f[Len(q)]) = c)
    <2>1. Len(q) \in 0..Len(q)
      BY <1>2
    <2> HIDE DEF Leads
    <2> QED
      BY <1>6, <2>1
  <1> QED
    BY <1>1, <1>6, <1>7

\* The ranking of a key is a total order of the nodes.
LEMMA EarlierIsOrder ==
    ASSUME NEW k \in Keys
    PROVE  /\ \A x, y : ~(Earlier(k, x, y) /\ Earlier(k, y, x))
           /\ \A x, y, z : Earlier(k, x, y) /\ Earlier(k, y, z) => Earlier(k, x, z)
           /\ \A x, y \in NodeIds : x = y \/ Earlier(k, x, y) \/ Earlier(k, y, x)
  <1> DEFINE r == Rank[k]
  <1>1. r \in Seq(NodeIds) /\ Distinct(r) /\ Elements(r) = NodeIds
    BY RankIs
  <1>2. Len(r) \in Nat /\ DOMAIN r = 1..Len(r)
    BY <1>1
  <1>3. \A x, y : Earlier(k, x, y) <=> \E i, j \in 1..Len(r) : i < j /\ r[i] = x /\ r[j] = y
    BY DEF Earlier
  <1>4. \A i, j \in 1..Len(r) : r[i] = r[j] => i = j
    BY <1>1 DEF Distinct
  <1>5. \A x \in NodeIds : \E i \in 1..Len(r) : r[i] = x
    BY <1>1, <1>2 DEF Elements
  <1> HIDE DEF r
  <1>6. ASSUME NEW x, NEW y, Earlier(k, x, y), Earlier(k, y, x) PROVE FALSE
    <2>1. PICK i, j \in 1..Len(r) : i < j /\ r[i] = x /\ r[j] = y
      BY <1>3, <1>6
    <2>2. PICK a, b \in 1..Len(r) : a < b /\ r[a] = y /\ r[b] = x
      BY <1>3, <1>6
    <2> QED
      BY <1>4, <2>1, <2>2
  <1>7. ASSUME NEW x, NEW y, NEW z, Earlier(k, x, y), Earlier(k, y, z) PROVE Earlier(k, x, z)
    <2>1. PICK i, j \in 1..Len(r) : i < j /\ r[i] = x /\ r[j] = y
      BY <1>3, <1>7
    <2>2. PICK a, b \in 1..Len(r) : a < b /\ r[a] = y /\ r[b] = z
      BY <1>3, <1>7
    <2>3. i < b
      BY <1>2, <1>4, <2>1, <2>2
    <2> QED
      BY <1>3, <2>1, <2>2, <2>3
  <1>8. ASSUME NEW x \in NodeIds, NEW y \in NodeIds, x # y PROVE Earlier(k, x, y) \/ Earlier(k, y, x)
    <2>1. PICK i \in 1..Len(r) : r[i] = x
      BY <1>5
    <2>2. PICK j \in 1..Len(r) : r[j] = y
      BY <1>5
    <2>3. i < j \/ j < i
      BY <1>8, <2>1, <2>2
    <2> QED
      BY <1>3, <2>1, <2>2, <2>3
  <1> QED
    BY <1>6, <1>7, <1>8

\* q has the nodes of E in the order of their ranks.
InRank(k, E, q) ==
    /\ Len(q) \in Nat /\ E = {q[i] : i \in 1..Len(q)}
    /\ \A i, j \in 1..Len(q) : i < j <=> Earlier(k, q[i], q[j])

\* The eligible nodes are tried in the order of their ranks.
LEMMA RankedInOrder ==
    ASSUME NEW k \in Keys, NEW E \in SUBSET NodeIds, NEW q \in Seq(NodeIds), Distinct(q), Elements(q) = E,
           InOrder(q, Rank[k])
    PROVE  InRank(k, E, q)
  <1>2. Len(q) \in Nat /\ E = {q[i] : i \in 1..Len(q)}
    BY DEF Elements
  <1>3. ASSUME NEW i \in 1..Len(q), NEW j \in 1..Len(q), i < j PROVE Earlier(k, q[i], q[j])
    <2>1. \E a, b \in 1..Len(Rank[k]) : a < b /\ Rank[k][a] = q[i] /\ Rank[k][b] = q[j]
      BY <1>3, Zenon DEF InOrder
    <2> QED
      BY <2>1 DEF Earlier
  <1>4. ASSUME NEW i \in 1..Len(q), NEW j \in 1..Len(q), ~(i < j) PROVE ~Earlier(k, q[i], q[j])
    <2>1. i = j \/ j < i
      BY <1>4
    <2>2. CASE i = j
      BY <2>2, EarlierIsOrder
    <2>3. CASE j < i
      BY <1>3, <2>3, EarlierIsOrder
    <2> QED
      BY <2>1, <2>2, <2>3
  <1> QED
    BY <1>2, <1>3, <1>4 DEF InRank

\* The first pass of a greedy policy takes the first leaders.
LEMMA FirstPassTakesLeaders ==
    ASSUME NEW k \in Keys, NEW E \in SUBSET NodeIds, NEW g, NEW c \in Nat, Greedy(g, c)
    PROVE  FirstOf(k, Elements(FirstPass(Filtered(Rank[k], E))), Leaders(k, g, E), c)
  <1>0. PICK q : /\ q = Filtered(Rank[k], E)
                 /\ q \in Seq(NodeIds) /\ Distinct(q) /\ Elements(q) = E /\ InOrder(q, Rank[k])
    BY RankedIs
  <1> DEFINE s == FirstPass(q)
             S == Elements(s)
             Lead(j) == \A a \in 1..(j - 1) : g[q[a]] # g[q[j]]
             A == Leaders(k, g, E)
  <1>1. /\ q \in Seq(NodeIds) /\ Distinct(q)
        /\ Len(q) \in Nat /\ E = {q[i] : i \in 1..Len(q)}
        /\ \A i, j \in 1..Len(q) : i < j <=> Earlier(k, q[i], q[j])
    <2>1. InRank(k, E, q)
      BY <1>0, RankedInOrder
    <2> QED
      BY <1>0, <2>1 DEF InRank
  <1>2. Len(s) <= c /\ \E p \in 0..Len(q) : /\ S = {q[j] : j \in {b \in 1..p : Lead(b)}}
                                            /\ p = Len(q) \/ Len(s) = c
    BY <1>1, FirstPassIsGreedy
  <1>3. PICK p \in 0..Len(q) : /\ S = {q[j] : j \in {b \in 1..p : Lead(b)}}
                               /\ p = Len(q) \/ Len(s) = c
    BY <1>2
  <1>4. Cardinality(S) = Len(s)
    BY <1>1, FirstPassIs, DistinctLength
  <1>5. \A j \in 1..Len(q) : Lead(j) <=> q[j] \in A
    <2> SUFFICES ASSUME NEW j \in 1..Len(q) PROVE Lead(j) <=> q[j] \in A
      OBVIOUS
    <2>1. q[j] \in E
      BY <1>1
    <2>2. ASSUME NEW a \in 1..(j - 1) PROVE q[a] \in E /\ Earlier(k, q[a], q[j])
      <3>1. a \in 1..Len(q) /\ a < j
        BY <1>1
      <3> QED
        BY <1>1, <3>1
    <2>3. ASSUME NEW y \in E, Earlier(k, y, q[j]) PROVE \E a \in 1..(j - 1) : y = q[a]
      <3>1. PICK a \in 1..Len(q) : y = q[a]
        BY <1>1
      <3>2. a < j
        BY <1>1, <2>3, <3>1
      <3>3. a \in 1..(j - 1)
        BY <1>1, <3>2
      <3> QED
        BY <3>1, <3>3
    <2> QED
      BY <2>1, <2>2, <2>3 DEF Leaders
  <1> HIDE DEF Lead, A, s
  <1>6. \A n \in A : \E j \in 1..Len(q) : n = q[j]
    BY <1>1 DEF A, Leaders
  <1>7. \A j \in 1..p : j \in 1..Len(q)
    BY <1>1
  <1>8. S \subseteq A
    BY <1>3, <1>5, <1>7
  <1>9. ASSUME NEW x \in S, NEW a \in A \ S PROVE Earlier(k, x, a)
    <2>1. PICK i \in 1..p : x = q[i]
      BY <1>3
    <2>2. PICK j \in 1..Len(q) : a = q[j] /\ Lead(j)
      BY <1>5, <1>6
    <2>3. j \notin 1..p
      BY <1>3, <2>2
    <2>4. i \in 1..Len(q) /\ i < j
      BY <1>1, <2>3
    <2> QED
      BY <1>1, <2>1, <2>2, <2>4
  <1>10. p = Len(q) => S = A
    BY <1>3, <1>5, <1>6, <1>8
  <1> QED
    BY <1>0, <1>2, <1>3, <1>4, <1>8, <1>9, <1>10 DEF FirstOf, s, A

\* A node that goes away makes at most one other node a leader, which ranks after it.
LEMMA LeadersKept ==
    ASSUME NEW k \in Keys, NEW E \in SUBSET NodeIds, NEW x \in E, NEW g
    PROVE  LET A == Leaders(k, g, E)
               B == Leaders(k, g, E \ {x})
           IN  /\ A \ {x} \subseteq B /\ x \notin B
               /\ B \subseteq A \/ \E z : B \subseteq A \cup {z} /\ x \in A /\ Earlier(k, x, z)
  <1> DEFINE A == Leaders(k, g, E)
             B == Leaders(k, g, E \ {x})
  <1>1. A \ {x} \subseteq B /\ x \notin B
    BY DEF Leaders
  <1>2. ASSUME NEW z \in B \ A PROVE x \in A /\ Earlier(k, x, z) /\ g[x] = g[z]
    <2>1. PICK y \in E : Earlier(k, y, z) /\ g[y] = g[z]
      BY <1>2 DEF Leaders
    <2>2. y = x
      BY <1>2, <2>1 DEF Leaders
    <2>3. ASSUME NEW w \in E, Earlier(k, w, x), g[w] = g[x] PROVE FALSE
      <3>1. Earlier(k, w, z) /\ w # x
        BY <2>1, <2>2, <2>3, EarlierIsOrder
      <3> QED
        BY <1>2, <2>1, <2>2, <2>3, <3>1 DEF Leaders
    <2> QED
      BY <2>1, <2>2, <2>3 DEF Leaders
  <1>3. ASSUME NEW y \in B \ A, NEW z \in B \ A PROVE y = z
    <2>1. g[y] = g[z] /\ y \in NodeIds /\ z \in NodeIds
      BY <1>2, <1>3 DEF Leaders
    <2>2. ~Earlier(k, y, z) /\ ~Earlier(k, z, y)
      BY <1>3, <2>1 DEF Leaders
    <2> QED
      BY <2>1, <2>2, EarlierIsOrder
  <1> HIDE DEF A, B
  <1>4. B \subseteq A \/ \E z : B \subseteq A \cup {z} /\ x \in A /\ Earlier(k, x, z)
    <2>1. SUFFICES ASSUME NEW z \in B \ A PROVE B \subseteq A \cup {z} /\ x \in A /\ Earlier(k, x, z)
      OBVIOUS
    <2> QED
      BY <1>2, <1>3, <2>1
  <1> QED
    BY <1>1, <1>4 DEF A, B

\* One member of a finite set against another.
LEMMA Exchanged ==
    ASSUME NEW T, IsFiniteSet(T), NEW x \in T, NEW z, NEW R, R \subseteq (T \ {x}) \cup {z}
    PROVE  IsFiniteSet(R) /\ Cardinality(R) \in Nat /\ Cardinality(T) \in Nat /\ Cardinality(R) <= Cardinality(T)
  <1>1. IsFiniteSet(T \ {x}) /\ Cardinality(T \ {x}) = Cardinality(T) - 1
    BY FS_RemoveElement
  <1>2. /\ IsFiniteSet((T \ {x}) \cup {z})
        /\ Cardinality((T \ {x}) \cup {z}) = IF z \in T \ {x} THEN Cardinality(T \ {x}) ELSE Cardinality(T \ {x}) + 1
    BY <1>1, FS_AddElement
  <1>3. Cardinality(T) \in Nat
    BY FS_CardinalityType
  <1>4. IsFiniteSet(R) /\ Cardinality(R) <= Cardinality((T \ {x}) \cup {z})
    BY <1>2, FS_Subset
  <1>5. Cardinality(R) \in Nat
    BY <1>4, FS_CardinalityType
  <1> QED
    BY <1>1, <1>2, <1>3, <1>4, <1>5

\* A part of a finite set without one of its members.
LEMMA Smaller ==
    ASSUME NEW T, IsFiniteSet(T), NEW x \in T, NEW R, R \subseteq T \ {x}
    PROVE  IsFiniteSet(R) /\ Cardinality(R) \in Nat /\ Cardinality(T) \in Nat /\ Cardinality(R) < Cardinality(T)
  <1>1. IsFiniteSet(T \ {x}) /\ Cardinality(T \ {x}) = Cardinality(T) - 1
    BY FS_RemoveElement
  <1>2. IsFiniteSet(R) /\ Cardinality(R) <= Cardinality(T \ {x})
    BY <1>1, FS_Subset
  <1>3. Cardinality(T) \in Nat /\ Cardinality(R) \in Nat
    BY <1>2, FS_CardinalityType
  <1> QED
    BY <1>1, <1>2, <1>3

\* The first members of A stay the first ones when x leaves A and a later z enters.
LEMMA FirstOfKept ==
    ASSUME NEW k \in Keys, NEW c \in Nat, NEW A, IsFiniteSet(A), NEW B, NEW S, NEW R, NEW x,
           FirstOf(k, S, A, c), FirstOf(k, R, B, c), A \ {x} \subseteq B, x \notin B,
           B \subseteq A \/ \E z : B \subseteq A \cup {z} /\ x \in A /\ Earlier(k, x, z)
    PROVE  S \ {x} \subseteq R /\ Cardinality(R) <= Cardinality(S)
  <1>1. /\ S \subseteq A /\ \A s \in S, a \in A \ S : Earlier(k, s, a)
        /\ Cardinality(S) <= c /\ (Cardinality(S) = c \/ S = A)
    BY DEF FirstOf
  <1>2. /\ R \subseteq B /\ \A s \in R, a \in B \ R : Earlier(k, s, a)
        /\ Cardinality(R) <= c /\ (Cardinality(R) = c \/ R = B)
    BY DEF FirstOf
  <1>3. IsFiniteSet(S) /\ Cardinality(S) \in Nat
    BY <1>1, FS_Subset, FS_CardinalityType
  <1>4. ASSUME NEW y \in S, y # x, y \notin R PROVE FALSE
    <2>1. y \in B \ R
      BY <1>1, <1>4
    <2>2. Cardinality(R) = c /\ \A s \in R : Earlier(k, s, y)
      BY <1>2, <2>1
    <2>3. ASSUME NEW s \in R, s \in A PROVE s \in (S \ {x}) \ {y}
      <3>1. s # x /\ s # y
        BY <1>2, <2>1, <2>3
      <3>2. ASSUME s \notin S PROVE FALSE
        BY <1>1, <1>4, <2>2, <2>3, <3>2, EarlierIsOrder
      <3> QED
        BY <3>1, <3>2
    <2>4. CASE R \subseteq A
      <3>1. R \subseteq S \ {y}
        BY <2>3, <2>4
      <3>2. Cardinality(R) < Cardinality(S) /\ Cardinality(R) \in Nat
        BY <1>3, <1>4, <3>1, Smaller
      <3> QED
        BY <1>1, <1>3, <2>2, <3>2
    <2>5. CASE ~(R \subseteq A)
      <3>1. PICK z : B \subseteq A \cup {z} /\ x \in A /\ Earlier(k, x, z)
        BY <1>2, <2>5
      <3>2. z \in R
        BY <1>2, <2>5, <3>1
      <3>3. Earlier(k, x, y)
        BY <2>2, <3>1, <3>2, EarlierIsOrder
      <3>4. x \in S
        BY <1>1, <1>4, <3>1, <3>3, EarlierIsOrder
      <3> DEFINE T == S \ {y}
      <3>5. x \in T /\ R \subseteq (T \ {x}) \cup {z}
        BY <1>2, <1>4, <2>3, <3>1, <3>4
      <3>6. /\ IsFiniteSet(T) /\ Cardinality(T) < Cardinality(S) /\ Cardinality(T) \in Nat
        BY <1>3, <1>4, Smaller
      <3> HIDE DEF T
      <3>7. Cardinality(R) <= Cardinality(T) /\ Cardinality(R) \in Nat
        <4>1. IsFiniteSet(T) /\ x \in T
          BY <3>5, <3>6
        <4>2. R \subseteq (T \ {x}) \cup {z}
          BY <3>5
        <4> QED
          BY <4>1, <4>2, Exchanged
      <3> QED
        BY <1>1, <1>3, <2>2, <3>6, <3>7
    <2> QED
      BY <2>4, <2>5
  <1>5. CASE Cardinality(S) = c
    BY <1>2, <1>4, <1>5
  <1>6. CASE S = A
    <2>1. CASE R \subseteq A
      <3>1. Cardinality(R) <= Cardinality(S)
        BY <1>3, <1>6, <2>1, FS_Subset
      <3> QED
        BY <1>4, <3>1
    <2>2. CASE ~(R \subseteq A)
      <3>1. PICK z : B \subseteq A \cup {z} /\ x \in A
        BY <1>2, <2>2
      <3>2. R \subseteq (A \ {x}) \cup {z}
        BY <1>2, <3>1
      <3>3. Cardinality(R) <= Cardinality(S)
        BY <1>6, <3>1, <3>2, Exchanged
      <3> QED
        BY <1>4, <3>3
    <2> QED
      BY <2>1, <2>2
  <1> QED
    BY <1>1, <1>5, <1>6

\* What the second pass adds ranks before what it leaves.
LEMMA AddedAreFirst ==
    ASSUME NEW k \in Keys, NEW E \in SUBSET NodeIds,
           NEW y \in Elements(SelectNodes(k, E)), y \notin Elements(FirstPass(Filtered(Rank[k], E))),
           NEW x \in E \ Elements(SelectNodes(k, E))
    PROVE  Earlier(k, y, x)
  <1>0. PICK q : /\ q = Filtered(Rank[k], E)
                 /\ q \in Seq(NodeIds) /\ Distinct(q) /\ Elements(q) = E /\ InOrder(q, Rank[k])
    BY RankedIs
  <1>1. InRank(k, E, q)
    BY <1>0, RankedInOrder
  <1>2. SelectNodes(k, E) = Passes(q) /\ y \notin Elements(FirstPass(q))
    BY <1>0 DEF SelectNodes, Passes
  <1>3. PICK rest, n : rest = Rest(q) /\ n = Added(q)
    OBVIOUS
  <1>4. /\ rest \in Seq(NodeIds) /\ InOrder(rest, q) /\ n \in 0..Len(rest)
        /\ Elements(rest) = E \ Elements(FirstPass(q))
        /\ Elements(Passes(q)) = Elements(FirstPass(q)) \cup {rest[i] : i \in 1..n}
    BY <1>0, <1>3, PassesAre
  <1>5. Len(rest) \in Nat /\ DOMAIN rest = 1..Len(rest)
    BY <1>4
  <1>6. PICK a \in 1..n : y = rest[a]
    BY <1>2, <1>4
  <1>7. x \in Elements(rest) /\ \A i \in 1..n : x # rest[i]
    BY <1>2, <1>4
  <1>8. PICK b \in 1..Len(rest) : x = rest[b]
    BY <1>5, <1>7 DEF Elements
  <1>9. a \in 1..Len(rest) /\ a < b
    BY <1>4, <1>5, <1>7, <1>8
  <1>10. \E i, j \in 1..Len(q) : i < j /\ rest[a] = q[i] /\ rest[b] = q[j]
    <2>1. InOrder(rest, q)
      BY <1>4
    <2> QED
      BY <1>9, <2>1, Zenon DEF InOrder
  <1> QED
    BY <1>1, <1>6, <1>8, <1>10 DEF InRank

\* The placement contains what the first pass took, and has the size that it should.
LEMMA FirstSelected ==
    ASSUME NEW k \in Keys, NEW E \in SUBSET NodeIds
    PROVE  LET T == Elements(SelectNodes(k, E))
           IN  /\ Elements(FirstPass(Filtered(Rank[k], E))) \subseteq T /\ T \subseteq E
               /\ Cardinality(T) = Least(ReplicationFactor, Cardinality(E))
               /\ IsFiniteSet(E) /\ Cardinality(E) \in Nat
  <1>0. PICK q, sel : q = Filtered(Rank[k], E) /\ q \in Seq(NodeIds) /\ Distinct(q) /\ sel = SelectNodes(k, E)
    BY RankedIs
  <1>1. sel = Passes(q)
    BY <1>0 DEF SelectNodes, Passes
  <1>2. Elements(FirstPass(q)) \subseteq Elements(sel)
    BY <1>0, <1>1, PassesAre
  <1>3. /\ sel \in Seq(NodeIds) /\ Distinct(sel) /\ Elements(sel) \subseteq E
        /\ IsFiniteSet(E) /\ Cardinality(E) \in Nat
        /\ Len(sel) = Least(ReplicationFactor, Cardinality(E))
    BY <1>0, SelectedAre
  <1>4. Cardinality(Elements(sel)) = Len(sel)
    BY <1>3, DistinctLength
  <1> QED
    BY <1>0, <1>2, <1>3, <1>4

\* When a node goes away only its own copies move: for any nodes, ranks, labels and
\* factor, if the policy has one label or asks for one value of each.
THEOREM OnlyLostCopiesMove == WalkSpec => []PlacementIsStable
  <1>1. ASSUME WalkTypeOK PROVE PlacementIsStable
    <2> SUFFICES ASSUME StablePolicy, NEW k \in Keys, NEW x \in eligible,
                        NEW y \in Elements(SelectNodes(k, eligible)), y # x,
                        y \notin Elements(SelectNodes(k, eligible \ {x}))
                 PROVE  FALSE
      BY DEF PlacementIsStable, StablePolicy
    <2>1. PICK g, c : c \in Nat /\ Greedy(g, c)
      BY StableIsGreedy
    <2>2. PICK D : D = eligible \ {x}
      OBVIOUS
    <2>3. eligible \in SUBSET NodeIds /\ D \in SUBSET NodeIds
      BY <1>1, <2>2 DEF WalkTypeOK
    <2> DEFINE S == Elements(FirstPass(Filtered(Rank[k], eligible)))
               R == Elements(FirstPass(Filtered(Rank[k], D)))
               T == Elements(SelectNodes(k, eligible))
               U == Elements(SelectNodes(k, D))
               A == Leaders(k, g, eligible)
               B == Leaders(k, g, D)
    <2>4. FirstOf(k, S, A, c) /\ FirstOf(k, R, B, c)
      BY <2>1, <2>3, FirstPassTakesLeaders
    <2>5. /\ A \ {x} \subseteq B /\ x \notin B
          /\ B \subseteq A \/ \E z : B \subseteq A \cup {z} /\ x \in A /\ Earlier(k, x, z)
      BY <2>2, <2>3, LeadersKept
    <2>6. /\ S \subseteq T /\ T \subseteq eligible /\ Cardinality(T) = Least(ReplicationFactor, Cardinality(eligible))
          /\ IsFiniteSet(eligible) /\ Cardinality(eligible) \in Nat
      BY <2>3, FirstSelected
    <2>7. /\ R \subseteq U /\ U \subseteq D /\ Cardinality(U) = Least(ReplicationFactor, Cardinality(D))
          /\ IsFiniteSet(D) /\ Cardinality(D) \in Nat
      BY <2>3, FirstSelected
    <2>8. \A w \in T \ S, v \in eligible \ T : Earlier(k, w, v)
      BY <2>3, AddedAreFirst
    <2>9. \A w \in U \ R, v \in D \ U : Earlier(k, w, v)
      BY <2>3, AddedAreFirst
    <2>10. IsFiniteSet(A)
      <3>1. A \subseteq eligible
        BY DEF Leaders
      <3> QED
        BY <2>6, <3>1, FS_Subset
    <2>11. y \in T /\ y \notin U
      BY <2>2
    <2> HIDE DEF S, R, T, U, A, B
    <2>12. S \ {x} \subseteq R /\ Cardinality(R) <= Cardinality(S)
      BY <2>1, <2>4, <2>5, <2>10, FirstOfKept
    <2>13. y \in T \ S /\ y \in D \ U
      BY <2>2, <2>6, <2>7, <2>11, <2>12
    <2> DEFINE G == (T \ S) \ {y}
    <2>14. U \subseteq R \cup G
      <3> SUFFICES ASSUME NEW w \in U \ R PROVE w \in G
        OBVIOUS
      <3>1. Earlier(k, w, y) /\ w \in eligible /\ w # x
        BY <2>2, <2>7, <2>9, <2>13
      <3>2. w \in T
        BY <2>8, <2>13, <3>1, EarlierIsOrder
      <3> QED
        BY <2>11, <2>12, <3>1, <3>2
    <2>15. IsFiniteSet(T) /\ IsFiniteSet(S) /\ IsFiniteSet(R) /\ IsFiniteSet(U)
      BY <2>6, <2>7, FS_Subset
    <2>16. IsFiniteSet(G) /\ Cardinality(G) < Cardinality(T) - Cardinality(S) /\ Cardinality(G) \in Nat
      <3>1. IsFiniteSet(T \ S) /\ Cardinality(T \ S) = Cardinality(T) - Cardinality(S)
        <4>1. T \cap S = S
          BY <2>6
        <4>2. IsFiniteSet(T \ S) /\ Cardinality(T \ S) = Cardinality(T) - Cardinality(T \cap S)
          BY <2>15, FS_Difference
        <4> QED
          BY <4>1, <4>2
      <3>2. y \in T \ S
        BY <2>13
      <3> QED
        BY <3>1, <3>2, Smaller
    <2> HIDE DEF G
    <2>17. IsFiniteSet(R \cup G) /\ Cardinality(R \cup G) <= Cardinality(R) + Cardinality(G)
      <3>1. /\ IsFiniteSet(R \cup G)
            /\ Cardinality(R \cup G) = Cardinality(R) + Cardinality(G) - Cardinality(R \cap G)
        BY <2>15, <2>16, FS_Union
      <3>2. IsFiniteSet(R \cap G)
        BY <2>15, FS_Subset
      <3>3. Cardinality(R \cap G) \in Nat /\ Cardinality(R) \in Nat
        BY <2>15, <3>2, FS_CardinalityType
      <3> QED
        BY <2>16, <3>1, <3>3
    <2>18. Cardinality(U) <= Cardinality(R \cup G)
      BY <2>14, <2>17, FS_Subset
    <2>19. /\ Cardinality(U) \in Nat /\ Cardinality(R) \in Nat /\ Cardinality(S) \in Nat
           /\ Cardinality(T) \in Nat /\ Cardinality(R \cup G) \in Nat
      BY <2>15, <2>17, FS_CardinalityType
    <2>20. Cardinality(U) < Cardinality(T)
      BY <2>12, <2>16, <2>17, <2>18, <2>19
    <2>21. Cardinality(U) = Cardinality(D)
      BY <2>6, <2>7, <2>19, <2>20, PolicyAssumption DEF Least
    <2>22. U = D
      BY <2>7, <2>21, FS_Subset
    <2> QED
      BY <2>13, <2>22
  <1> QED
    BY <1>1, WalkTyped, PTL

===============================================================================
