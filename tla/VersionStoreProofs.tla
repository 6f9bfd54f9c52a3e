-------------------------- MODULE VersionStoreProofs --------------------------
(***************************************************************************)
(* An object is never bound to two paths: proved for every set of paths,   *)
(* contents and foreign ids, and for any number of ids, seconds and        *)
(* crashes.                                                                *)
(*                                                                         *)
(* OneBindingPerObject is not inductive.  While an operation is under way, *)
(* the plan that it made under the lock has to be trusted: when it is      *)
(* going to insert a binding, every other path of the object is among the  *)
(* bindings it removes first (PlanIsComplete).  The new object of a put or *)
(* of a copy is bound nowhere because ids are never made twice             *)
(* (ObjectsWereMade).                                                      *)
(*                                                                         *)
(* No branch of a history is lost (HInv, on indexes and plans).  And what  *)
(* is listed can be read, but for what a rename in the same second hides,  *)
(* as long as no crash cut an operation short (RInv, on the plans again).  *)
(* The indexes are well formed (TInv), with a preferred head in each.      *)
(*                                                                         *)
(* A node that imports bundles keeps its names, branches and listings,     *)
(* keeps histories apart and shows what it has imported (SInv and MInv),   *)
(* whatever its peers send, and has well-formed indexes if they send       *)
(* records (XInv).  Last, a confirmed put is visible when it is answered   *)
(* (DInv).                                                                 *)
(***************************************************************************)
EXTENDS ReplicaImport, WellFoundedInduction, TLAPS

\* Only objects whose id was made are bound, or have versions.
ObjectsWereMade ==
    /\ ids \in 0..MaxIds
    /\ bindings = [p \in Paths |-> bindings[p]]
    /\ \A p \in Paths : bindings[p] = Unbound \/ bindings[p].object \in 1..ids
    /\ indexes = [o \in Objects |-> indexes[o]]
    /\ \A o \in Objects : indexes[o] = EmptyIndex \/ o \in 1..ids

\* What a plan says, if it is carried out from the present bindings.
PlanIsSound(plan, made) ==
    /\ plan = Plan(plan.op, plan.path, plan.object, plan.index, plan.unbind, plan.bind,
                   plan.todo, plan.marker)
    /\ plan.path \in Paths
    /\ plan.object \in 1..made
    /\ "marker" \in plan.todo => plan.marker.object \in 1..made
    /\ "bind" \in plan.todo =>
          \A q \in Paths \ {plan.path} : bindings[q].object = plan.object => q \in plan.unbind

PlanIsComplete == pending # Idle => PlanIsSound(pending, ids)

IInv == ObjectsWereMade /\ OneBindingPerObject /\ PlanIsComplete

-------------------------------------------------------------------------------

\* sync_current_state_for_key_from_index removes every other binding of the
\* object before it inserts one.
LEMMA SyncIsSound ==
    ASSUME NEW p \in Paths, NEW made \in Nat, NEW o \in 1..made, NEW op, NEW ix, NEW todo,
           todo \subseteq {"index"}
    PROVE  PlanIsSound(SyncPlan(op, p, o, ix, todo), made)
  <1> DEFINE plan == SyncPlan(op, p, o, ix, todo)
  <1>0. plan = Plan(plan.op, plan.path, plan.object, plan.index, plan.unbind, plan.bind,
                    plan.todo, plan.marker)
    BY DEF SyncPlan, Plan
  <1>1. plan.path = p /\ plan.object = o /\ plan.unbind = SyncUnbind(p, o, ix)
    BY DEF SyncPlan, Plan
  <1>2. /\ "bind" \in plan.todo => SyncBinds(p, o, ix)
        /\ "marker" \notin plan.todo
    BY DEF SyncPlan, Plan
  <1>3. SyncBinds(p, o, ix) => BoundPaths(o) \ {p} \subseteq SyncUnbind(p, o, ix)
    BY DEF SyncBinds, SyncUnbind
  <1>4. \A q \in Paths \ {p} : bindings[q].object = o => q \in BoundPaths(o) \ {p}
    BY DEF BoundPaths
  <1> QED
    BY <1>0, <1>1, <1>2, <1>3, <1>4 DEF PlanIsSound

\* An operation that starts with a sound plan keeps the invariant: nothing is
\* written yet.
LEMMA BeginKeeps ==
    ASSUME IInv, NEW plan, NEW k \in Nat, Begin(plan, k), PlanIsSound(plan, ids + k)
    PROVE  IInv'
  <1>1. /\ ids \in Nat /\ ids' = ids + k /\ ids' \in 0..MaxIds
        /\ bindings' = bindings /\ indexes' = indexes
    BY BoundAssumption DEF IInv, ObjectsWereMade, Begin, durable
  <1>2. pending' = Idle \/ pending' = plan
    BY DEF Begin, Settle
  <1>3. ObjectsWereMade'
    BY <1>1 DEF IInv, ObjectsWereMade
  <1>4. OneBindingPerObject'
    BY <1>1 DEF IInv, OneBindingPerObject, Bound
  <1>5. PlanIsSound(plan, ids + k) => (PlanIsSound(plan, ids))'
    BY <1>1 DEF PlanIsSound
  <1>6. PlanIsComplete'
    BY <1>2, <1>5, <1>1 DEF PlanIsComplete, PlanIsSound
  <1> QED
    BY <1>3, <1>4, <1>6 DEF IInv

\* The object of an operation on p, once its ids are made.
LEMMA ObjectForWasMade ==
    ASSUME ObjectsWereMade, NEW p \in Paths, NEW k \in Nat, Bound(p) \/ k > 0
    PROVE  ObjectFor(p) \in 1..(ids + k)
  BY DEF ObjectsWereMade, ObjectFor, Bound, NewObject

\* An operation that ends in sync_current_state_for_key_from_index.
LEMMA SyncKeeps ==
    ASSUME IInv, NEW p \in Paths, NEW k \in Nat, NEW o \in 1..(ids + k),
           NEW op, NEW ix, NEW todo, todo \subseteq {"index"},
           Begin(SyncPlan(op, p, o, ix, todo), k)
    PROVE  IInv'
  <1>1. ids + k \in Nat
    BY DEF IInv, ObjectsWereMade
  <1>2. PlanIsSound(SyncPlan(op, p, o, ix, todo), ids + k)
    BY <1>1, SyncIsSound
  <1> QED
    BY <1>2, BeginKeeps

\* The second half of a copy or restore keeps one binding per object.
LEMMA CopyToKeeps ==
    ASSUME IInv, NEW q \in Paths, NEW op, NEW c, NEW st, CopyTo(op, q, c, st)
    PROVE  IInv'
  <1>1. PICK ix : Begin(SyncPlan(op, q, ObjectFor(q), ix, {"index"}), 1)
    BY DEF CopyTo
  <1>2. ObjectFor(q) \in 1..(ids + 1)
    BY ObjectForWasMade DEF IInv
  <1> QED
    BY <1>1, <1>2, SyncKeeps

\* A version is found in the object of its path, or in one that has versions.
LEMMA ResolvedWasMade ==
    ASSUME IInv, NEW p \in Paths, NEW v, NEW o \in ResolveVersion(p, v)
    PROVE  o \in 1..ids
  <1>1. v \notin DOMAIN EmptyIndex.versions
    BY DEF EmptyIndex
  <1>2. CASE v \in DOMAIN IndexFor(p).versions
    BY <1>1, <1>2 DEF ResolveVersion, IInv, ObjectsWereMade, IndexFor, Bound
  <1>3. CASE v \notin DOMAIN IndexFor(p).versions
    BY <1>1, <1>3 DEF ResolveVersion, IInv, ObjectsWereMade
  <1> QED
    BY <1>2, <1>3

\* Every operation plans soundly.
LEMMA OperationKeeps ==
    ASSUME IInv, NEW p \in Paths, Operation(p)
    PROVE  IInv'
  <1> USE DEF IInv
  <1>1. ids \in Nat /\ ids + 0 = ids
    BY DEF ObjectsWereMade
  <1>2. ASSUME NEW c, NEW requested, NEW st, Put(p, c, requested, st) PROVE IInv'
    <2>1. PICK ix : Begin(SyncPlan("put", p, ObjectFor(p), ix, {"index"}), 1)
      BY <1>2 DEF Put
    <2> QED
      BY <2>1, ObjectForWasMade, SyncKeeps
  <1>3. ASSUME NEW c, NEW f, Reconcile(p, c, f) PROVE IInv'
    <2>1. PICK ix, todo, k :
            /\ todo \in {{}, {"index"}}
            /\ k \in {0, 1}
            /\ Bound(p) \/ k = 1
            /\ Begin(SyncPlan("reconcile", p, ObjectFor(p), ix, todo), k)
      BY <1>3 DEF Reconcile, IndexFor, EmptyIndex
    <2>2. k \in Nat /\ todo \subseteq {"index"}
      BY <2>1
    <2>3. ObjectFor(p) \in 1..(ids + k)
      BY <2>1, <2>2, ObjectForWasMade
    <2> QED
      BY <2>1, <2>2, <2>3, SyncKeeps
  <1>4. ASSUME NEW requested, NEW st, Tombstone(p, requested, st) PROVE IInv'
    <2>1. PICK ix : Begin(SyncPlan("tombstone", p, ObjectFor(p), ix, {"index"}), 1)
      BY <1>4 DEF Tombstone
    <2> QED
      BY <2>1, ObjectForWasMade, SyncKeeps
  <1>5. ASSUME NEW q \in Paths, Rename(p, q) PROVE IInv'
    <2>1. PICK ix, m, gone :
            /\ Bound(p) /\ ~Bound(q) /\ p # q
            /\ Begin(Plan("rename", q, bindings[p].object, ix, {p}, m,
                          {"index", "bind", "marker"}, [object |-> ids + 2, index |-> gone]), 2)
      BY <1>5 DEF Rename
    <2>2. bindings[p].object \in 1..(ids + 2) /\ ids + 2 \in 1..(ids + 2)
      BY <2>1 DEF ObjectsWereMade, Bound
    <2>3. \A r \in Paths : bindings[r].object = bindings[p].object => r \in {p}
      BY <2>1 DEF OneBindingPerObject
    <2>4. PlanIsSound(Plan("rename", q, bindings[p].object, ix, {p}, m,
                           {"index", "bind", "marker"}, [object |-> ids + 2, index |-> gone]), ids + 2)
      BY <2>2, <2>3 DEF PlanIsSound, Plan
    <2> QED
      BY <2>1, <2>4, BeginKeeps
  <1>6. ASSUME NEW q \in Paths, Copy(p, q) PROVE IInv'
    BY <1>6, CopyToKeeps DEF Copy
  <1>7. ASSUME NEW v, Commit(p, v) PROVE IInv'
    <2>1. Bound(p)
      BY <1>7 DEF Commit, IndexFor, EmptyIndex
    <2>2. PICK ix : Begin(SyncPlan("commit", p, ObjectFor(p), ix, {"index"}), 0)
      BY <1>7 DEF Commit
    <2> QED
      BY <2>1, <2>2, ObjectForWasMade, SyncKeeps
  <1>8. ASSUME NEW v, DeleteVersion(p, v) PROVE IInv'
    <2>1. PICK o \in ResolveVersion(p, v) :
            \E ix : Begin(SyncPlan("delete", p, o, ix, {"index"}), 0)
      BY <1>8 DEF DeleteVersion
    <2>2. o \in 1..(ids + 0)
      BY <1>1, ResolvedWasMade
    <2> QED
      BY <2>1, <2>2, SyncKeeps
  <1>9. ASSUME NEW v, DropReplica(p, v) PROVE IInv'
    <2>1. Bound(p)
      BY <1>9 DEF DropReplica, IndexFor, EmptyIndex
    <2>2. bindings[p].object \in 1..(ids + 0)
      BY <1>1, <2>1 DEF ObjectsWereMade, Bound
    <2>3. PICK ix : Begin(SyncPlan("drop", p, bindings[p].object, ix, {"index"}), 0)
      BY <1>9 DEF DropReplica
    <2> QED
      BY <2>2, <2>3, SyncKeeps
  <1>10. ASSUME NEW v, NEW q \in Paths, Restore(p, v, q) PROVE IInv'
    BY <1>10, CopyToKeeps DEF Restore
  <1> QED
    BY <1>2, <1>3, <1>4, <1>5, <1>6, <1>7, <1>8, <1>9, <1>10 DEF Operation

-------------------------------------------------------------------------------

\* A smaller plan of the same operation is as sound, when the bindings it has
\* removed are gone.
LEMMA WritingKeeps ==
    ASSUME IInv, Writing
    PROVE  IInv'
  <1> DEFINE plan == pending
  <1>0. plan # Idle /\ PlanIsSound(plan, ids) /\ ids' = ids
    BY DEF IInv, PlanIsComplete, Writing, WriteIndex, RemoveBinding, UpsertBinding, WriteMarker
  <1>1. CASE WriteIndex
    <2>1. pending' = Idle \/ pending' = [plan EXCEPT !.todo = @ \ {"index"}]
      BY <1>1 DEF WriteIndex, Settle
    <2>2. bindings' = bindings
      BY <1>1 DEF WriteIndex
    <2>3. ObjectsWereMade'
      BY <1>0, <1>1, <2>2 DEF IInv, ObjectsWereMade, WriteIndex, PlanIsSound
    <2>4. PlanIsComplete'
      BY <1>0, <2>1, <2>2 DEF PlanIsComplete, PlanIsSound, Plan
    <2> QED
      BY <2>2, <2>3, <2>4 DEF IInv, OneBindingPerObject, Bound
  <1>2. ASSUME NEW p \in Paths, RemoveBinding(p) PROVE IInv'
    <2>1. pending' = Idle \/ pending' = [plan EXCEPT !.unbind = @ \ {p}]
      BY <1>2 DEF RemoveBinding, Settle
    <2>2. bindings' = [bindings EXCEPT ![p] = Unbound] /\ indexes' = indexes
      BY <1>2 DEF RemoveBinding
    <2>3. \A q \in Paths : bindings'[q] = IF q = p THEN Unbound ELSE bindings[q]
      BY <2>2 DEF IInv, ObjectsWereMade
    <2>4. ObjectsWereMade'
      BY <1>0, <2>2, <2>3 DEF IInv, ObjectsWereMade
    <2>5. Unbound.object = 0
      BY DEF Unbound
    <2>6. OneBindingPerObject'
      BY <2>3, <2>5 DEF IInv, OneBindingPerObject, ObjectsWereMade, Bound
    <2>7. PlanIsComplete'
      BY <1>0, <2>1, <2>3, <2>5 DEF PlanIsComplete, PlanIsSound, Plan
    <2> QED
      BY <2>4, <2>6, <2>7 DEF IInv
  <1>3. CASE UpsertBinding
    <2>1. pending' = Idle \/ pending' = [plan EXCEPT !.todo = @ \ {"bind"}]
      BY <1>3 DEF UpsertBinding, Settle
    <2>2. /\ bindings' = [bindings EXCEPT ![plan.path] =
                             [object |-> plan.object, manifest |-> plan.bind]]
          /\ indexes' = indexes
      BY <1>3 DEF UpsertBinding
    <2>3. \A q \in Paths \ {plan.path} : bindings[q].object # plan.object
      BY <1>0, <1>3 DEF UpsertBinding, PlanIsSound
    <2>4. /\ bindings'[plan.path].object = plan.object
          /\ \A q \in Paths \ {plan.path} : bindings'[q] = bindings[q]
      BY <1>0, <2>2 DEF IInv, ObjectsWereMade, PlanIsSound
    <2>5. ObjectsWereMade'
      BY <1>0, <2>2, <2>4 DEF IInv, ObjectsWereMade, PlanIsSound
    <2>6. OneBindingPerObject'
      BY <2>3, <2>4 DEF IInv, OneBindingPerObject, Bound
    <2>7. PlanIsComplete'
      BY <1>0, <2>1 DEF PlanIsComplete, PlanIsSound, Plan
    <2> QED
      BY <2>5, <2>6, <2>7 DEF IInv
  <1>4. CASE WriteMarker
    <2>1. pending' = Idle /\ bindings' = bindings
      BY <1>4 DEF WriteMarker
    <2>2. ObjectsWereMade'
      BY <1>0, <1>4 DEF IInv, ObjectsWereMade, WriteMarker, PlanIsSound
    <2> QED
      BY <2>1, <2>2 DEF IInv, OneBindingPerObject, Bound, PlanIsComplete
  <1> QED
    BY <1>1, <1>2, <1>3, <1>4 DEF Writing

\* The invariant of objects, bindings and pending writes is inductive.
LEMMA StepKeeps == IInv /\ [Next]_vars => IInv'
  <1> SUFFICES ASSUME IInv, [Next]_vars PROVE IInv'
    OBVIOUS
  <1>1. CASE Crash \/ Tick
    <2>1. /\ indexes' = indexes /\ bindings' = bindings /\ ids' = ids
          /\ pending' = Idle \/ pending' = pending
      BY <1>1 DEF Crash, Tick, durable
    <2> QED
      BY <2>1 DEF IInv, ObjectsWereMade, OneBindingPerObject, Bound, PlanIsComplete, PlanIsSound
  <1>2. CASE UNCHANGED vars
    BY <1>2 DEF vars, IInv, ObjectsWereMade, OneBindingPerObject, Bound, PlanIsComplete, PlanIsSound
  <1> QED
    BY <1>1, <1>2, WritingKeeps, OperationKeeps DEF Next

\* An empty store satisfies it.
LEMMA InitHolds == Init => IInv
  <1> SUFFICES ASSUME Init PROVE IInv
    OBVIOUS
  <1> QED
    BY BoundAssumption DEF Init, IInv, ObjectsWereMade, OneBindingPerObject, Bound, PlanIsComplete

\* An object is bound to at most one path, in the middle of every operation and
\* after every crash.
THEOREM NamesAreUnique == Spec => []OneBindingPerObject
  <1>1. IInv => OneBindingPerObject
    BY DEF IInv
  <1> QED
    BY <1>1, InitHolds, StepKeeps, PTL DEF Spec

-------------------------------------------------------------------------------
(***************************************************************************)
(* No branch of a history is lost.  The heads that a put or a rename keeps *)
(* up to date contain every leaf only if the version it adds is new to the *)
(* index, which follows from the numbers of the ids made so far; and the   *)
(* indexes that an operation has planned and not yet written have to be as *)
(* good as the ones on disk.                                               *)
(***************************************************************************)

\* Every leaf is a head and the preferred head is the best one.
Whole(ix) ==
    /\ Leaves(ix.versions) \subseteq ix.heads
    /\ ix.preferred = PreferredHead(ix.versions, ix.heads)

\* The versions of an index were made by this node so far, or by peers.
Numbered(vs, made) == \A v \in DOMAIN vs : v.n \in 1..made \cup ForeignIds

Good(ix, made) == Whole(ix) /\ Numbered(ix.versions, made)

HInv ==
    /\ \A o \in Objects : Good(indexes[o], ids)
    /\ pending # Idle => Good(pending.index, ids) /\ Good(pending.marker.index, ids)

\* The index of a new object has no version and no preferred head.
LEMMA EmptyIsGood == ASSUME NEW made PROVE Good(EmptyIndex, made)
  BY DEF Good, Whole, Numbered, EmptyIndex, Leaves, PreferredHead

\* recompute_head_version_ids and choose_preferred_head
LEMMA ReindexedIsGood ==
    ASSUME NEW vs, NEW made, Numbered(vs, made)
    PROVE  Good(Reindexed(vs), made)
  BY DEF Good, Whole, Reindexed, Index

\* The update of the heads that a put, a tombstone and a rename make.
LEMMA WithVersionIsGood ==
    ASSUME NEW ix, NEW v, NEW record, NEW made, Good(ix, made),
           v \notin DOMAIN ix.versions, v.n \in 1..made \cup ForeignIds
    PROVE  Good(WithVersion(ix, v, record), made)
  <1> DEFINE vs == Insert(ix.versions, v, record)
  <1>1. /\ DOMAIN vs = DOMAIN ix.versions \cup {v}
        /\ vs[v] = record
        /\ \A w \in DOMAIN ix.versions : vs[w] = ix.versions[w]
    BY DEF Insert
  <1> HIDE DEF vs
  <1>2. Leaves(vs) \subseteq (ix.heads \ record.parents) \cup {v}
    BY <1>1 DEF Leaves, Good, Whole
  <1>3. Numbered(vs, made)
    BY <1>1 DEF Numbered, Good
  <1> QED
    BY <1>2, <1>3 DEF WithVersion, Index, Good, Whole, vs

\* An index stays good when more ids are made.
LEMMA GoodForLonger ==
    ASSUME NEW ix, NEW m \in Nat, NEW k \in Nat, Good(ix, m)
    PROVE  Good(ix, m + k)
  <1>1. 1..m \subseteq 1..(m + k)
    OBVIOUS
  <1> QED
    BY <1>1 DEF Good, Numbered

\* The index that an operation reads for its path is a good one.
LEMMA IndexForIsGood ==
    ASSUME IInv, HInv, NEW p \in Paths
    PROVE  Good(IndexFor(p), ids)
  <1>1. CASE Bound(p)
    <2>1. bindings[p].object \in Objects
      BY <1>1, BoundAssumption DEF Objects, IInv, ObjectsWereMade, Bound
    <2> QED
      BY <2>1, <1>1 DEF HInv, IndexFor
  <1>2. CASE ~Bound(p)
    BY <1>2, EmptyIsGood DEF IndexFor
  <1> QED
    BY <1>1, <1>2

\* An operation that starts with good indexes leaves good indexes.
LEMMA BeginKeepsGood ==
    ASSUME IInv, HInv, NEW plan, NEW k \in Nat, Begin(plan, k),
           Good(plan.index, ids + k), Good(plan.marker.index, ids + k)
    PROVE  HInv'
  <1>1. /\ ids \in Nat /\ ids' = ids + k /\ indexes' = indexes
        /\ pending' = Idle \/ pending' = plan
    BY DEF IInv, ObjectsWereMade, Begin, Settle, durable
  <1>2. \A o \in Objects : Good(indexes[o], ids + k)
    BY <1>1, GoodForLonger DEF HInv
  <1> QED
    BY <1>1, <1>2 DEF HInv

\* An operation that plans to write a good index keeps all indexes good.
LEMMA SyncKeepsGood ==
    ASSUME IInv, HInv, NEW p, NEW k \in Nat, NEW o, NEW op, NEW ix, NEW todo,
           Good(ix, ids + k), Begin(SyncPlan(op, p, o, ix, todo), k)
    PROVE  HInv'
  <1>1. SyncPlan(op, p, o, ix, todo).index = ix /\ SyncPlan(op, p, o, ix, todo).marker = NoMarker
    BY DEF SyncPlan, Plan
  <1>2. Good(NoMarker.index, ids + k)
    BY EmptyIsGood DEF NoMarker
  <1> QED
    BY <1>1, <1>2, BeginKeepsGood

\* The next id is new to every good index.
LEMMA NextIdIsNew ==
    ASSUME IInv, NEW ix, Good(ix, ids), ids + 1 <= MaxIds, NEW kind
    PROVE  /\ [kind |-> kind, n |-> ids + 1] \notin DOMAIN ix.versions
           /\ ids \in Nat
           /\ Good(ix, ids + 1)
  <1>1. ids \in Nat /\ ids + 1 \notin 1..ids /\ ids + 1 \notin ForeignIds
    BY ForeignAssumption, BoundAssumption DEF IInv, ObjectsWereMade
  <1> QED
    BY <1>1, GoodForLonger DEF Good, Numbered

\* A copy or restore adds its version to the target's index, with new heads.
LEMMA CopyToKeepsGood ==
    ASSUME IInv, HInv, NEW q \in Paths, NEW op, NEW c, NEW st, CopyTo(op, q, c, st)
    PROVE  HInv'
  <1> DEFINE v == [kind |-> op, n |-> ids + 1]
  <1>1. PICK record : Begin(SyncPlan(op, q, ObjectFor(q),
                                Reindexed(Insert(IndexFor(q).versions, v, record)), {"index"}), 1)
    BY DEF CopyTo
  <1>2. ids \in Nat /\ Good(IndexFor(q), ids + 1)
    BY <1>1, IndexForIsGood, NextIdIsNew DEF Begin
  <1>3. Numbered(Insert(IndexFor(q).versions, v, record), ids + 1)
    BY <1>2 DEF Good, Numbered, Insert
  <1> QED
    BY <1>1, <1>3, ReindexedIsGood, SyncKeepsGood

\* A removal leaves an index that is indexed afresh.
LEMMA WithoutIsGood ==
    ASSUME NEW ix, NEW made, Good(ix, made), NEW v
    PROVE  Good(Reindexed(Without(ix.versions, v)), made)
  <1>1. Numbered(Without(ix.versions, v), made)
    BY DEF Good, Numbered, Without
  <1> QED
    BY <1>1, ReindexedIsGood

\* A put, a tombstone or a rename makes version number ids + 1 and k ids.
LEMMA NextVersionIsGood ==
    ASSUME IInv, HInv, NEW p \in Paths, NEW kind, NEW record, NEW k \in {1, 2}, ids + k <= MaxIds
    PROVE  Good(WithVersion(IndexFor(p), [kind |-> kind, n |-> ids + 1], record), ids + k)
  <1> DEFINE v == [kind |-> kind, n |-> ids + 1]
  <1>1. ids \in Nat /\ ids + 1 <= MaxIds /\ ids + 1 \in 1..(ids + 1)
    BY BoundAssumption DEF IInv, ObjectsWereMade
  <1>2. v \notin DOMAIN IndexFor(p).versions /\ Good(IndexFor(p), ids + 1)
    BY <1>1, IndexForIsGood, NextIdIsNew
  <1>3. Good(WithVersion(IndexFor(p), v, record), ids + 1)
    BY <1>1, <1>2, WithVersionIsGood
  <1>4. CASE k = 1
    BY <1>3, <1>4
  <1>5. CASE k = 2
    <2>1. (ids + 1) + 1 = ids + 2
      BY <1>1
    <2> QED
      BY <1>1, <1>3, <1>5, <2>1, GoodForLonger
  <1> QED
    BY <1>4, <1>5

\* Every operation plans good indexes only.
LEMMA OperationKeepsGood ==
    ASSUME IInv, HInv, NEW p \in Paths, Operation(p)
    PROVE  HInv'
  <1>1. ids \in Nat /\ ids + 0 = ids /\ Good(IndexFor(p), ids)
    BY IndexForIsGood DEF IInv, ObjectsWereMade
  <1>2. ASSUME NEW c, NEW requested, NEW st, Put(p, c, requested, st) PROVE HInv'
    <2> DEFINE v == [kind |-> "ver", n |-> ids + 1]
    <2>1. PICK record :
            Begin(SyncPlan("put", p, ObjectFor(p), WithVersion(IndexFor(p), v, record), {"index"}), 1)
      BY <1>2 DEF Put
    <2>2. ids + 1 <= MaxIds
      BY <2>1 DEF Begin
    <2>3. Good(WithVersion(IndexFor(p), v, record), ids + 1)
      BY <2>2, NextVersionIsGood
    <2> QED
      BY <2>1, <2>3, SyncKeepsGood
  <1>3. ASSUME NEW c, NEW f \in ForeignIds, Reconcile(p, c, f) PROVE HInv'
    <2> DEFINE v == [kind |-> "ver", n |-> f]
    <2>1. CASE v \notin DOMAIN IndexFor(p).versions
      <3>1. PICK record, k :
              /\ k \in {0, 1}
              /\ Begin(SyncPlan("reconcile", p, ObjectFor(p),
                                WithVersion(IndexFor(p), v, record), {"index"}), k)
        BY <1>3, <2>1 DEF Reconcile
      <3>2. Good(IndexFor(p), ids + k)
        BY <1>1, <3>1, GoodForLonger
      <3>3. v.n \in 1..(ids + k) \cup ForeignIds
        OBVIOUS
      <3>4. Good(WithVersion(IndexFor(p), v, record), ids + k)
        BY <2>1, <3>2, <3>3, WithVersionIsGood
      <3> QED
        BY <3>1, <3>4, SyncKeepsGood
    <2>2. CASE v \in DOMAIN IndexFor(p).versions
      <3>1. Begin(SyncPlan("reconcile", p, ObjectFor(p), IndexFor(p), {}), 0)
        BY <1>3, <2>2 DEF Reconcile
      <3> QED
        BY <1>1, <3>1, SyncKeepsGood
    <2> QED
      BY <2>1, <2>2
  <1>4. ASSUME NEW requested, NEW st, Tombstone(p, requested, st) PROVE HInv'
    <2> DEFINE v == [kind |-> "tomb", n |-> ids + 1]
    <2>1. PICK record :
            Begin(SyncPlan("tombstone", p, ObjectFor(p),
                           WithVersion(IndexFor(p), v, record), {"index"}), 1)
      BY <1>4 DEF Tombstone
    <2>2. ids + 1 <= MaxIds
      BY <2>1 DEF Begin
    <2>3. Good(WithVersion(IndexFor(p), v, record), ids + 1)
      BY <2>2, NextVersionIsGood
    <2> QED
      BY <2>1, <2>3, SyncKeepsGood
  <1>5. ASSUME NEW q \in Paths, Rename(p, q) PROVE HInv'
    <2> DEFINE v    == [kind |-> "ren", n |-> ids + 1]
               gone == [kind |-> "rename_tomb", n |-> ids + 2]
               plan(m, record, tombstone) ==
                  Plan("rename", q, bindings[p].object, WithVersion(IndexFor(p), v, record), {p}, m,
                       {"index", "bind", "marker"},
                       [object |-> ids + 2, index |-> Reindexed(Insert(<<>>, gone, tombstone))])
    <2>1. PICK m, record, tombstone : Begin(plan(m, record, tombstone), 2)
      BY <1>5 DEF Rename
    <2>2. ids + 2 <= MaxIds
      BY <2>1 DEF Begin
    <2>3. Good(WithVersion(IndexFor(p), v, record), ids + 2)
      BY <2>2, NextVersionIsGood
    <2>4. Numbered(Insert(<<>>, gone, tombstone), ids + 2)
      BY <1>1 DEF Numbered, Insert
    <2>5. Good(Reindexed(Insert(<<>>, gone, tombstone)), ids + 2)
      BY <2>4, ReindexedIsGood
    <2>6. /\ plan(m, record, tombstone).index = WithVersion(IndexFor(p), v, record)
          /\ plan(m, record, tombstone).marker.index = Reindexed(Insert(<<>>, gone, tombstone))
      BY DEF Plan
    <2> QED
      BY <2>1, <2>3, <2>5, <2>6, BeginKeepsGood
  <1>6. ASSUME NEW q \in Paths, Copy(p, q) PROVE HInv'
    BY <1>6, CopyToKeepsGood DEF Copy
  <1>7. ASSUME NEW v, Commit(p, v) PROVE HInv'
    <2> DEFINE ix == IndexFor(p)
               vs == [ix.versions EXCEPT ![v].state = Confirmed]
    <2>1. v \in DOMAIN ix.versions /\ Begin(SyncPlan("commit", p, ObjectFor(p), Index(vs, ix.heads), {"index"}), 0)
      BY <1>7 DEF Commit
    <2>2. DOMAIN vs = DOMAIN ix.versions /\ \A w \in DOMAIN vs : vs[w].parents = ix.versions[w].parents
      OBVIOUS
    <2>3. Good(Index(vs, ix.heads), ids)
      <3> HIDE DEF ix, vs
      <3>1. Good(ix, ids)
        BY <1>1 DEF ix
      <3> QED
        BY <2>2, <3>1 DEF Good, Whole, Numbered, Leaves, Index
    <2> QED
      BY <1>1, <2>1, <2>3, SyncKeepsGood
  <1>8. ASSUME NEW v, DeleteVersion(p, v) PROVE HInv'
    <2>1. PICK o \in ResolveVersion(p, v) :
            Begin(SyncPlan("delete", p, o, Reindexed(Without(indexes[o].versions, v)), {"index"}), 0)
      BY <1>8 DEF DeleteVersion
    <2>2. o \in 1..ids /\ ids <= MaxIds
      BY ResolvedWasMade DEF IInv, ObjectsWereMade
    <2>3. Good(indexes[o], ids)
      BY <2>2, BoundAssumption DEF HInv, Objects, IInv, ObjectsWereMade
    <2> QED
      BY <1>1, <2>1, <2>3, WithoutIsGood, SyncKeepsGood
  <1>9. ASSUME NEW v, DropReplica(p, v) PROVE HInv'
    <2>1. Begin(SyncPlan("drop", p, bindings[p].object,
                         Reindexed(Without(IndexFor(p).versions, v)), {"index"}), 0)
      BY <1>9 DEF DropReplica
    <2> QED
      BY <1>1, <2>1, WithoutIsGood, SyncKeepsGood
  <1>10. ASSUME NEW v, NEW q \in Paths, Restore(p, v, q) PROVE HInv'
    BY <1>10, CopyToKeepsGood DEF Restore
  <1> QED
    BY <1>2, <1>3, <1>4, <1>5, <1>6, <1>7, <1>8, <1>9, <1>10 DEF Operation

\* The writes of a plan store the indexes that it holds.
LEMMA WritingKeepsGood ==
    ASSUME IInv, HInv, Writing
    PROVE  HInv'
  <1>0. /\ pending # Idle /\ PlanIsSound(pending, ids) /\ ids' = ids
        /\ Good(pending.index, ids) /\ Good(pending.marker.index, ids)
    BY DEF IInv, HInv, PlanIsComplete, Writing, WriteIndex, RemoveBinding, UpsertBinding, WriteMarker
  <1>1. CASE WriteIndex
    <2>1. pending' = Idle \/ pending' = [pending EXCEPT !.todo = @ \ {"index"}]
      BY <1>1 DEF WriteIndex, Settle
    <2>2. pending' # Idle => pending'.index = pending.index /\ pending'.marker = pending.marker
      BY <1>0, <2>1 DEF PlanIsSound, Plan
    <2>3. \A o \in Objects : indexes'[o] \in {indexes[o], pending.index}
      BY <1>1 DEF WriteIndex, IInv, ObjectsWereMade
    <2> QED
      BY <1>0, <2>2, <2>3 DEF HInv
  <1>2. ASSUME NEW p \in Paths, RemoveBinding(p) PROVE HInv'
    <2>1. pending' = Idle \/ pending' = [pending EXCEPT !.unbind = @ \ {p}]
      BY <1>2 DEF RemoveBinding, Settle
    <2>2. pending' # Idle => pending'.index = pending.index /\ pending'.marker = pending.marker
      BY <1>0, <2>1 DEF PlanIsSound, Plan
    <2> QED
      BY <1>0, <1>2, <2>2 DEF HInv, RemoveBinding
  <1>3. CASE UpsertBinding
    <2>1. pending' = Idle \/ pending' = [pending EXCEPT !.todo = @ \ {"bind"}]
      BY <1>3 DEF UpsertBinding, Settle
    <2>2. pending' # Idle => pending'.index = pending.index /\ pending'.marker = pending.marker
      BY <1>0, <2>1 DEF PlanIsSound, Plan
    <2> QED
      BY <1>0, <1>3, <2>2 DEF HInv, UpsertBinding
  <1>4. CASE WriteMarker
    <2>1. \A o \in Objects : indexes'[o] \in {indexes[o], pending.marker.index}
      BY <1>4 DEF WriteMarker, IInv, ObjectsWereMade
    <2> QED
      BY <1>0, <1>4, <2>1 DEF HInv, WriteMarker
  <1> QED
    BY <1>1, <1>2, <1>3, <1>4 DEF Writing

\* The invariant of heads and preferred heads is inductive.
LEMMA StepKeepsGood == IInv /\ HInv /\ [Next]_vars => HInv'
  <1> SUFFICES ASSUME IInv, HInv, [Next]_vars PROVE HInv'
    OBVIOUS
  <1>1. CASE Crash \/ Tick
    <2>1. /\ indexes' = indexes /\ ids' = ids
          /\ pending' = Idle \/ pending' = pending
      BY <1>1 DEF Crash, Tick, durable
    <2> QED
      BY <2>1 DEF HInv
  <1>2. CASE UNCHANGED vars
    BY <1>2 DEF vars, HInv
  <1> QED
    BY <1>1, <1>2, WritingKeepsGood, OperationKeepsGood DEF Next

\* The indexes of an empty store are good.
LEMMA InitIsGood == Init => HInv
  BY EmptyIsGood DEF Init, HInv

\* Every version that nothing follows is a head of its index, and the preferred
\* head is the one choose_preferred_head picks, whatever the operations and
\* crashes before.
THEOREM BranchesAreKept == Spec => []NoBranchLost
  <1>1. HInv => NoBranchLost
    BY DEF HInv, NoBranchLost, Good, Whole
  <1> QED
    BY <1>1, InitHolds, StepKeeps, InitIsGood, StepKeepsGood, PTL DEF Spec

-------------------------------------------------------------------------------
(***************************************************************************)
(* A listed path can be read.  A plan that is carried out to its end       *)
(* leaves bound only what its index shows, since what a dead index has     *)
(* bound is unbound first; the new object of a rename's tombstone is bound *)
(* nowhere.                                                                *)
(***************************************************************************)

\* The index lets p, which is bound with the manifest m, be read.
Shows(ix, p, m) ==
    \/ Live(ix)
    \/ \E v \in ix.heads : v.kind = "ren" /\ ix.versions[v].path = p /\ ix.versions[v].manifest = m

PlanShows(plan) ==
    /\ "index" \notin plan.todo => indexes[plan.object] = plan.index
    /\ "bind" \in plan.todo => Shows(plan.index, plan.path, plan.bind)
    /\ "marker" \in plan.todo => /\ plan.marker.object # plan.object
                                 /\ \A q \in Paths : Bound(q) => bindings[q].object # plan.marker.object
    /\ \A q \in Paths : Bound(q) /\ bindings[q].object = plan.object =>
          q \in plan.unbind \/ Shows(plan.index, q, bindings[q].manifest)

\* What no operation is about to change can be read already.
OthersShow ==
    \A q \in Paths : Bound(q) /\ (pending = Idle \/ bindings[q].object # pending.object) =>
        Shows(indexes[bindings[q].object], q, bindings[q].manifest)

RInv ==
    /\ crashes \in Nat
    /\ crashes = 0 => OthersShow /\ (pending # Idle => PlanShows(pending))

\* When no operation is under way, everything that is bound can be read.
LEMMA IdleShows ==
    ASSUME RInv, pending = Idle, crashes = 0
    PROVE  \A q \in Paths : Bound(q) => Shows(indexes[bindings[q].object], q, bindings[q].manifest)
  BY DEF RInv, OthersShow

\* An operation begins and has written nothing yet.
LEMMA BeginShows ==
    ASSUME IInv, RInv, NEW plan, NEW k, Begin(plan, k), PlanIsSound(plan, ids + k),
           crashes = 0 => PlanShows(plan)
    PROVE  RInv'
  <1>1. UNCHANGED <<indexes, bindings, crashes>> /\ pending = Idle
    BY DEF Begin, durable
  <1>2. SUFFICES ASSUME crashes = 0
                 PROVE  OthersShow' /\ (pending' # Idle => PlanShows(pending)')
    BY <1>1 DEF RInv
  <1>3. \A q \in Paths : Bound(q) => Shows(indexes[bindings[q].object], q, bindings[q].manifest)
    BY <1>1, <1>2, IdleShows
  <1>4. OthersShow'
    BY <1>1, <1>3 DEF OthersShow, Bound
  <1>5. ASSUME pending' # Idle PROVE PlanShows(pending)'
    <2>1. pending' = plan
      BY <1>5 DEF Begin, Settle
    <2> QED
      BY <1>1, <1>2, <2>1 DEF PlanShows, Bound
  <1> QED
    BY <1>4, <1>5

\* sync_current_state_for_key_from_index binds only what is live, and unbinds
\* every path of what is not.
LEMMA SyncShows ==
    ASSUME NEW p, NEW o, NEW op, NEW ix, NEW todo, todo \subseteq {"index"},
           "index" \in todo \/ indexes[o] = ix
    PROVE  PlanShows(SyncPlan(op, p, o, ix, todo))
  <1> DEFINE plan == SyncPlan(op, p, o, ix, todo)
  <1>1. /\ plan.object = o /\ plan.index = ix /\ plan.unbind = SyncUnbind(p, o, ix)
        /\ "index" \in plan.todo <=> "index" \in todo
        /\ "bind" \in plan.todo => SyncBinds(p, o, ix)
        /\ "marker" \notin plan.todo
    BY DEF SyncPlan, Plan
  <1> HIDE DEF plan
  <1>2. "bind" \in plan.todo => Live(ix)
    BY <1>1 DEF SyncBinds
  <1>3. ASSUME NEW q \in Paths, Bound(q), bindings[q].object = o PROVE q \in plan.unbind \/ Live(ix)
    BY <1>1, <1>3 DEF SyncUnbind, BoundPaths
  <1> QED
    BY <1>1, <1>2, <1>3 DEF PlanShows, Shows, plan

\* How operations begin: all but a rename leave the bindings to the
\* synchronization with their index.
LEMMA OperationShape ==
    ASSUME IInv, NEW p \in Paths, Operation(p)
    PROVE  \/ \E q \in Paths, k \in Nat : \E op, ix :
                 \E o \in 1..(ids + k) : Begin(SyncPlan(op, q, o, ix, {"index"}), k)
           \/ \E o \in 1..ids : \E op : Begin(SyncPlan(op, p, o, indexes[o], {}), 0)
           \/ \E q \in Paths : Rename(p, q)
  <1> DEFINE Goal == \E q \in Paths, k \in Nat : \E op, ix :
                        \E o \in 1..(ids + k) : Begin(SyncPlan(op, q, o, ix, {"index"}), k)
  <1>0. ids \in Nat /\ ids + 0 = ids /\ 0 \in Nat /\ 1 \in Nat /\ ObjectsWereMade
    BY DEF IInv, ObjectsWereMade
  <1>1. ASSUME NEW q \in Paths, NEW k \in Nat, Bound(q) \/ k > 0, NEW op, NEW ix,
               Begin(SyncPlan(op, q, ObjectFor(q), ix, {"index"}), k)
        PROVE  Goal
    BY <1>0, <1>1, ObjectForWasMade
  <1> HIDE DEF Goal
  <1>2. ASSUME NEW q \in Paths, NEW op, NEW c, NEW st, CopyTo(op, q, c, st) PROVE Goal
    BY <1>1, <1>2 DEF CopyTo
  <1>3. ASSUME NEW c, NEW requested, NEW st, Put(p, c, requested, st) PROVE Goal
    BY <1>1, <1>3 DEF Put
  <1>4. ASSUME NEW requested, NEW st, Tombstone(p, requested, st) PROVE Goal
    BY <1>1, <1>4 DEF Tombstone
  <1>5. ASSUME NEW c, NEW f, Reconcile(p, c, f)
        PROVE  Goal \/ \E o \in 1..ids : \E op : Begin(SyncPlan(op, p, o, indexes[o], {}), 0)
    <2> DEFINE v == [kind |-> "ver", n |-> f]
    <2>1. CASE v \notin DOMAIN IndexFor(p).versions
      <3>1. PICK ix, k : /\ k \in {0, 1} /\ (Bound(p) \/ k = 1)
                         /\ Begin(SyncPlan("reconcile", p, ObjectFor(p), ix, {"index"}), k)
        BY <1>5, <2>1 DEF Reconcile
      <3> QED
        BY <1>1, <3>1
    <2>2. CASE v \in DOMAIN IndexFor(p).versions
      <3>1. Bound(p)
        BY <2>2 DEF IndexFor, EmptyIndex
      <3>2. /\ ObjectFor(p) = bindings[p].object /\ IndexFor(p) = indexes[bindings[p].object]
            /\ bindings[p].object \in 1..ids
        BY <1>0, <3>1 DEF ObjectFor, IndexFor, ObjectsWereMade, Bound
      <3>3. Begin(SyncPlan("reconcile", p, ObjectFor(p), IndexFor(p), {}), 0)
        BY <1>5, <2>2 DEF Reconcile
      <3> QED
        BY <3>2, <3>3
    <2> QED
      BY <2>1, <2>2
  <1>6. ASSUME NEW v, Commit(p, v) PROVE Goal
    <2>1. Bound(p)
      BY <1>6 DEF Commit, IndexFor, EmptyIndex
    <2> QED
      BY <1>0, <1>1, <1>6, <2>1 DEF Commit
  <1>7. ASSUME NEW v, DeleteVersion(p, v) PROVE Goal
    <2>1. PICK o \in ResolveVersion(p, v) :
            \E ix : Begin(SyncPlan("delete", p, o, ix, {"index"}), 0)
      BY <1>7 DEF DeleteVersion
    <2>2. o \in 1..(ids + 0)
      BY <1>0, ResolvedWasMade
    <2> QED
      BY <1>0, <2>1, <2>2 DEF Goal
  <1>8. ASSUME NEW v, DropReplica(p, v) PROVE Goal
    <2>1. Bound(p)
      BY <1>8 DEF DropReplica, IndexFor, EmptyIndex
    <2>2. ObjectFor(p) = bindings[p].object
      BY <2>1 DEF ObjectFor
    <2>3. PICK ix : Begin(SyncPlan("drop", p, ObjectFor(p), ix, {"index"}), 0)
      BY <1>8, <2>2 DEF DropReplica
    <2> QED
      BY <1>0, <1>1, <2>1, <2>3
  <1>9. ASSUME NEW q \in Paths, Copy(p, q) PROVE Goal
    BY <1>2, <1>9 DEF Copy
  <1>10. ASSUME NEW v, NEW q \in Paths, Restore(p, v, q) PROVE Goal
    BY <1>2, <1>10 DEF Restore
  <1> QED
    BY <1>3, <1>4, <1>5, <1>6, <1>7, <1>8, <1>9, <1>10 DEF Operation, Goal

\* The renamed version is a head of the index that a rename writes.
LEMMA RenameShows ==
    ASSUME IInv, RInv, NEW p \in Paths, NEW q \in Paths, Rename(p, q)
    PROVE  RInv'
  <1> DEFINE ren == [kind |-> "ren", n |-> ids + 1]
             o   == bindings[p].object
             plan(m, parents, st, marker) ==
                Plan("rename", q, o, WithVersion(IndexFor(p), ren, RecordAt(q, m, parents, st)),
                     {p}, m, {"index", "bind", "marker"}, [object |-> ids + 2, index |-> marker])
  <1>1. PICK m, parents, st, marker : Begin(plan(m, parents, st, marker), 2) /\ Bound(p)
    BY DEF Rename
  <1>2. PICK w : w = plan(m, parents, st, marker)
    OBVIOUS
  <1>3. /\ w.object = o /\ w.path = q /\ w.unbind = {p} /\ w.bind = m
        /\ w.todo = {"index", "bind", "marker"} /\ w.marker.object = ids + 2
        /\ w.index = WithVersion(IndexFor(p), ren, RecordAt(q, m, parents, st))
        /\ w = Plan(w.op, w.path, w.object, w.index, w.unbind, w.bind, w.todo, w.marker)
    BY <1>2 DEF Plan
  <1>4. /\ ren \in w.index.heads /\ ren.kind = "ren"
        /\ w.index.versions[ren].path = q /\ w.index.versions[ren].manifest = m
    BY <1>3 DEF WithVersion, Index, Insert, RecordAt
  <1>5. Shows(w.index, q, m)
    BY <1>4 DEF Shows
  <1>6. /\ ids \in Nat /\ o \in 1..ids /\ o \in 1..(ids + 2) /\ ids + 2 \in 1..(ids + 2)
        /\ \A r \in Paths : Bound(r) => bindings[r].object \in 1..ids
    BY <1>1 DEF IInv, ObjectsWereMade, Bound
  <1>7. \A r \in Paths : bindings[r].object = o => r \in {p}
    BY <1>1 DEF IInv, OneBindingPerObject
  <1>8. PlanIsSound(w, ids + 2)
    BY <1>3, <1>6, <1>7 DEF PlanIsSound
  <1>9. PlanShows(w)
    <2>1. w.marker.object # w.object /\ \A r \in Paths : Bound(r) => bindings[r].object # w.marker.object
      BY <1>3, <1>6
    <2> QED
      BY <1>3, <1>5, <1>7, <2>1 DEF PlanShows
  <1> QED
    BY <1>1, <1>2, <1>8, <1>9, BeginShows

\* Every operation plans to leave bound what its index shows.
LEMMA OperationShows ==
    ASSUME IInv, RInv, NEW p \in Paths, Operation(p)
    PROVE  RInv'
  <1>0. ids \in Nat /\ ids + 0 = ids
    BY DEF IInv, ObjectsWereMade
  <1>1. ASSUME NEW q \in Paths, NEW k \in Nat, NEW op, NEW ix, NEW o \in 1..(ids + k), NEW todo,
               todo \subseteq {"index"}, "index" \in todo \/ indexes[o] = ix,
               Begin(SyncPlan(op, q, o, ix, todo), k)
        PROVE  RInv'
    <2>1. ids + k \in Nat
      BY <1>0
    <2>2. PlanIsSound(SyncPlan(op, q, o, ix, todo), ids + k) /\ PlanShows(SyncPlan(op, q, o, ix, todo))
      BY <1>1, <2>1, SyncIsSound, SyncShows
    <2> QED
      BY <1>1, <2>2, BeginShows
  <1>2. ASSUME NEW q \in Paths, NEW k \in Nat, NEW op, NEW ix, NEW o \in 1..(ids + k),
               Begin(SyncPlan(op, q, o, ix, {"index"}), k)
        PROVE  RInv'
    BY <1>1, <1>2
  <1>3. ASSUME NEW o \in 1..ids, NEW op, Begin(SyncPlan(op, p, o, indexes[o], {}), 0) PROVE RInv'
    <2>1. o \in 1..(ids + 0) /\ 0 \in Nat
      BY <1>0
    <2>2. PICK ix : ix = indexes[o]
      OBVIOUS
    <2> QED
      BY <1>1, <1>3, <2>1, <2>2
  <1> QED
    BY <1>2, <1>3, RenameShows, OperationShape

\* What is left of a plan after one of its writes.
LEMMA RestShows ==
    ASSUME NEW plan, plan # Idle, pending' = Settle(plan), PlanShows(plan)',
           \A q \in Paths : Bound(q)' /\ bindings'[q].object # plan.object =>
              Shows(indexes'[bindings'[q].object], q, bindings'[q].manifest)
    PROVE  OthersShow' /\ (pending' # Idle => PlanShows(pending)')
  <1>1. CASE pending' = plan
    BY <1>1 DEF OthersShow
  <1>2. CASE pending' = Idle /\ plan.todo = {} /\ plan.unbind = {}
    <2>1. \A q \in Paths : Bound(q)' /\ bindings'[q].object = plan.object =>
             Shows(indexes'[bindings'[q].object], q, bindings'[q].manifest)
      BY <1>2 DEF PlanShows
    <2> QED
      BY <1>2, <2>1 DEF OthersShow
  <1> QED
    BY <1>1, <1>2 DEF Settle

\* A plan that was changed in one field is still a plan.
LEMMA PlanFields ==
    ASSUME NEW plan, NEW x,
           plan = Plan(plan.op, plan.path, plan.object, plan.index, plan.unbind, plan.bind,
                       plan.todo, plan.marker)
    PROVE  /\ LET w == [plan EXCEPT !.todo = x]
              IN  /\ w # Idle /\ w.todo = x /\ w.unbind = plan.unbind /\ w.path = plan.path
                  /\ w.object = plan.object /\ w.index = plan.index /\ w.bind = plan.bind
                  /\ w.marker = plan.marker
           /\ LET w == [plan EXCEPT !.unbind = x]
              IN  /\ w # Idle /\ w.todo = plan.todo /\ w.unbind = x /\ w.path = plan.path
                  /\ w.object = plan.object /\ w.index = plan.index /\ w.bind = plan.bind
                  /\ w.marker = plan.marker
  <1>1. DOMAIN Idle = {"op"} /\ "todo" \in DOMAIN plan
    BY DEF Idle, Plan
  <1>2. [plan EXCEPT !.todo = x] # Idle /\ [plan EXCEPT !.unbind = x] # Idle
    BY <1>1
  <1> QED
    BY <1>2 DEF Plan

\* The writes keep what is bound readable: the index first, then the bindings that
\* have to go, then the new one.
LEMMA WritingShows ==
    ASSUME IInv, RInv, Writing, crashes = 0
    PROVE  OthersShow' /\ (pending' # Idle => PlanShows(pending)')
  <1>0. PICK plan : plan = pending
    OBVIOUS
  <1>1. /\ plan # Idle /\ PlanIsSound(plan, ids) /\ PlanShows(plan)
        /\ \A q \in Paths : Bound(q) /\ bindings[q].object # plan.object =>
              Shows(indexes[bindings[q].object], q, bindings[q].manifest)
    BY <1>0 DEF IInv, PlanIsComplete, RInv, OthersShow, Writing, WriteIndex, RemoveBinding,
                UpsertBinding, WriteMarker
  <1>2. /\ plan = Plan(plan.op, plan.path, plan.object, plan.index, plan.unbind, plan.bind,
                       plan.todo, plan.marker)
        /\ plan.path \in Paths /\ plan.object \in Objects
        /\ bindings = [p \in Paths |-> bindings[p]] /\ indexes = [o \in Objects |-> indexes[o]]
    BY <1>1, BoundAssumption DEF PlanIsSound, Objects, IInv, ObjectsWereMade
  <1>3. CASE WriteIndex
    <2>1. PICK w : w = [plan EXCEPT !.todo = @ \ {"index"}]
      OBVIOUS
    <2>2. /\ w # Idle /\ w.todo = plan.todo \ {"index"} /\ w.unbind = plan.unbind /\ w.path = plan.path
          /\ w.object = plan.object /\ w.index = plan.index /\ w.bind = plan.bind /\ w.marker = plan.marker
      BY <1>2, <2>1, PlanFields
    <2>3. /\ pending' = Settle(w) /\ bindings' = bindings
          /\ indexes'[plan.object] = plan.index
          /\ \A o \in Objects \ {plan.object} : indexes'[o] = indexes[o]
      BY <1>0, <1>2, <1>3, <2>1 DEF WriteIndex
    <2>4. PlanShows(w)'
      BY <1>1, <2>2, <2>3 DEF PlanShows, Bound
    <2>5. \A q \in Paths : Bound(q)' /\ bindings'[q].object # w.object =>
             Shows(indexes'[bindings'[q].object], q, bindings'[q].manifest)
      <3>1. \A q \in Paths : Bound(q) => bindings[q].object \in Objects
        BY BoundAssumption DEF Bound, IInv, ObjectsWereMade, Objects
      <3> QED
        BY <1>1, <2>2, <2>3, <3>1 DEF Bound
    <2> QED
      BY <2>2, <2>3, <2>4, <2>5, RestShows
  <1>4. ASSUME NEW p \in Paths, RemoveBinding(p)
        PROVE  OthersShow' /\ (pending' # Idle => PlanShows(pending)')
    <2>1. PICK w : w = [plan EXCEPT !.unbind = @ \ {p}]
      OBVIOUS
    <2>2. /\ w # Idle /\ w.todo = plan.todo /\ w.unbind = plan.unbind \ {p} /\ w.path = plan.path
          /\ w.object = plan.object /\ w.index = plan.index /\ w.bind = plan.bind /\ w.marker = plan.marker
      BY <1>2, <2>1, PlanFields
    <2>3. /\ pending' = Settle(w) /\ indexes' = indexes
          /\ bindings'[p] = Unbound /\ \A q \in Paths \ {p} : bindings'[q] = bindings[q]
      BY <1>0, <1>2, <1>4, <2>1 DEF RemoveBinding
    <2>4. \A q \in Paths : Bound(q)' => q # p /\ bindings'[q] = bindings[q] /\ Bound(q)
      BY <2>3 DEF Bound
    <2>5. PlanShows(w)'
      BY <1>1, <2>2, <2>3, <2>4 DEF PlanShows
    <2>6. \A q \in Paths : Bound(q)' /\ bindings'[q].object # w.object =>
             Shows(indexes'[bindings'[q].object], q, bindings'[q].manifest)
      BY <1>1, <2>2, <2>3, <2>4
    <2> QED
      BY <2>2, <2>3, <2>5, <2>6, RestShows
  <1>5. CASE UpsertBinding
    <2>1. PICK w : w = [plan EXCEPT !.todo = @ \ {"bind"}]
      OBVIOUS
    <2>2. /\ w # Idle /\ w.todo = plan.todo \ {"bind"} /\ w.unbind = plan.unbind /\ w.path = plan.path
          /\ w.object = plan.object /\ w.index = plan.index /\ w.bind = plan.bind /\ w.marker = plan.marker
      BY <1>2, <2>1, PlanFields
    <2>3. /\ pending' = Settle(w) /\ indexes' = indexes
          /\ bindings'[plan.path].object = plan.object /\ bindings'[plan.path].manifest = plan.bind
          /\ \A q \in Paths \ {plan.path} : bindings'[q] = bindings[q]
          /\ "index" \notin plan.todo /\ "bind" \in plan.todo
      BY <1>0, <1>2, <1>5, <2>1 DEF UpsertBinding
    <2>4. \A q \in Paths \ {plan.path} : Bound(q)' <=> Bound(q)
      BY <2>3 DEF Bound
    <2>5. PlanShows(w)'
      BY <1>1, <2>2, <2>3, <2>4 DEF PlanShows
    <2>6. \A q \in Paths : Bound(q)' /\ bindings'[q].object # w.object =>
             Shows(indexes'[bindings'[q].object], q, bindings'[q].manifest)
      BY <1>1, <2>2, <2>3, <2>4
    <2> QED
      BY <2>2, <2>3, <2>5, <2>6, RestShows
  <1>6. CASE WriteMarker
    <2>1. /\ pending' = Idle /\ bindings' = bindings /\ plan.unbind = {} /\ plan.todo = {"marker"}
          /\ \A o \in Objects \ {plan.marker.object} : indexes'[o] = indexes[o]
      BY <1>0, <1>2, <1>6 DEF WriteMarker
    <2>2. \A q \in Paths : Bound(q) => bindings[q].object \in Objects /\ bindings[q].object # plan.marker.object
      <3>1. \A q \in Paths : Bound(q) => bindings[q].object \in Objects
        BY BoundAssumption DEF Bound, IInv, ObjectsWereMade, Objects
      <3> QED
        BY <1>1, <2>1, <3>1 DEF PlanShows
    <2>3. \A q \in Paths : Bound(q) => Shows(indexes[bindings[q].object], q, bindings[q].manifest)
      BY <1>1, <2>1 DEF PlanShows
    <2> QED
      BY <2>1, <2>2, <2>3 DEF OthersShow, Bound
  <1> QED
    BY <1>3, <1>4, <1>5, <1>6 DEF Writing

\* Every step keeps what is bound readable, until an operation is cut short.
LEMMA StepShows == IInv /\ RInv /\ [Next]_vars => RInv'
  <1> SUFFICES ASSUME IInv, RInv, [Next]_vars PROVE RInv'
    OBVIOUS
  <1>1. CASE Writing
    <2>1. crashes' = crashes
      BY <1>1 DEF Writing, WriteIndex, RemoveBinding, UpsertBinding, WriteMarker
    <2> QED
      BY <1>1, <2>1, WritingShows DEF RInv
  <1>2. CASE Crash
    BY <1>2 DEF Crash, RInv
  <1>3. CASE Tick \/ UNCHANGED vars
    <2>1. UNCHANGED <<indexes, bindings, pending, crashes>>
      BY <1>3 DEF Tick, vars, durable
    <2> QED
      BY <2>1 DEF RInv, OthersShow, PlanShows, Bound
  <1> QED
    BY <1>1, <1>2, <1>3, OperationShows DEF Next

\* Nothing is bound at first.
LEMMA InitShows == Init => RInv
  BY DEF Init, RInv, OthersShow, Bound

\* Whatever is listed can be read, as long as no operation was cut short: its object
\* has a live preferred head, or the path shows the version that a rename has made,
\* whatever operations came before, also through other names of the object.
THEOREM ListedIsReadable == Spec => []BoundPathsAreReadable
  <1>1. RInv => BoundPathsAreReadable
    <2> SUFFICES ASSUME RInv, pending = Idle, crashes = 0, NEW p \in Paths, Bound(p)
                 PROVE  Live(IndexFor(p)) \/ ShowsRename(p)
      BY DEF BoundPathsAreReadable
    <2>1. Shows(IndexFor(p), p, bindings[p].manifest)
      BY IdleShows DEF IndexFor
    <2> QED
      BY <2>1 DEF Shows, ShowsRename
  <1> QED
    BY <1>1, InitHolds, StepKeeps, InitShows, StepShows, PTL DEF Spec

-------------------------------------------------------------------------------
(***************************************************************************)
(* Types.  That an index has a preferred head whenever it has heads is the *)
(* part that is not obvious: choose_preferred_head takes a maximum, so the *)
(* order of the heads has to be total and must not ascend for ever.        *)
(***************************************************************************)

\* A bounded function on a set that is not empty has a maximum.
LEMMA MaximumExists ==
    ASSUME NEW S, S # {}, NEW f \in [S -> Nat], NEW b \in Nat, \A s \in S : f[s] <= b
    PROVE  \E s \in S : \A t \in S : f[t] <= f[s]
  <1> DEFINE T == {b - f[s] : s \in S}
  <1>1. T \subseteq Nat /\ T # {}
    OBVIOUS
  <1>2. PICK i \in T : \A j \in T : ~(<<j, i>> \in OpToRel(<, Nat))
    <2> HIDE DEF T
    <2> QED
      BY <1>1, NatLessThanWellFounded, WFMin
  <1>3. \A j \in T : ~(j < i)
    BY <1>1, <1>2 DEF OpToRel
  <1>4. PICK s \in S : i = b - f[s]
    OBVIOUS
  <1>5. ASSUME NEW t \in S PROVE f[t] <= f[s]
    <2>1. b - f[t] \in T
      OBVIOUS
    <2>2. ~(b - f[t] < b - f[s])
      BY <1>3, <1>4, <2>1
    <2>3. f[t] \in Nat /\ f[s] \in Nat
      OBVIOUS
    <2> QED
      BY <2>2, <2>3
  <1> QED
    BY <1>5

\* Ids of one prefix are told apart by their numbers.
LEMMA VersionIdFields ==
    ASSUME NEW a \in VersionIds, NEW b \in VersionIds
    PROVE  /\ a.n \in Nat /\ KindRank[a.kind] \in 1..6
           /\ KindRank[a.kind] = KindRank[b.kind] => a.kind = b.kind
           /\ a.kind = b.kind /\ a.n = b.n => a = b
  <1>1. VersionIds \subseteq [kind : DOMAIN KindRank, n : Nat]
    <2>1. "ver" \in DOMAIN KindRank
      BY DEF KindRank
    <2>2. 1..MaxIds \subseteq Nat /\ ForeignIds \subseteq Nat
      BY ForeignAssumption, BoundAssumption
    <2> QED
      BY <2>1, <2>2 DEF VersionIds
  <1>2. a \in [kind : DOMAIN KindRank, n : Nat] /\ b \in [kind : DOMAIN KindRank, n : Nat]
    BY <1>1
  <1> QED
    BY <1>2 DEF KindRank

\* choose_preferred_head: among heads whose numbers are bounded there is one that
\* outranks all the others.
LEMMA BestHeadExists ==
    ASSUME NEW H \in SUBSET VersionIds, H # {}, NEW vs, \A h \in H : vs[h] \in Records,
           NEW b \in Nat, \A h \in H : h.n <= b /\ vs[h].created_at <= b
    PROVE  \E h \in H : \A k \in H \ {h} : Outranks(vs, h, k)
  <1>0. /\ \A h \in H : vs[h].state \in {1, 2} /\ vs[h].created_at \in Nat
        /\ \A h \in H : h.n \in Nat /\ KindRank[h.kind] \in 1..6
        /\ \A h, k \in H : KindRank[h.kind] = KindRank[k.kind] => h.kind = k.kind
        /\ \A h, k \in H : h.kind = k.kind /\ h.n = k.n => h = k
    BY VersionIdFields DEF Records, States, Confirmed, Provisional
  <1>1. PICK h1 \in H : \A k \in H : vs[k].state <= vs[h1].state
    <2> DEFINE f == [h \in H |-> vs[h].state]
    <2>1. f \in [H -> Nat] /\ \A h \in H : f[h] <= 2
      BY <1>0
    <2>2. \E s \in H : \A t \in H : f[t] <= f[s]
      BY <2>1, MaximumExists
    <2> QED
      BY <2>2
  <1> DEFINE H2 == {h \in H : vs[h].state = vs[h1].state}
  <1>2. PICK h2 \in H2 : \A k \in H2 : vs[k].created_at <= vs[h2].created_at
    <2> DEFINE f == [h \in H2 |-> vs[h].created_at]
    <2>1. f \in [H2 -> Nat] /\ \A h \in H2 : f[h] <= b
      BY <1>0
    <2>2. H2 # {}
      OBVIOUS
    <2> HIDE DEF H2
    <2>3. \E s \in H2 : \A t \in H2 : f[t] <= f[s]
      BY <1>0, <2>1, <2>2, MaximumExists
    <2> QED
      BY <2>3
  <1> DEFINE H3 == {h \in H2 : vs[h].created_at = vs[h2].created_at}
  <1>3. PICK h3 \in H3 : \A k \in H3 : KindRank[k.kind] <= KindRank[h3.kind]
    <2> DEFINE f == [h \in H3 |-> KindRank[h.kind]]
    <2>1. f \in [H3 -> Nat] /\ \A h \in H3 : f[h] <= 6
      BY <1>0
    <2>2. H3 # {}
      OBVIOUS
    <2> HIDE DEF H3
    <2>3. \E s \in H3 : \A t \in H3 : f[t] <= f[s]
      BY <2>1, <2>2, MaximumExists
    <2> QED
      BY <2>3
  <1> DEFINE H4 == {h \in H3 : h.kind = h3.kind}
  <1>4. PICK h4 \in H4 : \A k \in H4 : k.n <= h4.n
    <2> DEFINE f == [h \in H4 |-> h.n]
    <2>1. f \in [H4 -> Nat] /\ \A h \in H4 : f[h] <= b
      BY <1>0
    <2>2. H4 # {}
      OBVIOUS
    <2> HIDE DEF H4
    <2>3. \E s \in H4 : \A t \in H4 : f[t] <= f[s]
      BY <2>1, <2>2, MaximumExists
    <2> QED
      BY <2>3
  <1>5. h4 \in H /\ vs[h4].state = vs[h1].state /\ vs[h4].created_at = vs[h2].created_at /\ h4.kind = h3.kind
    OBVIOUS
  <1>6. ASSUME NEW k \in H \ {h4} PROVE Outranks(vs, h4, k)
    <2>1. CASE k \notin H2
      BY <1>0, <1>1, <1>5, <2>1 DEF Outranks
    <2>2. CASE k \in H2 /\ k \notin H3
      BY <1>0, <1>2, <1>5, <2>2 DEF Outranks
    <2>3. CASE k \in H3 /\ k \notin H4
      <3>1. KindRank[k.kind] <= KindRank[h3.kind] /\ KindRank[k.kind] # KindRank[h3.kind]
        BY <1>0, <1>3, <1>5, <2>3
      <3>2. KindRank[h4.kind] > KindRank[k.kind]
        BY <1>0, <1>5, <3>1
      <3> QED
        BY <1>5, <2>3, <3>2 DEF Outranks, IdAfter
    <2>4. CASE k \in H4
      <3>1. h4.n > k.n
        BY <1>0, <1>4, <1>5, <1>6, <2>4
      <3> QED
        BY <1>5, <2>4, <3>1 DEF Outranks, IdAfter
    <2> QED
      BY <2>1, <2>2, <2>3, <2>4
  <1> QED
    BY <1>5, <1>6

\* The numbers of the ids of a history are bounded, and so are its dates.
Bounded(vs) == \E b \in Nat : \A v \in DOMAIN vs : v.n <= b /\ vs[v].created_at <= b

\* A history of records.
VersionsOK(vs) ==
    /\ DOMAIN vs \subseteq VersionIds
    /\ \A v \in DOMAIN vs : vs[v] \in Records
    /\ Bounded(vs)

\* An index whose heads and preferred head exist.
IndexOK(ix) ==
    /\ VersionsOK(ix.versions)
    /\ ix.heads \subseteq DOMAIN ix.versions
    /\ ix.preferred \in ix.heads \cup {NoVersion}

\* The stored indexes, and those that an operation is about to store.
TInv ==
    /\ \A o \in Objects : IndexOK(indexes[o])
    /\ bindings \in [Paths -> Entries]
    /\ pending # Idle => /\ IndexOK(pending.index) /\ IndexOK(pending.marker.index)
                         /\ pending.bind \in Manifests
    /\ now \in 0..MaxTime /\ crashes \in 0..MaxCrashes

\* choose_preferred_head picks one of the heads.
LEMMA IndexIsOK ==
    ASSUME NEW vs, VersionsOK(vs), NEW heads \in SUBSET DOMAIN vs
    PROVE  IndexOK(Index(vs, heads))
  <1>1. PreferredHead(vs, heads) \in heads \cup {NoVersion}
    <2>1. CASE heads = {}
      BY <2>1 DEF PreferredHead
    <2>2. CASE heads # {}
      <3>1. PICK b \in Nat : \A v \in DOMAIN vs : v.n <= b /\ vs[v].created_at <= b
        BY DEF VersionsOK, Bounded
      <3>2. heads \in SUBSET VersionIds /\ \A h \in heads : vs[h] \in Records /\ h.n <= b /\ vs[h].created_at <= b
        BY <3>1 DEF VersionsOK
      <3>3. \E h \in heads : \A k \in heads \ {h} : Outranks(vs, h, k)
        BY <2>2, <3>2, BestHeadExists
      <3> QED
        BY <2>2, <3>3 DEF PreferredHead
    <2> QED
      BY <2>1, <2>2
  <1>2. /\ Index(vs, heads).versions = vs /\ Index(vs, heads).heads = heads
        /\ Index(vs, heads).preferred = PreferredHead(vs, heads)
    BY DEF Index
  <1> QED
    BY <1>1, <1>2 DEF IndexOK

\* A version that is added.
LEMMA InsertIsOK ==
    ASSUME NEW vs, VersionsOK(vs), NEW v \in VersionIds, NEW record \in Records
    PROVE  VersionsOK(Insert(vs, v, record)) /\ DOMAIN Insert(vs, v, record) = DOMAIN vs \cup {v}
  <1> DEFINE ws == Insert(vs, v, record)
  <1>1. /\ DOMAIN ws = DOMAIN vs \cup {v} /\ \A w \in DOMAIN ws : ws[w] \in Records
        /\ \A w \in DOMAIN ws : (w = v /\ ws[w] = record) \/ (w \in DOMAIN vs /\ ws[w] = vs[w])
    <2>1. ws = [w \in DOMAIN vs \cup {v} |-> IF w = v THEN record ELSE vs[w]]
      BY DEF Insert
    <2> HIDE DEF ws
    <2>2. \A w \in DOMAIN vs : vs[w] \in Records
      BY DEF VersionsOK
    <2> QED
      BY <2>1, <2>2
  <1> HIDE DEF ws
  <1>2. PICK b \in Nat : \A w \in DOMAIN vs : w.n <= b /\ vs[w].created_at <= b
    BY DEF VersionsOK, Bounded
  <1>3. v.n \in Nat /\ \A w \in DOMAIN vs : w.n \in Nat
    BY VersionIdFields DEF VersionsOK
  <1>4. record.created_at \in Nat /\ \A w \in DOMAIN vs : vs[w].created_at \in Nat
    BY DEF VersionsOK, Records
  <1> DEFINE c == b + v.n + record.created_at
  <1>5. c \in Nat /\ v.n <= c /\ record.created_at <= c /\ b <= c
    BY <1>3, <1>4
  <1> HIDE DEF c
  <1>6. \A w \in DOMAIN ws : w.n <= c /\ ws[w].created_at <= c
    BY <1>1, <1>2, <1>3, <1>4, <1>5
  <1> QED
    BY <1>1, <1>5, <1>6 DEF VersionsOK, Bounded, ws

\* A version that is removed.
LEMMA WithoutIsOK ==
    ASSUME NEW vs, VersionsOK(vs), NEW v
    PROVE  VersionsOK(Without(vs, v))
  BY DEF VersionsOK, Bounded, Without

\* The index of an object that has none.
LEMMA EmptyIsOK == IndexOK(EmptyIndex) /\ VersionsOK(<<>>) /\ IndexOK(NoMarker.index)
  <1>1. VersionsOK(<<>>)
    <2>1. DOMAIN <<>> = {}
      OBVIOUS
    <2>2. Bounded(<<>>)
      BY <2>1 DEF Bounded
    <2> QED
      BY <2>1, <2>2 DEF VersionsOK
  <1> QED
    BY <1>1 DEF IndexOK, EmptyIndex, NoMarker

\* recompute_head_version_ids
LEMMA ReindexedIsOK ==
    ASSUME NEW vs, VersionsOK(vs)
    PROVE  IndexOK(Reindexed(vs))
  <1>1. Leaves(vs) \in SUBSET DOMAIN vs
    BY DEF Leaves
  <1> QED
    BY <1>1, IndexIsOK DEF Reindexed

\* A version that replaces its parents among the heads.
LEMMA WithVersionIsOK ==
    ASSUME NEW ix, IndexOK(ix), NEW v \in VersionIds, NEW record \in Records
    PROVE  IndexOK(WithVersion(ix, v, record))
  <1> DEFINE vs == Insert(ix.versions, v, record)
  <1>1. VersionsOK(vs) /\ DOMAIN vs = DOMAIN ix.versions \cup {v}
    BY InsertIsOK DEF IndexOK
  <1> HIDE DEF vs
  <1>2. PICK heads : heads = (ix.heads \ record.parents) \cup {v}
    OBVIOUS
  <1>3. heads \in SUBSET DOMAIN vs
    BY <1>1, <1>2 DEF IndexOK
  <1> QED
    BY <1>1, <1>2, <1>3, IndexIsOK DEF WithVersion, vs

\* The index of a path, and what an operation takes from it.
LEMMA IndexForIsOK ==
    ASSUME IInv, TInv, NEW p \in Paths
    PROVE  LET ix == IndexFor(p)
           IN  /\ IndexOK(ix) /\ Preferred(ix) \subseteq VersionIds
               /\ Live(ix) => /\ HeadRecord(ix) \in Records /\ ix.preferred \in VersionIds
                              /\ HeadRecord(ix).manifest.content \in Contents
  <1> DEFINE ix == IndexFor(p)
  <1>1. IndexOK(ix)
    <2>1. CASE Bound(p)
      <3>1. bindings[p].object \in Objects
        BY <2>1, BoundAssumption DEF Objects, IInv, ObjectsWereMade, Bound
      <3> QED
        BY <2>1, <3>1 DEF TInv, IndexFor
    <2>2. CASE ~Bound(p)
      BY <2>2, EmptyIsOK DEF IndexFor
    <2> QED
      BY <2>1, <2>2
  <1> HIDE DEF ix
  <1>2. ix.preferred # NoVersion => ix.preferred \in VersionIds /\ HeadRecord(ix) \in Records
    BY <1>1 DEF IndexOK, VersionsOK, HeadRecord
  <1>3. Preferred(ix) \subseteq VersionIds
    BY <1>2 DEF Preferred
  <1>4. ASSUME Live(ix) PROVE HeadRecord(ix).manifest.content \in Contents
    <2>1. HeadRecord(ix).manifest \in Manifests /\ HeadRecord(ix).manifest # TOMBSTONE
      BY <1>2, <1>4 DEF Live, Records
    <2> QED
      BY <2>1 DEF Manifests
  <1> QED
    BY <1>1, <1>2, <1>3, <1>4 DEF Live, ix

\* The records that operations write.
LEMMA RecordIsOK ==
    ASSUME TInv, NEW p \in Paths, NEW m \in Manifests, NEW parents \in SUBSET VersionIds, NEW st \in States
    PROVE  /\ RecordAt(p, m, parents, st) \in Records
           /\ \A o \in Objects : [RecordAt(p, m, parents, st) EXCEPT !.copied_from = o] \in Records
  BY DEF RecordAt, Records, TInv

\* The ids that they make.
LEMMA NextIdIsOK ==
    ASSUME IInv, NEW k \in {1, 2}, ids + k <= MaxIds, NEW kind \in DOMAIN KindRank
    PROVE  [kind |-> kind, n |-> ids + k] \in VersionIds
  <1>1. ids + k \in 1..MaxIds
    BY BoundAssumption DEF IInv, ObjectsWereMade
  <1> QED
    BY <1>1 DEF VersionIds

\* An operation begins with a plan of indexes that are sound.
LEMMA BeginIsTyped ==
    ASSUME TInv, NEW plan, NEW k, Begin(plan, k), IndexOK(plan.index), IndexOK(plan.marker.index),
           plan.bind \in Manifests
    PROVE  TInv'
  <1>1. UNCHANGED <<indexes, bindings, now, crashes>> /\ (pending' = Idle \/ pending' = plan)
    BY DEF Begin, durable, Settle
  <1> QED
    BY <1>1 DEF TInv

\* A plan of sync_current_state_for_key_from_index binds what its index prefers.
LEMMA SyncIsTyped ==
    ASSUME TInv, NEW op, NEW p, NEW o, NEW ix, IndexOK(ix), NEW todo, NEW k,
           Begin(SyncPlan(op, p, o, ix, todo), k)
    PROVE  TInv'
  <1> DEFINE plan == SyncPlan(op, p, o, ix, todo)
  <1>1. /\ plan.index = ix /\ plan.marker = NoMarker
        /\ plan.bind = IF Live(ix) THEN HeadRecord(ix).manifest ELSE TOMBSTONE
    BY DEF SyncPlan, Plan
  <1>2. Live(ix) => HeadRecord(ix).manifest \in Manifests
    BY DEF Live, HeadRecord, IndexOK, VersionsOK, Records
  <1>3. TOMBSTONE \in Manifests
    BY DEF Manifests
  <1> HIDE DEF plan
  <1>4. plan.bind \in Manifests
    BY <1>1, <1>2, <1>3
  <1> QED
    BY <1>1, <1>4, EmptyIsOK, BeginIsTyped DEF plan

\* A copy or a restore, which makes one version at its destination.
LEMMA CopyToIsTyped ==
    ASSUME IInv, TInv, NEW q \in Paths, NEW op \in {"copy", "restore"}, NEW c \in Contents,
           NEW st \in States, CopyTo(op, q, c, st)
    PROVE  TInv'
  <1> DEFINE ix     == IndexFor(q)
             v      == [kind |-> op, n |-> ids + 1]
             record == RecordAt(q, Manifest(q, c), Preferred(ix), st)
  <1>1. Begin(SyncPlan(op, q, ObjectFor(q), Reindexed(Insert(ix.versions, v, record)), {"index"}), 1)
    BY DEF CopyTo
  <1>2. ids + 1 <= MaxIds /\ op \in DOMAIN KindRank
    BY <1>1 DEF Begin, KindRank
  <1>3. v \in VersionIds
    BY <1>2, NextIdIsOK
  <1>4. Manifest(q, c) \in Manifests
    BY DEF Manifest, Manifests
  <1>5. record \in Records /\ VersionsOK(ix.versions)
    BY <1>4, IndexForIsOK, RecordIsOK DEF IndexOK
  <1> HIDE DEF ix, v, record
  <1>6. IndexOK(Reindexed(Insert(ix.versions, v, record)))
    BY <1>3, <1>5, InsertIsOK, ReindexedIsOK
  <1> QED
    BY <1>1, <1>6, SyncIsTyped

\* A put or a tombstone, which makes one version.
LEMMA WriteIsTyped ==
    ASSUME IInv, TInv, NEW p \in Paths, NEW op, NEW kind \in DOMAIN KindRank, NEW m \in Manifests,
           NEW requested \in ParentChoices(IndexFor(p)), NEW st \in States,
           Begin(SyncPlan(op, p, ObjectFor(p),
                          WithVersion(IndexFor(p), [kind |-> kind, n |-> ids + 1],
                                      RecordAt(p, m, ParentsOf(IndexFor(p), requested), st)),
                          {"index"}), 1)
    PROVE  TInv'
  <1> DEFINE ix     == IndexFor(p)
             v      == [kind |-> kind, n |-> ids + 1]
             record == RecordAt(p, m, ParentsOf(ix, requested), st)
  <1>1. v \in VersionIds
    BY NextIdIsOK DEF Begin
  <1>2. IndexOK(ix) /\ ParentsOf(ix, requested) \in SUBSET VersionIds
    BY IndexForIsOK DEF ParentsOf, ParentChoices, IndexOK, VersionsOK
  <1>3. record \in Records
    BY <1>2, RecordIsOK
  <1> HIDE DEF ix, v, record
  <1>4. IndexOK(WithVersion(ix, v, record))
    BY <1>1, <1>2, <1>3, WithVersionIsOK
  <1> QED
    BY <1>4, SyncIsTyped DEF ix, v, record

\* A rename writes the version at the new path and the marker of the old one.
LEMMA RenameIsTyped ==
    ASSUME IInv, TInv, NEW p \in Paths, NEW q \in Paths, Rename(p, q)
    PROVE  TInv'
  <1> DEFINE ix     == IndexFor(p)
             head   == HeadRecord(ix)
             m      == Manifest(q, head.manifest.content)
             ren    == [kind |-> "ren", n |-> ids + 1]
             gone   == [kind |-> "rename_tomb", n |-> ids + 2]
             record == RecordAt(q, m, {ix.preferred}, head.state)
             marker == [RecordAt(p, TOMBSTONE, {ix.preferred}, head.state) EXCEPT !.copied_from = bindings[p].object]
             plan   == Plan("rename", q, bindings[p].object, WithVersion(ix, ren, record), {p}, m,
                            {"index", "bind", "marker"},
                            [object |-> ids + 2, index |-> Reindexed(Insert(<<>>, gone, marker))])
  <1>1. Bound(p) /\ Live(ix) /\ Begin(plan, 2)
    BY DEF Rename
  <1>2. /\ IndexOK(ix) /\ head \in Records /\ {ix.preferred} \in SUBSET VersionIds
        /\ head.manifest.content \in Contents
    BY <1>1, IndexForIsOK
  <1>3. m \in Manifests /\ TOMBSTONE \in Manifests /\ head.state \in States
    BY <1>2 DEF Manifest, Manifests, Records
  <1>4. bindings[p].object \in Objects
    BY <1>1, BoundAssumption DEF Objects, IInv, ObjectsWereMade, Bound
  <1>5. ids + 1 <= MaxIds /\ ids + 2 <= MaxIds /\ "ren" \in DOMAIN KindRank /\ "rename_tomb" \in DOMAIN KindRank
    BY <1>1, BoundAssumption DEF Begin, KindRank, IInv, ObjectsWereMade
  <1>6. ren \in VersionIds /\ gone \in VersionIds
    BY <1>5, NextIdIsOK
  <1>7. record \in Records /\ marker \in Records
    BY <1>2, <1>3, <1>4, RecordIsOK
  <1>8. /\ plan.index = WithVersion(ix, ren, record) /\ plan.bind = m
        /\ plan.marker.index = Reindexed(Insert(<<>>, gone, marker))
    BY DEF Plan
  <1> HIDE DEF plan, ix, ren, gone, record, marker, m
  <1>9. IndexOK(WithVersion(ix, ren, record))
    BY <1>2, <1>6, <1>7, WithVersionIsOK
  <1>10. VersionsOK(Insert(<<>>, gone, marker))
    BY <1>6, <1>7, EmptyIsOK, InsertIsOK
  <1>11. IndexOK(plan.index) /\ IndexOK(plan.marker.index)
    BY <1>8, <1>9, <1>10, ReindexedIsOK
  <1> QED
    BY <1>1, <1>3, <1>8, <1>11, BeginIsTyped

\* The bounds of a request are those of Operation.
LEMMA OperationIsTyped ==
    ASSUME IInv, TInv, NEW p \in Paths, Operation(p)
    PROVE  TInv'
  <1> DEFINE ix == IndexFor(p)
  <1>0. IndexOK(ix) /\ VersionsOK(ix.versions)
    BY IndexForIsOK DEF IndexOK
  <1>1. ASSUME NEW c \in Contents, NEW st \in States, NEW requested \in ParentChoices(ix), Put(p, c, requested, st)
        PROVE  TInv'
    <2>1. Manifest(p, c) \in Manifests /\ "ver" \in DOMAIN KindRank
      BY DEF Manifest, Manifests, KindRank
    <2> QED
      BY <1>1, <2>1, WriteIsTyped DEF Put
  <1>2. ASSUME NEW st \in States, NEW requested \in ParentChoices(ix), Tombstone(p, requested, st)
        PROVE  TInv'
    <2>1. TOMBSTONE \in Manifests /\ "tomb" \in DOMAIN KindRank
      BY DEF Manifests, KindRank
    <2> QED
      BY <1>2, <2>1, WriteIsTyped DEF Tombstone
  <1>3. ASSUME NEW c \in Contents, NEW f \in ForeignIds, Reconcile(p, c, f) PROVE TInv'
    <2> DEFINE v      == [kind |-> "ver", n |-> f]
               record == RecordAt(p, Manifest(p, c), {}, Provisional)
    <2>1. v \in VersionIds /\ Manifest(p, c) \in Manifests /\ Provisional \in States
      BY DEF VersionIds, Manifest, Manifests, States
    <2>2. record \in Records
      BY <2>1, RecordIsOK
    <2>3. PICK other, k, todo : /\ other = WithVersion(ix, v, record) \/ other = ix
                                /\ Begin(SyncPlan("reconcile", p, ObjectFor(p), other, todo), k)
      BY <1>3 DEF Reconcile
    <2> HIDE DEF ix, v, record
    <2>4. IndexOK(other)
      BY <1>0, <2>1, <2>2, <2>3, WithVersionIsOK
    <2> QED
      BY <2>3, <2>4, SyncIsTyped
  <1>4. ASSUME NEW q \in Paths, Copy(p, q) PROVE TInv'
    <2>1. HeadRecord(ix).manifest.content \in Contents /\ HeadRecord(ix).state \in States
      BY <1>4, IndexForIsOK DEF Copy, Records
    <2> QED
      BY <1>4, <2>1, CopyToIsTyped DEF Copy
  <1>5. ASSUME NEW v, Commit(p, v) PROVE TInv'
    <2> DEFINE vs == [ix.versions EXCEPT ![v].state = Confirmed]
    <2>1. v \in DOMAIN ix.versions /\ Begin(SyncPlan("commit", p, ObjectFor(p), Index(vs, ix.heads), {"index"}), 0)
      BY <1>5 DEF Commit
    <2>2. DOMAIN vs = DOMAIN ix.versions
      OBVIOUS
    <2>3. \A w \in DOMAIN vs : vs[w] \in Records
      <3>1. PICK record : record = ix.versions[v]
        OBVIOUS
      <3>2. record \in Records /\ Confirmed \in States
        BY <1>0, <2>1, <3>1 DEF VersionsOK, States
      <3>3. [record EXCEPT !.state = Confirmed] \in Records
        BY <3>2 DEF Records
      <3>4. vs = [ix.versions EXCEPT ![v] = [record EXCEPT !.state = Confirmed]]
        BY <2>1, <3>1
      <3> QED
        BY <1>0, <2>1, <3>3, <3>4 DEF VersionsOK
    <2>4. \A w \in DOMAIN vs : vs[w].created_at = ix.versions[w].created_at
      <3>1. ix.versions[v] \in Records
        BY <1>0, <2>1 DEF VersionsOK
      <3>2. [ix.versions[v] EXCEPT !.state = Confirmed].created_at = ix.versions[v].created_at
        BY <3>1 DEF Records
      <3> QED
        BY <2>1, <3>2
    <2> HIDE DEF ix, vs
    <2>5. Bounded(vs)
      BY <1>0, <2>2, <2>4 DEF VersionsOK, Bounded
    <2>6. VersionsOK(vs) /\ ix.heads \in SUBSET DOMAIN vs
      BY <1>0, <2>2, <2>3, <2>5 DEF VersionsOK, IndexOK
    <2> QED
      BY <2>1, <2>6, IndexIsOK, SyncIsTyped
  <1>6. ASSUME NEW v, DeleteVersion(p, v) PROVE TInv'
    <2>1. PICK o \in ResolveVersion(p, v) :
            Begin(SyncPlan("delete", p, o, Reindexed(Without(indexes[o].versions, v)), {"index"}), 0)
      BY <1>6 DEF DeleteVersion
    <2>2. o \in Objects
      BY ResolvedWasMade, BoundAssumption DEF IInv, ObjectsWereMade, Objects
    <2>3. VersionsOK(indexes[o].versions)
      BY <2>2 DEF TInv, IndexOK
    <2> QED
      BY <2>1, <2>3, WithoutIsOK, ReindexedIsOK, SyncIsTyped
  <1>7. ASSUME NEW v, DropReplica(p, v) PROVE TInv'
    <2>1. Begin(SyncPlan("drop", p, bindings[p].object, Reindexed(Without(ix.versions, v)), {"index"}), 0)
      BY <1>7 DEF DropReplica
    <2> QED
      BY <1>0, <2>1, WithoutIsOK, ReindexedIsOK, SyncIsTyped
  <1>8. ASSUME NEW v, NEW q \in Paths, Restore(p, v, q) PROVE TInv'
    <2>1. PICK o \in ResolveVersion(p, v) :
            /\ indexes[o].versions[v].manifest # TOMBSTONE
            /\ CopyTo("restore", q, indexes[o].versions[v].manifest.content, indexes[o].versions[v].state)
      BY <1>8 DEF Restore
    <2>2. o \in Objects
      BY ResolvedWasMade, BoundAssumption DEF IInv, ObjectsWereMade, Objects
    <2>3. v \in DOMAIN indexes[o].versions
      BY <2>1 DEF ResolveVersion, IndexFor, EmptyIndex
    <2>4. indexes[o].versions[v] \in Records
      BY <2>2, <2>3 DEF TInv, IndexOK, VersionsOK
    <2>5. indexes[o].versions[v].manifest.content \in Contents /\ indexes[o].versions[v].state \in States
      BY <2>1, <2>4 DEF Records, Manifests
    <2> QED
      BY <2>1, <2>5, CopyToIsTyped
  <1> QED
    BY <1>1, <1>2, <1>3, <1>4, <1>5, <1>6, <1>7, <1>8, RenameIsTyped DEF Operation

\* The writes store what the plan has.
LEMMA WritingIsTyped ==
    ASSUME IInv, TInv, Writing
    PROVE  TInv'
  <1>0. /\ pending # Idle /\ PlanIsSound(pending, ids) /\ UNCHANGED <<now, crashes>>
        /\ IndexOK(pending.index) /\ IndexOK(pending.marker.index) /\ pending.bind \in Manifests
    BY DEF IInv, TInv, PlanIsComplete, Writing, WriteIndex, RemoveBinding, UpsertBinding, WriteMarker
  <1>1. /\ \A o \in Objects : indexes'[o] \in {indexes[o], pending.index, pending.marker.index}
        /\ pending' # Idle => /\ pending'.index = pending.index /\ pending'.marker = pending.marker
                              /\ pending'.bind = pending.bind
    BY <1>0 DEF Writing, WriteIndex, RemoveBinding, UpsertBinding, WriteMarker, Settle, PlanIsSound, Plan,
                IInv, ObjectsWereMade
  <1>2. bindings' \in [Paths -> Entries]
    <2>1. pending.object \in Objects
      BY <1>0, BoundAssumption DEF PlanIsSound, Objects, IInv, ObjectsWereMade
    <2>2. Unbound \in Entries /\ [object |-> pending.object, manifest |-> pending.bind] \in Entries
      BY <1>0, <2>1 DEF Entries
    <2> QED
      BY <2>2 DEF TInv, Writing, WriteIndex, RemoveBinding, UpsertBinding, WriteMarker
  <1>3. \A o \in Objects : IndexOK(indexes'[o])
    BY <1>0, <1>1 DEF TInv
  <1> QED
    BY <1>0, <1>1, <1>2, <1>3 DEF TInv

\* A node starts with empty indexes.
LEMMA TypesStart == Init => TInv
  <1>1. Unbound \in Entries
    BY DEF Entries
  <1> QED
    BY <1>1, EmptyIsOK, BoundAssumption DEF Init, TInv

\* Every step leaves typed indexes.
LEMMA TypesKeep == IInv /\ TInv /\ [Next]_vars => TInv'
  <1> SUFFICES ASSUME IInv, TInv, [Next]_vars PROVE TInv'
    OBVIOUS
  <1>1. CASE Crash \/ Tick \/ UNCHANGED vars
    <2>1. /\ UNCHANGED <<indexes, bindings>> /\ pending' \in {Idle, pending}
          /\ now' \in 0..MaxTime /\ crashes' \in 0..MaxCrashes
      BY <1>1, BoundAssumption DEF Crash, Tick, vars, durable, TInv
    <2> QED
      BY <2>1 DEF TInv
  <1> QED
    BY <1>1, WritingIsTyped, OperationIsTyped DEF Next

\* The indexes that a crash or a finished operation leaves are readable: every
\* version has a record, heads and preferred head exist, since the order of
\* choose_preferred_head is total, and bindings name objects that were made.
THEOREM StoreTypesHold == Spec => []TypeOK
  <1>1. IInv /\ TInv => TypeOK
    BY DEF IInv, ObjectsWereMade, TInv, IndexOK, VersionsOK, TypeOK
  <1> QED
    BY <1>1, TypesStart, TypesKeep, InitHolds, StepKeeps, PTL DEF Spec

-------------------------------------------------------------------------------
(***************************************************************************)
(* Replication.  One node is proved about, among peers of which only this  *)
(* is assumed: a bundle names an object and a version whose ids have been  *)
(* made, and a path.  Bundles are lost, repeated and reordered at will,    *)
(* records and flags are arbitrary.  Every bundle that the node exports is *)
(* one that its peers may assume of it (BundleOK again), so that what is   *)
(* proved holds of every node of a cluster.                                *)
(***************************************************************************)

\* A bundle that peers may send after `made' ids were made in the cluster.
BundleOK(b, made) ==
    /\ b.object \in 1..made
    /\ b.version.n \in (1..made) \cup ForeignIds
    /\ "path" \in DOMAIN b.record /\ b.record.path \in Paths

\* Peers make ids, and send whatever they like of such bundles.
PeersAct ==
    /\ ids' \in ids..MaxIds
    /\ \A b \in inbox' : BundleOK(b, ids')
    /\ UNCHANGED <<durable, pending, now, crashes, outbox, import>>

\* All operations of the store, where ReplicaNext has those that its runs need.
StoreActs ==
    /\ Tick \/ (import = NoImport /\ \E p \in Paths : Operation(p))
    /\ UNCHANGED <<outbox, inbox, import>>

ReplicaSpec == ReplicaInit /\ [][ReplicaNext \/ StoreActs \/ PeersAct]_replicaVars

\* Histories that share no version of a path.
Apart(vs, ws) ==
    \A v \in DOMAIN vs \cap DOMAIN ws : v.n \notin ForeignIds => vs[v].path # ws[v].path

\* Every version was written for a path.
Placed(vs) == \A v \in DOMAIN vs : "path" \in DOMAIN vs[v] /\ vs[v].path \in Paths

\* The version that an import may take from one object to give it to another.
Moving == IF import = NoImport THEN {} ELSE {import.bundle.version}

\* What a plan is going to store keeps histories apart and loses no version.
PlanFits(plan) ==
    /\ Placed(plan.index.versions) /\ Placed(plan.marker.index.versions)
    /\ \A o \in Objects \ {plan.object} : Apart(plan.index.versions, indexes[o].versions)
    /\ \A o \in Objects : Apart(plan.marker.index.versions, indexes[o].versions)
    /\ Apart(plan.marker.index.versions, plan.index.versions)
    /\ "index" \in plan.todo /\ plan.op \notin {"delete", "drop"} =>
          DOMAIN indexes[plan.object].versions \ DOMAIN plan.index.versions \subseteq Moving
    /\ "marker" \in plan.todo => /\ plan.marker.object # plan.object
                                 /\ indexes[plan.marker.object] = EmptyIndex

VInv ==
    /\ \A o \in Objects : Placed(indexes[o].versions)
    /\ \A o, other \in Objects : o # other => Apart(indexes[o].versions, indexes[other].versions)
    /\ pending # Idle => PlanFits(pending)

\* The versions of an object after an operation: new ones, and old ones at their
\* paths; none is missing unless that was asked for, or it moves.
Changes(op, o, vs) ==
    /\ Placed(vs)
    /\ \A v \in DOMAIN vs :
          \/ v.n \notin 1..ids
          \/ v \in DOMAIN indexes[o].versions /\ vs[v].path = indexes[o].versions[v].path
    /\ op \in {"delete", "drop"} \/ DOMAIN indexes[o].versions \ DOMAIN vs \subseteq Moving

\* The object of a path has the index of the path, even if its id is made just now.
LEMMA ObjectHasIndex ==
    ASSUME IInv, NEW p \in Paths, Bound(p) \/ ids + 1 <= MaxIds
    PROVE  ObjectFor(p) \in Objects /\ IndexFor(p) = indexes[ObjectFor(p)]
  <1>1. CASE Bound(p)
    BY <1>1, BoundAssumption DEF IInv, ObjectsWereMade, Bound, Objects, ObjectFor, IndexFor
  <1>2. CASE ~Bound(p)
    <2>1. ids + 1 \in Objects /\ ids + 1 \notin 1..ids
      BY <1>2, BoundAssumption DEF IInv, ObjectsWereMade, Objects
    <2>2. indexes[ids + 1] = EmptyIndex
      BY <2>1 DEF IInv, ObjectsWereMade
    <2> QED
      BY <1>2, <2>1, <2>2 DEF ObjectFor, NewObject, IndexFor
  <1> QED
    BY <1>1, <1>2

\* A new version is added to what is there.
LEMMA InsertChanges ==
    ASSUME VInv, NEW o \in Objects, NEW v, v.n \notin 1..ids, NEW record,
           "path" \in DOMAIN record, record.path \in Paths, NEW op
    PROVE  Changes(op, o, Insert(indexes[o].versions, v, record))
  <1> DEFINE vs == Insert(indexes[o].versions, v, record)
  <1>1. /\ DOMAIN vs = DOMAIN indexes[o].versions \cup {v}
        /\ vs[v] = record
        /\ \A w \in DOMAIN indexes[o].versions : w # v => vs[w] = indexes[o].versions[w]
    BY DEF Insert
  <1> HIDE DEF vs
  <1>2. Placed(indexes[o].versions)
    BY DEF VInv
  <1>3. Placed(vs)
    BY <1>1, <1>2 DEF Placed
  <1> QED
    BY <1>1, <1>3 DEF Changes, vs

\* A version is removed.
LEMMA WithoutChanges ==
    ASSUME VInv, NEW o \in Objects, NEW v, NEW op, op \in {"delete", "drop"} \/ v \in Moving
    PROVE  Changes(op, o, Without(indexes[o].versions, v))
  <1>1. Placed(indexes[o].versions)
    BY DEF VInv
  <1> QED
    BY <1>1 DEF Changes, Placed, Without

\* Nothing changes.
LEMMA SameChanges ==
    ASSUME VInv, NEW o \in Objects, NEW op
    PROVE  Changes(op, o, indexes[o].versions)
  <1>1. Placed(indexes[o].versions)
    BY DEF VInv
  <1> QED
    BY <1>1 DEF Changes

\* What an index that is made of a history stores.
LEMMA IndexStores ==
    ASSUME NEW ix, NEW vs, NEW heads, NEW v, NEW record
    PROVE  /\ Index(vs, heads).versions = vs
           /\ Reindexed(vs).versions = vs
           /\ WithVersion(ix, v, record).versions = Insert(ix.versions, v, record)
  BY DEF Index, Reindexed, WithVersion

\* All operations but a rename write one index, and change it in one of those ways.
LEMMA OperationChanges ==
    ASSUME IInv, VInv, NEW p \in Paths, Operation(p)
    PROVE  \/ \E op, q, k, ix : \E o \in Objects, todo \in {{}, {"index"}} :
                 Begin(SyncPlan(op, q, o, ix, todo), k) /\ Changes(op, o, ix.versions)
           \/ \E q \in Paths : Rename(p, q)
  <1> DEFINE Goal == \E op, q, k, ix : \E o \in Objects, todo \in {{}, {"index"}} :
                        Begin(SyncPlan(op, q, o, ix, todo), k) /\ Changes(op, o, ix.versions)
  <1>0. ids \in Nat /\ ids + 1 \notin 1..ids /\ \A f \in ForeignIds : f \notin 1..ids
    BY ForeignAssumption, BoundAssumption DEF IInv, ObjectsWereMade
  <1>1. ASSUME NEW q \in Paths, NEW v, v.n \notin 1..ids, NEW m, NEW parents, NEW st, NEW op, NEW k, NEW ix,
               ix.versions = Insert(IndexFor(q).versions, v, RecordAt(q, m, parents, st)),
               Bound(q) \/ ids + 1 <= MaxIds,
               Begin(SyncPlan(op, q, ObjectFor(q), ix, {"index"}), k)
        PROVE  Goal
    <2>1. ObjectFor(q) \in Objects /\ IndexFor(q) = indexes[ObjectFor(q)]
      BY <1>1, ObjectHasIndex
    <2>2. "path" \in DOMAIN RecordAt(q, m, parents, st) /\ RecordAt(q, m, parents, st).path \in Paths
      BY DEF RecordAt
    <2>3. Changes(op, ObjectFor(q), ix.versions)
      BY <1>1, <2>1, <2>2, InsertChanges
    <2> QED
      BY <1>1, <2>1, <2>3
  <1> HIDE DEF Goal
  <1>2. ASSUME NEW q \in Paths, NEW op, NEW c, NEW st, CopyTo(op, q, c, st) PROVE Goal
    <2> DEFINE v  == [kind |-> op, n |-> ids + 1]
               ix == Reindexed(Insert(IndexFor(q).versions, v,
                                      RecordAt(q, Manifest(q, c), Preferred(IndexFor(q)), st)))
    <2>1. Begin(SyncPlan(op, q, ObjectFor(q), ix, {"index"}), 1)
      BY <1>2 DEF CopyTo
    <2>2. ids + 1 <= MaxIds /\ v.n \notin 1..ids
      BY <1>0, <2>1 DEF Begin
    <2>3. ix.versions = Insert(IndexFor(q).versions, v, RecordAt(q, Manifest(q, c), Preferred(IndexFor(q)), st))
      BY IndexStores
    <2> HIDE DEF ix, v
    <2> QED
      BY <1>1, <2>1, <2>2, <2>3
  <1>3. ASSUME NEW kind, NEW m, NEW parents, NEW st, NEW op,
               Begin(SyncPlan(op, p, ObjectFor(p),
                         WithVersion(IndexFor(p), [kind |-> kind, n |-> ids + 1], RecordAt(p, m, parents, st)),
                         {"index"}), 1)
        PROVE  Goal
    <2> DEFINE v  == [kind |-> kind, n |-> ids + 1]
               ix == WithVersion(IndexFor(p), v, RecordAt(p, m, parents, st))
    <2>2. ids + 1 <= MaxIds /\ v.n \notin 1..ids
      BY <1>0, <1>3 DEF Begin
    <2>3. ix.versions = Insert(IndexFor(p).versions, v, RecordAt(p, m, parents, st))
      BY IndexStores
    <2> QED
      BY <1>1, <1>3, <2>2, <2>3
  <1>4. ASSUME NEW c, NEW requested, NEW st, Put(p, c, requested, st) PROVE Goal
    BY <1>3, <1>4 DEF Put
  <1>5. ASSUME NEW requested, NEW st, Tombstone(p, requested, st) PROVE Goal
    BY <1>3, <1>5 DEF Tombstone
  <1>6. ASSUME NEW c, NEW f \in ForeignIds, Reconcile(p, c, f) PROVE Goal
    <2> DEFINE v  == [kind |-> "ver", n |-> f]
               ix == WithVersion(IndexFor(p), v, RecordAt(p, Manifest(p, c), {}, Provisional))
    <2>1. CASE v \notin DOMAIN IndexFor(p).versions
      <3>1. PICK k : /\ k = IF Bound(p) THEN 0 ELSE 1
                     /\ Begin(SyncPlan("reconcile", p, ObjectFor(p), ix, {"index"}), k)
        BY <1>6, <2>1 DEF Reconcile
      <3>2. v.n \notin 1..ids /\ (Bound(p) \/ ids + 1 <= MaxIds)
        BY <1>0, <3>1 DEF Begin
      <3>3. ix.versions = Insert(IndexFor(p).versions, v, RecordAt(p, Manifest(p, c), {}, Provisional))
        BY IndexStores
      <3> HIDE DEF ix, v
      <3> QED
        BY <1>1, <3>1, <3>2, <3>3
    <2>2. CASE v \in DOMAIN IndexFor(p).versions
      <3>1. Bound(p)
        BY <2>2 DEF IndexFor, EmptyIndex
      <3>2. ObjectFor(p) \in Objects /\ IndexFor(p) = indexes[ObjectFor(p)]
        BY <3>1, ObjectHasIndex
      <3>3. Begin(SyncPlan("reconcile", p, ObjectFor(p), IndexFor(p), {}), 0)
        BY <1>6, <2>2 DEF Reconcile
      <3> QED
        BY <3>2, <3>3, SameChanges DEF Goal
    <2> QED
      BY <2>1, <2>2
  <1>7. ASSUME NEW v, Commit(p, v) PROVE Goal
    <2> DEFINE ix == IndexFor(p)
               vs == [ix.versions EXCEPT ![v].state = Confirmed]
    <2>1. v \in DOMAIN ix.versions /\ Begin(SyncPlan("commit", p, ObjectFor(p), Index(vs, ix.heads), {"index"}), 0)
      BY <1>7 DEF Commit
    <2>2. Bound(p)
      BY <2>1 DEF IndexFor, EmptyIndex
    <2>3. ObjectFor(p) \in Objects /\ ix = indexes[ObjectFor(p)]
      BY <2>2, ObjectHasIndex
    <2>4. Placed(ix.versions)
      BY <2>3 DEF VInv
    <2>5. /\ DOMAIN vs = DOMAIN ix.versions
          /\ \A w \in DOMAIN vs : DOMAIN vs[w] = DOMAIN ix.versions[w]
          /\ \A w \in DOMAIN vs : "path" \in DOMAIN ix.versions[w] => vs[w].path = ix.versions[w].path
      OBVIOUS
    <2>6. Index(vs, ix.heads).versions = vs
      BY IndexStores
    <2> HIDE DEF vs
    <2>7. Changes("commit", ObjectFor(p), vs)
      BY <2>3, <2>4, <2>5 DEF Changes, Placed
    <2> QED
      BY <2>1, <2>3, <2>6, <2>7 DEF Goal
  <1>8. ASSUME NEW v, DeleteVersion(p, v) PROVE Goal
    <2>1. PICK o \in ResolveVersion(p, v) :
            Begin(SyncPlan("delete", p, o, Reindexed(Without(indexes[o].versions, v)), {"index"}), 0)
      BY <1>8 DEF DeleteVersion
    <2>2. o \in Objects
      BY ResolvedWasMade, BoundAssumption DEF IInv, ObjectsWereMade, Objects
    <2>3. Changes("delete", o, Without(indexes[o].versions, v))
      BY <2>2, WithoutChanges
    <2>4. Changes("delete", o, Reindexed(Without(indexes[o].versions, v)).versions)
      BY <2>3, IndexStores
    <2> QED
      BY <2>1, <2>2, <2>4 DEF Goal
  <1>9. ASSUME NEW v, DropReplica(p, v) PROVE Goal
    <2>1. Bound(p)
      BY <1>9 DEF DropReplica, IndexFor, EmptyIndex
    <2>2. ObjectFor(p) \in Objects /\ IndexFor(p) = indexes[ObjectFor(p)] /\ ObjectFor(p) = bindings[p].object
      BY <2>1, ObjectHasIndex DEF ObjectFor
    <2>3. Begin(SyncPlan("drop", p, ObjectFor(p), Reindexed(Without(IndexFor(p).versions, v)), {"index"}), 0)
      BY <1>9, <2>2 DEF DropReplica
    <2>4. Changes("drop", ObjectFor(p), Without(IndexFor(p).versions, v))
      BY <2>2, WithoutChanges
    <2>5. Changes("drop", ObjectFor(p), Reindexed(Without(IndexFor(p).versions, v)).versions)
      BY <2>4, IndexStores
    <2> QED
      BY <2>2, <2>3, <2>5 DEF Goal
  <1>10. ASSUME NEW q \in Paths, Copy(p, q) PROVE Goal
    BY <1>2, <1>10 DEF Copy
  <1>11. ASSUME NEW v, NEW q \in Paths, Restore(p, v, q) PROVE Goal
    BY <1>2, <1>11 DEF Restore
  <1> QED
    BY <1>4, <1>5, <1>6, <1>7, <1>8, <1>9, <1>10, <1>11 DEF Operation, Goal

-------------------------------------------------------------------------------

\* An index that an operation has changed shares no version with other objects:
\* the ids of new versions are new to all of them.
LEMMA ChangesAreApart ==
    ASSUME IInv, HInv, VInv, NEW op, NEW o \in Objects, NEW vs, Changes(op, o, vs), NEW other \in Objects \ {o}
    PROVE  Apart(vs, indexes[other].versions)
  <1> SUFFICES ASSUME NEW v \in DOMAIN vs \cap DOMAIN indexes[other].versions, v.n \notin ForeignIds
               PROVE  vs[v].path # indexes[other].versions[v].path
    BY DEF Apart
  <1>1. v.n \in 1..ids
    BY DEF HInv, Good, Numbered
  <1>2. v \in DOMAIN indexes[o].versions /\ vs[v].path = indexes[o].versions[v].path
    BY <1>1 DEF Changes
  <1> QED
    BY <1>2 DEF VInv, Apart

\* So the plan of such an operation fits.
LEMMA SyncFits ==
    ASSUME IInv, HInv, VInv, NEW op, NEW p, NEW o \in Objects, NEW ix, NEW todo, "marker" \notin todo,
           Changes(op, o, ix.versions)
    PROVE  PlanFits(SyncPlan(op, p, o, ix, todo))
  <1> DEFINE plan == SyncPlan(op, p, o, ix, todo)
  <1>1. /\ plan.op = op /\ plan.object = o /\ plan.index = ix /\ plan.marker = NoMarker
        /\ "marker" \notin plan.todo
    BY DEF SyncPlan, Plan
  <1> HIDE DEF plan
  <1>2. plan.marker.index.versions = <<>>
    BY <1>1 DEF NoMarker, EmptyIndex
  <1>3. DOMAIN <<>> = {}
    OBVIOUS
  <1>4. Placed(plan.marker.index.versions) /\ \A ws : Apart(plan.marker.index.versions, ws)
    BY <1>2, <1>3 DEF Placed, Apart
  <1>5. \A other \in Objects \ {o} : Apart(ix.versions, indexes[other].versions)
    BY ChangesAreApart
  <1>6. PlanFits(plan)
    BY <1>1, <1>4, <1>5 DEF PlanFits, Changes
  <1> QED
    BY <1>6 DEF plan

\* A plan that is about to be carried out.
LEMMA BeginFits ==
    ASSUME VInv, NEW plan, PlanFits(plan), indexes' = indexes, Moving' = Moving,
           pending' = Idle \/ pending' = plan
    PROVE  VInv'
  <1>1. PlanFits(plan)'
    BY DEF PlanFits
  <1> QED
    BY <1>1 DEF VInv, PlanFits

\* Both versions that a rename makes are new, and so is the object of its tombstone.
LEMMA RenameFits ==
    ASSUME IInv, HInv, VInv, NEW p \in Paths, NEW q \in Paths, Rename(p, q), import' = import
    PROVE  VInv'
  <1> DEFINE ren  == [kind |-> "ren", n |-> ids + 1]
             gone == [kind |-> "rename_tomb", n |-> ids + 2]
             o    == bindings[p].object
             plan(m, parents, st, r) ==
                Plan("rename", q, o, WithVersion(IndexFor(p), ren, RecordAt(q, m, parents, st)),
                     {p}, m, {"index", "bind", "marker"},
                     [object |-> ids + 2, index |-> Reindexed(Insert(<<>>, gone, r))])
  <1>1. PICK m, parents, st, from :
           /\ Bound(p)
           /\ Begin(plan(m, parents, st, [RecordAt(p, TOMBSTONE, parents, st) EXCEPT !.copied_from = from]), 2)
    BY DEF Rename
  <1>2. PICK r : r = [RecordAt(p, TOMBSTONE, parents, st) EXCEPT !.copied_from = from]
    OBVIOUS
  <1>3. "path" \in DOMAIN r /\ r.path \in Paths
    BY <1>2 DEF RecordAt
  <1>4. PICK w : w = plan(m, parents, st, r)
    OBVIOUS
  <1>5. /\ w.op = "rename" /\ w.object = o /\ w.marker.object = ids + 2
        /\ w.index.versions = Insert(IndexFor(p).versions, ren, RecordAt(q, m, parents, st))
        /\ w.marker.index.versions = Insert(<<>>, gone, r)
    BY <1>4, IndexStores DEF Plan
  <1>6. /\ ids \in Nat /\ ids + 2 <= MaxIds /\ ids + 1 \notin 1..ids /\ ids + 2 \notin 1..ids
        /\ ids + 1 \notin ForeignIds /\ ids + 2 \notin ForeignIds /\ ids + 2 \in Objects
    BY <1>1, ForeignAssumption, BoundAssumption DEF Begin, IInv, ObjectsWereMade, Objects
  <1>7. o \in Objects /\ o \in 1..ids /\ IndexFor(p) = indexes[o]
    BY <1>1, BoundAssumption DEF IInv, ObjectsWereMade, Bound, Objects, IndexFor
  <1>8. Changes("rename", o, w.index.versions)
    <2>1. "path" \in DOMAIN RecordAt(q, m, parents, st) /\ RecordAt(q, m, parents, st).path \in Paths
      BY DEF RecordAt
    <2>2. ren.n \notin 1..ids
      BY <1>6
    <2> HIDE DEF ren, o
    <2> QED
      BY <1>5, <1>7, <2>1, <2>2, InsertChanges
  <1>9. DOMAIN w.marker.index.versions = {gone} /\ w.marker.index.versions[gone] = r
    BY <1>5 DEF Insert
  <1>10. /\ \A other \in Objects : gone \notin DOMAIN indexes[other].versions
         /\ gone \notin DOMAIN w.index.versions
    <2>1. \A other \in Objects : gone \notin DOMAIN indexes[other].versions
      BY <1>6 DEF HInv, Good, Numbered
    <2>2. gone # ren
      BY <1>6
    <2> QED
      BY <1>5, <1>7, <2>1, <2>2 DEF Insert
  <1>11. /\ Placed(w.marker.index.versions)
         /\ \A other \in Objects : Apart(w.marker.index.versions, indexes[other].versions)
         /\ Apart(w.marker.index.versions, w.index.versions)
    BY <1>3, <1>9, <1>10 DEF Placed, Apart
  <1>12. indexes[ids + 2] = EmptyIndex /\ ids + 2 # o
    BY <1>6, <1>7 DEF IInv, ObjectsWereMade
  <1>13. \A other \in Objects \ {o} : Apart(w.index.versions, indexes[other].versions)
    BY <1>7, <1>8, ChangesAreApart
  <1>14. PlanFits(w)
    BY <1>5, <1>8, <1>11, <1>12, <1>13 DEF PlanFits, Changes
  <1>15. indexes' = indexes /\ (pending' = Idle \/ pending' = w) /\ Moving' = Moving
    BY <1>1, <1>2, <1>4 DEF Begin, Settle, durable, Moving
  <1> QED
    BY <1>14, <1>15, BeginFits

\* Every operation of a client keeps histories apart.
LEMMA OperationFits ==
    ASSUME IInv, HInv, VInv, NEW p \in Paths, Operation(p), import' = import
    PROVE  VInv'
  <1>1. ASSUME NEW op, NEW q, NEW k, NEW ix, NEW o \in Objects, NEW todo \in {{}, {"index"}},
               Begin(SyncPlan(op, q, o, ix, todo), k), Changes(op, o, ix.versions)
        PROVE  VInv'
    <2>1. PlanFits(SyncPlan(op, q, o, ix, todo))
      BY <1>1, SyncFits
    <2>2. /\ indexes' = indexes /\ Moving' = Moving
          /\ pending' = Idle \/ pending' = SyncPlan(op, q, o, ix, todo)
      BY <1>1 DEF Begin, Settle, durable, Moving
    <2> QED
      BY <2>1, <2>2, BeginFits
  <1> QED
    BY <1>1, RenameFits, OperationChanges

\* The index and the tombstone of a rename are written as they were planned.
LEMMA WritingFits ==
    ASSUME IInv, HInv, VInv, Writing, import' = import
    PROVE  VInv'
  <1>0. PICK plan : plan = pending
    OBVIOUS
  <1>1. /\ plan # Idle /\ PlanIsSound(plan, ids) /\ PlanFits(plan) /\ Moving' = Moving
    BY <1>0 DEF IInv, PlanIsComplete, VInv, Writing, WriteIndex, RemoveBinding,
                UpsertBinding, WriteMarker, Moving
  <1>2. /\ plan = Plan(plan.op, plan.path, plan.object, plan.index, plan.unbind, plan.bind,
                       plan.todo, plan.marker)
        /\ plan.object \in Objects
        /\ indexes = [o \in Objects |-> indexes[o]]
    BY <1>1, BoundAssumption DEF PlanIsSound, Objects, IInv, ObjectsWereMade
  <1>3. \A vs, ws : Apart(vs, ws) <=> Apart(ws, vs)
    BY DEF Apart
  <1>4. CASE WriteIndex
    <2>1. PICK w : w = [plan EXCEPT !.todo = @ \ {"index"}]
      OBVIOUS
    <2>2. /\ w.todo = plan.todo \ {"index"} /\ w.op = plan.op
          /\ w.object = plan.object /\ w.index = plan.index /\ w.marker = plan.marker
      BY <1>2, <2>1 DEF Plan
    <2>3. /\ pending' = Idle \/ pending' = w
          /\ indexes'[plan.object] = plan.index
          /\ \A o \in Objects \ {plan.object} : indexes'[o] = indexes[o]
      BY <1>0, <1>2, <1>4, <2>1 DEF WriteIndex, Settle
    <2>4. /\ \A o \in Objects : Placed(indexes'[o].versions)
          /\ \A o, other \in Objects : o # other => Apart(indexes'[o].versions, indexes'[other].versions)
      BY <1>1, <1>2, <1>3, <2>3 DEF VInv, PlanFits
    <2>5. "marker" \in plan.todo => indexes'[plan.marker.object] = indexes[plan.marker.object]
      <3>1. "marker" \in plan.todo => plan.marker.object \in Objects \ {plan.object}
        BY <1>1, BoundAssumption DEF PlanIsSound, PlanFits, Objects, IInv, ObjectsWereMade
      <3> QED
        BY <2>3, <3>1
    <2>6. (PlanFits(w))'
      BY <1>1, <1>2, <2>2, <2>3, <2>5 DEF PlanFits
    <2> QED
      BY <2>3, <2>4, <2>6 DEF VInv, PlanFits
  <1>5. CASE UpsertBinding \/ \E p \in Paths : RemoveBinding(p)
    <2>1. PICK p, w : \/ w = [plan EXCEPT !.todo = @ \ {"bind"}] /\ UpsertBinding
                      \/ w = [plan EXCEPT !.unbind = @ \ {p}] /\ RemoveBinding(p)
      BY <1>5
    <2>2. /\ w.todo \subseteq plan.todo /\ w.op = plan.op
          /\ w.object = plan.object /\ w.index = plan.index /\ w.marker = plan.marker
      BY <1>2, <2>1 DEF Plan
    <2>3. indexes' = indexes /\ (pending' = Idle \/ pending' = w)
      BY <1>0, <2>1 DEF UpsertBinding, RemoveBinding, Settle
    <2>4. PlanFits(w)
      BY <1>1, <2>2 DEF PlanFits
    <2> QED
      BY <1>1, <2>3, <2>4, BeginFits
  <1>6. CASE WriteMarker
    <2>1. /\ pending' = Idle /\ indexes' = [indexes EXCEPT ![plan.marker.object] = plan.marker.index]
          /\ "marker" \in plan.todo
      BY <1>0, <1>6 DEF WriteMarker
    <2>2. plan.marker.object \in Objects
      BY <1>1, <2>1, BoundAssumption DEF PlanIsSound, Objects, IInv, ObjectsWereMade
    <2>3. /\ indexes'[plan.marker.object] = plan.marker.index
          /\ \A o \in Objects \ {plan.marker.object} : indexes'[o] = indexes[o]
      BY <1>2, <2>1, <2>2
    <2>4. /\ \A o \in Objects : Placed(indexes'[o].versions)
          /\ \A o, other \in Objects : o # other => Apart(indexes'[o].versions, indexes'[other].versions)
      BY <1>1, <1>3, <2>2, <2>3 DEF VInv, PlanFits
    <2> QED
      BY <2>1, <2>4 DEF VInv
  <1> QED
    BY <1>4, <1>5, <1>6 DEF Writing

-------------------------------------------------------------------------------

\* The import has stored its version, or is about to.
Arrives ==
    LET o == import.object
        v == import.bundle.version
    IN  IF pending = Idle THEN v \in DOMAIN indexes[o].versions
        ELSE /\ pending.object = o
             /\ v \in DOMAIN pending.index.versions
             /\ "marker" \notin pending.todo
             /\ "index" \notin pending.todo => indexes[o] = pending.index

\* The object has a name that nothing is going to remove, and the path of the bundle
\* if that is where its head belongs.
Named(o, p, unbind) ==
    /\ BoundPaths(o) \ unbind # {}
    /\ HeadRecord(indexes[o]).path = p =>
          bindings[p] = [object |-> o, manifest |-> HeadRecord(indexes[o]).manifest]

\* The import has bound its object, or is about to.
Promoted ==
    LET o  == import.object
        p  == import.record.path
    IN  IF pending = Idle THEN Live(indexes[o]) => Named(o, p, {})
        ELSE /\ pending.path = p
             /\ "index" \notin pending.todo
             /\ Live(indexes[o]) =>
                   /\ p \notin pending.unbind
                   /\ pending.bind = HeadRecord(indexes[o]).manifest
                   /\ "bind" \in pending.todo \/ Named(o, p, pending.unbind)

ImportOK ==
    /\ import = [stage |-> import.stage, bundle |-> import.bundle, object |-> import.object,
                 record |-> import.record]
    /\ import.object \in 1..ids
    /\ import.bundle.version.n \in (1..ids) \cup ForeignIds
    /\ "path" \in DOMAIN import.record /\ import.record.path \in Paths
    /\ import.stage \in {"prune", "select", "done"}
    /\ import.stage \in {"select", "done"} => Arrives
    /\ import.stage = "done" /\ import.bundle.selected_is_preferred_head /\ ~IsTombstone(import.bundle)
          => Promoted

\* Bundles are as peers assume them, and the import is under way.
MInv ==
    /\ \A b \in inbox \cup outbox : BundleOK(b, ids)
    /\ import # NoImport => ImportOK

\* A bundle is as good when more ids are made.
LEMMA BundleForLonger ==
    ASSUME NEW b, NEW m \in Nat, NEW k \in Nat, m <= k, BundleOK(b, m)
    PROVE  BundleOK(b, k)
  <1>1. 1..m \subseteq 1..k
    OBVIOUS
  <1> QED
    BY <1>1 DEF BundleOK

\* The object that choose_replication_bundle_object_id chooses was made.
LEMMA LineageWasMade ==
    ASSUME IInv, NEW b, BundleOK(b, ids), NEW o \in Lineage(b)
    PROVE  o \in 1..(ids + IF Recreates(b) THEN 1 ELSE 0)
  <1> DEFINE p == b.record.path
  <1>0. ids \in Nat /\ p \in Paths /\ b.object \in 1..ids
    BY DEF IInv, ObjectsWereMade, BundleOK
  <1>1. \/ o = b.object \/ (Recreates(b) /\ o = ids + 1)
        \/ o \in ResolveVersion(p, b.version) \/ o \in ResolveHistory(p)
    BY DEF Lineage, NewObject
  <1>2. ASSUME o \in ResolveHistory(p) PROVE o \in 1..ids
    <2>1. EmptyIndex.preferred = NoVersion
      BY DEF EmptyIndex
    <2> QED
      BY <1>0, <1>2, <2>1 DEF ResolveHistory, IInv, ObjectsWereMade, Bound
  <1>3. o \in ResolveVersion(p, b.version) => o \in 1..ids
    BY <1>0, ResolvedWasMade
  <1> QED
    BY <1>0, <1>1, <1>2, <1>3

\* The path of a bundle is kept when its record is dated anew.
LEMMA ImportedPath ==
    ASSUME NEW b, NEW made, BundleOK(b, made)
    PROVE  "path" \in DOMAIN ImportedRecord(b) /\ ImportedRecord(b).path = b.record.path
  BY DEF ImportedRecord, BundleOK

\* promote_current_state_for_key_from_index takes every other name of the object
\* away before it binds the path, and binds only what is live.
LEMMA PromoteIsSound ==
    ASSUME IInv, NEW p \in Paths, NEW o \in 1..ids
    PROVE  LET plan == PromotePlan(p, o)
           IN  /\ PlanIsSound(plan, ids) /\ PlanShows(plan)
               /\ plan.object = o /\ plan.index = indexes[o] /\ plan.marker = NoMarker /\ plan.path = p
               /\ plan.todo \subseteq {"bind"} /\ plan.op = "promote"
               /\ Live(indexes[o]) => /\ p \notin plan.unbind
                                      /\ plan.bind = HeadRecord(indexes[o]).manifest
                                      /\ "bind" \in plan.todo \/ Named(o, p, plan.unbind)
  <1> DEFINE ix    == indexes[o]
             moves == HeadRecord(ix).path = p \/ BoundPaths(o) \ {p} = {}
             binds == moves /\ bindings[p] # [object |-> o, manifest |-> HeadRecord(ix).manifest]
  <1>1. PICK plan : plan = PromotePlan(p, o)
    OBVIOUS
  <1>2. /\ plan = Plan(plan.op, plan.path, plan.object, plan.index, plan.unbind, plan.bind,
                       plan.todo, plan.marker)
        /\ plan.object = o /\ plan.index = ix /\ plan.marker = NoMarker /\ plan.path = p
        /\ plan.op = "promote"
    BY <1>1 DEF PromotePlan, Plan
  <1>3. CASE ~Live(ix)
    <2>1. plan.unbind = BoundPaths(o) /\ plan.todo = {}
      BY <1>1, <1>3 DEF PromotePlan, Plan
    <2>2. PlanIsSound(plan, ids) /\ PlanShows(plan)
      BY <1>2, <2>1 DEF PlanIsSound, PlanShows, BoundPaths
    <2> QED
      BY <1>1, <1>2, <1>3, <2>1, <2>2
  <1>4. CASE Live(ix)
    <2>1. /\ plan.unbind = IF moves THEN BoundPaths(o) \ {p} ELSE {}
          /\ plan.bind = HeadRecord(ix).manifest
          /\ plan.todo = IF binds THEN {"bind"} ELSE {}
      BY <1>1, <1>4 DEF PromotePlan, Plan
    <2>2. p \notin plan.unbind /\ plan.todo \subseteq {"bind"} /\ ("bind" \in plan.todo => moves)
      BY <2>1
    <2>3. "bind" \in plan.todo => \A q \in Paths \ {p} : bindings[q].object = o => q \in plan.unbind
      BY <2>1, <2>2 DEF BoundPaths
    <2>4. PlanIsSound(plan, ids) /\ PlanShows(plan)
      BY <1>2, <1>4, <2>2, <2>3 DEF PlanIsSound, PlanShows, Shows
    <2>5. "bind" \in plan.todo \/ Named(o, p, plan.unbind)
      <3>1. CASE ~moves
        BY <2>1, <3>1 DEF Named
      <3>2. CASE moves /\ ~binds
        <4>1. bindings[p].object = o
          BY <3>2
        <4>2. p \in BoundPaths(o)
          BY <4>1 DEF BoundPaths
        <4> QED
          BY <2>1, <3>2, <4>2 DEF Named
      <3>3. CASE binds
        BY <2>1, <3>3
      <3> QED
        BY <3>1, <3>2, <3>3
    <2> QED
      BY <1>1, <1>2, <1>4, <2>1, <2>2, <2>4, <2>5
  <1> QED
    BY <1>3, <1>4

-------------------------------------------------------------------------------

\* What holds of the store.
SInv == IInv /\ HInv /\ RInv /\ VInv

\* A stage of an import that plans writes is an operation that makes no id.
LEMMA StageKeeps ==
    ASSUME SInv, NEW plan, pending = Idle, pending' = Settle(plan),
           UNCHANGED <<durable, ids, now, crashes>>, Moving' = Moving,
           PlanIsSound(plan, ids), Good(plan.index, ids), plan.marker = NoMarker,
           PlanShows(plan), PlanFits(plan)
    PROVE  SInv'
  <1>1. 0 \in Nat /\ ids + 0 = ids /\ Begin(plan, 0)
    BY BoundAssumption DEF SInv, IInv, ObjectsWereMade, Begin
  <1>2. IInv'
    BY <1>1, BeginKeeps DEF SInv
  <1>3. Good(plan.marker.index, ids)
    BY EmptyIsGood DEF NoMarker
  <1>4. HInv'
    BY <1>1, <1>3, BeginKeepsGood DEF SInv
  <1>5. RInv'
    BY <1>1, BeginShows DEF SInv
  <1>6. VInv'
    BY BeginFits DEF SInv, Settle, durable
  <1> QED
    BY <1>2, <1>4, <1>5, <1>6 DEF SInv

\* A stage that brings the binding of a path up to date with a changed index.
LEMMA SyncStageKeeps ==
    ASSUME SInv, NEW p \in Paths, NEW o \in 1..ids, NEW op, NEW ix, NEW todo \in {{}, {"index"}},
           "index" \in todo \/ indexes[o] = ix, Good(ix, ids), Changes(op, o, ix.versions),
           pending = Idle, pending' = Settle(SyncPlan(op, p, o, ix, todo)),
           UNCHANGED <<durable, ids, now, crashes>>, Moving' = Moving
    PROVE  SInv'
  <1> DEFINE plan == SyncPlan(op, p, o, ix, todo)
  <1>0. ids \in Nat /\ o \in Objects
    BY BoundAssumption DEF SInv, IInv, ObjectsWereMade, Objects
  <1>1. PlanIsSound(plan, ids) /\ PlanShows(plan)
    BY <1>0, SyncIsSound, SyncShows
  <1>2. PlanFits(plan)
    BY <1>0, SyncFits DEF SInv
  <1>3. plan.index = ix /\ plan.marker = NoMarker
    BY DEF SyncPlan, Plan
  <1> HIDE DEF plan
  <1> QED
    BY <1>1, <1>2, <1>3, StageKeeps DEF plan

\* prune_conflicting_replication_bundle_versions
LEMMA PruneKeeps ==
    ASSUME SInv, MInv, NEW o \in Objects, Prune(o)
    PROVE  SInv' /\ MInv'
  <1> DEFINE v  == import.bundle.version
             ix == Reindexed(Without(indexes[o].versions, v))
  <1>0. import # NoImport /\ ImportOK
    BY DEF Prune, NoImport, MInv
  <1>1. /\ pending = Idle /\ import.stage = "prune"
        /\ UNCHANGED <<durable, ids, now, crashes>> /\ UNCHANGED <<outbox, inbox, import>>
        /\ pending' = Settle(SyncPlan("prune", import.record.path, o, ix, {"index"}))
    BY DEF Prune
  <1>2. o \in 1..ids
    <2>1. v \in DOMAIN indexes[o].versions
      BY DEF Prune, Conflicting
    <2>2. indexes[o] # EmptyIndex
      BY <2>1 DEF EmptyIndex
    <2> QED
      BY <2>2 DEF SInv, IInv, ObjectsWereMade
  <1>3. Good(ix, ids)
    BY WithoutIsGood DEF SInv, HInv
  <1>4. Changes("prune", o, ix.versions)
    <2>1. v \in Moving
      BY <1>0 DEF Moving
    <2>2. Changes("prune", o, Without(indexes[o].versions, v))
      BY <2>1, WithoutChanges DEF SInv
    <2> QED
      BY <2>2, IndexStores
  <1>5. import.record.path \in Paths /\ Moving' = Moving
    BY <1>0, <1>1 DEF ImportOK, Moving
  <1>6. SInv'
    <2> HIDE DEF ix, v
    <2> QED
      BY <1>1, <1>2, <1>3, <1>4, <1>5, SyncStageKeeps
  <1>7. MInv'
    BY <1>0, <1>1 DEF MInv, ImportOK, BundleOK
  <1> QED
    BY <1>6, <1>7

\* The version is inserted where no other object has it.
LEMMA InsertKeeps ==
    ASSUME SInv, MInv, InsertVersion
    PROVE  SInv' /\ MInv'
  <1> DEFINE o      == import.object
             v      == import.bundle.version
             stored == v \in DOMAIN indexes[o].versions
             vs     == Insert(indexes[o].versions, v, import.record)
             ix     == IF stored THEN indexes[o] ELSE Reindexed(vs)
             todo   == IF stored THEN {} ELSE {"index"}
             plan   == SyncPlan("import", import.record.path, o, ix, todo)
  <1>0. import # NoImport /\ ImportOK
    BY DEF InsertVersion, NoImport, MInv
  <1>1. /\ pending = Idle /\ import.stage = "prune" /\ Conflicting = {}
        /\ UNCHANGED <<durable, ids, now, crashes>> /\ UNCHANGED <<outbox, inbox>>
        /\ pending' = Settle(plan)
        /\ import' = [import EXCEPT !.stage = "select"]
    BY DEF InsertVersion
  <1>2. o \in 1..ids /\ o \in Objects /\ import.record.path \in Paths /\ "path" \in DOMAIN import.record
    BY <1>0, BoundAssumption DEF ImportOK, SInv, IInv, ObjectsWereMade, Objects
  <1>3. /\ import'.stage = "select" /\ import'.bundle = import.bundle /\ import'.object = o
        /\ import'.record = import.record
        /\ import' = [stage |-> import'.stage, bundle |-> import'.bundle, object |-> import'.object,
                      record |-> import'.record]
    BY <1>0, <1>1 DEF ImportOK
  <1>4. import' # NoImport
    BY <1>3 DEF NoImport
  <1>5. Moving' = Moving
    BY <1>0, <1>3, <1>4 DEF Moving
  <1>6. /\ DOMAIN vs = DOMAIN indexes[o].versions \cup {v} /\ vs[v] = import.record
        /\ \A w \in DOMAIN indexes[o].versions : w # v => vs[w] = indexes[o].versions[w]
    BY DEF Insert
  <1>7. ix.versions = IF stored THEN indexes[o].versions ELSE vs
    BY IndexStores
  <1>8. v \in DOMAIN ix.versions
    BY <1>6, <1>7
  <1>9. Good(ix, ids)
    <2>1. Good(indexes[o], ids)
      BY <1>2 DEF SInv, HInv
    <2>2. Numbered(vs, ids)
      BY <1>0, <1>6, <2>1 DEF Good, Numbered, ImportOK
    <2> HIDE DEF vs, v, o
    <2> QED
      BY <2>1, <2>2, ReindexedIsGood
  <1>10. PlanFits(plan)
    <2>1. Placed(ix.versions)
      <3>1. Placed(indexes[o].versions)
        BY <1>2 DEF SInv, VInv
      <3> HIDE DEF vs, ix, v, o
      <3> QED
        BY <1>2, <1>6, <1>7, <3>1 DEF Placed
    <2>2. ASSUME NEW other \in Objects \ {o} PROVE Apart(ix.versions, indexes[other].versions)
      <3>1. Apart(indexes[o].versions, indexes[other].versions)
        BY <1>2 DEF SInv, VInv
      <3>2. v \in DOMAIN indexes[other].versions => indexes[other].versions[v].path # import.record.path
        BY <1>1 DEF Conflicting
      <3> HIDE DEF vs, ix, v, o
      <3> QED
        BY <1>6, <1>7, <3>1, <3>2 DEF Apart
    <2>3. /\ plan.op = "import" /\ plan.object = o /\ plan.index = ix /\ plan.marker = NoMarker
          /\ "marker" \notin plan.todo
      BY DEF SyncPlan, Plan
    <2> HIDE DEF plan
    <2>4. DOMAIN plan.marker.index.versions = {}
      BY <2>3 DEF NoMarker, EmptyIndex
    <2>5. Placed(plan.marker.index.versions) /\ \A ws : Apart(plan.marker.index.versions, ws)
      BY <2>4 DEF Placed, Apart
    <2>6. DOMAIN indexes[o].versions \ DOMAIN ix.versions \subseteq Moving
      BY <1>6, <1>7
    <2> HIDE DEF ix, o
    <2> QED
      BY <2>1, <2>2, <2>3, <2>5, <2>6 DEF PlanFits
  <1>11. PlanIsSound(plan, ids) /\ PlanShows(plan)
    <2>1. ids \in Nat /\ todo \subseteq {"index"} /\ ("index" \in todo \/ indexes[o] = ix)
      BY DEF SInv, IInv, ObjectsWereMade
    <2> HIDE DEF todo, ix, o
    <2> QED
      BY <1>2, <2>1, SyncIsSound, SyncShows
  <1>12. /\ plan.index = ix /\ plan.marker = NoMarker /\ plan.object = o /\ "marker" \notin plan.todo
         /\ "index" \notin plan.todo => stored
    BY DEF SyncPlan, Plan
  <1>13. SInv'
    <2> HIDE DEF plan, ix, o
    <2> QED
      BY <1>1, <1>5, <1>9, <1>10, <1>11, <1>12, StageKeeps
  <1>14. Arrives'
    <2>1. CASE pending' = Idle
      <3>1. plan # Idle
        BY DEF SyncPlan, Plan, Idle
      <3>2. plan.todo = {}
        BY <1>1, <2>1, <3>1 DEF Settle
      <3>3. stored
        BY <1>12, <3>2
      <3> QED
        BY <1>1, <1>3, <2>1, <3>3 DEF Arrives, durable
    <2>2. CASE pending' # Idle
      <3>1. pending' = plan
        BY <1>1, <2>2 DEF Settle
      <3> HIDE DEF plan
      <3> QED
        BY <1>1, <1>3, <1>8, <1>12, <2>2, <3>1 DEF Arrives, durable
    <2> QED
      BY <2>1, <2>2
  <1>15. MInv'
    BY <1>0, <1>1, <1>3, <1>14 DEF MInv, ImportOK, BundleOK
  <1> QED
    BY <1>13, <1>15

\* The path goes to the object of the bundle.
LEMMA PromoteKeeps ==
    ASSUME SInv, MInv, Promote
    PROVE  SInv' /\ MInv'
  <1> DEFINE o == import.object
             p == import.record.path
  <1>0. import # NoImport /\ ImportOK
    BY DEF Promote, NoImport, MInv
  <1>1. /\ pending = Idle /\ import.stage = "select"
        /\ UNCHANGED <<durable, ids, now, crashes>> /\ UNCHANGED <<outbox, inbox>>
        /\ pending' = Settle(PromotePlan(p, o))
        /\ import' = [import EXCEPT !.stage = "done"]
    BY DEF Promote
  <1>2. o \in 1..ids /\ o \in Objects /\ p \in Paths
    BY <1>0, BoundAssumption DEF ImportOK, SInv, IInv, ObjectsWereMade, Objects
  <1>3. /\ import'.stage = "done" /\ import'.bundle = import.bundle /\ import'.object = o
        /\ import'.record = import.record
        /\ import' = [stage |-> import'.stage, bundle |-> import'.bundle, object |-> import'.object,
                      record |-> import'.record]
    BY <1>0, <1>1 DEF ImportOK
  <1>4. import' # NoImport
    BY <1>3 DEF NoImport
  <1>5. Moving' = Moving
    BY <1>0, <1>3, <1>4 DEF Moving
  <1>6. PICK plan : plan = PromotePlan(p, o)
    OBVIOUS
  <1>7. /\ PlanIsSound(plan, ids) /\ PlanShows(plan)
        /\ plan.object = o /\ plan.index = indexes[o] /\ plan.marker = NoMarker /\ plan.path = p
        /\ plan.todo \subseteq {"bind"} /\ plan.op = "promote"
        /\ Live(indexes[o]) => /\ p \notin plan.unbind
                               /\ plan.bind = HeadRecord(indexes[o]).manifest
                               /\ "bind" \in plan.todo \/ Named(o, p, plan.unbind)
    BY <1>2, <1>6, PromoteIsSound DEF SInv
  <1>8. PlanFits(plan)
    <2>1. DOMAIN plan.marker.index.versions = {}
      BY <1>7 DEF NoMarker, EmptyIndex
    <2>2. Placed(plan.marker.index.versions) /\ \A ws : Apart(plan.marker.index.versions, ws)
      BY <2>1 DEF Placed, Apart
    <2> HIDE DEF o, p
    <2> QED
      BY <1>2, <1>7, <2>2 DEF PlanFits, SInv, VInv
  <1>9. Good(plan.index, ids)
    BY <1>2, <1>7 DEF SInv, HInv
  <1>10. SInv'
    BY <1>1, <1>5, <1>6, <1>7, <1>8, <1>9, StageKeeps
  <1>11. import.bundle.version \in DOMAIN indexes[o].versions
    BY <1>0, <1>1 DEF ImportOK, Arrives
  <1>12. plan # Idle
    BY <1>6 DEF PromotePlan, Plan, Idle
  <1>13. UNCHANGED <<indexes, bindings>>
    BY <1>1 DEF durable
  <1>14. Arrives' /\ Promoted'
    <2>1. CASE pending' = Idle
      <3>1. plan.todo = {} /\ plan.unbind = {}
        BY <1>1, <1>6, <1>12, <2>1 DEF Settle
      <3>2. Live(indexes[o]) => Named(o, p, {})
        BY <1>7, <3>1
      <3> HIDE DEF o, p
      <3>3. Named(o, p, {}) => (Named(o, p, {}))'
        BY <1>1, <1>3, <1>13 DEF Named, BoundPaths, HeadRecord, o, p
      <3> QED
        BY <1>3, <1>11, <1>13, <2>1, <3>2, <3>3 DEF Arrives, Promoted, Live, HeadRecord, o, p
    <2>2. CASE pending' # Idle
      <3>1. pending' = plan
        BY <1>1, <1>6, <2>2 DEF Settle
      <3>2. Arrives'
        BY <1>3, <1>7, <1>11, <1>13, <2>2, <3>1 DEF Arrives
      <3>3. "index" \notin plan.todo
        BY <1>7
      <3>4. Promoted'
        BY <1>3, <1>7, <1>13, <2>2, <3>1, <3>3 DEF Promoted, Named, BoundPaths, HeadRecord, Live
      <3> QED
        BY <3>2, <3>4
    <2> QED
      BY <2>1, <2>2
  <1>15. MInv'
    BY <1>0, <1>1, <1>3, <1>14 DEF MInv, ImportOK, BundleOK
  <1> QED
    BY <1>10, <1>15

\* A path is unbound while no operation is under way.
LEMMA UnbindKeeps ==
    ASSUME SInv, pending = Idle, UNCHANGED <<indexes, pending, ids, crashes>>,
           NEW p \in Paths, bindings' = bindings \/ bindings' = [bindings EXCEPT ![p] = Unbound]
    PROVE  SInv'
  <1>1. \A q \in Paths : bindings'[q] \in {bindings[q], Unbound}
    BY DEF SInv, IInv, ObjectsWereMade
  <1>2. bindings' = [q \in Paths |-> bindings'[q]]
    BY DEF SInv, IInv, ObjectsWereMade
  <1>3. Unbound.object = 0
    BY DEF Unbound
  <1>4. ObjectsWereMade'
    BY <1>1, <1>2 DEF SInv, IInv, ObjectsWereMade
  <1>5. OneBindingPerObject'
    BY <1>1, <1>3 DEF SInv, IInv, ObjectsWereMade, OneBindingPerObject, Bound
  <1>6. IInv'
    BY <1>4, <1>5 DEF IInv, PlanIsComplete
  <1>7. HInv'
    BY DEF SInv, HInv
  <1>8. RInv'
    <2>1. crashes = 0 => OthersShow'
      BY <1>1 DEF SInv, RInv, OthersShow, Bound
    <2> QED
      BY <2>1 DEF SInv, RInv
  <1>9. VInv'
    BY DEF SInv, VInv
  <1> QED
    BY <1>6, <1>7, <1>8, <1>9 DEF SInv

\* apply_selected_replica_tombstone_current_state, and imports that stop here.
LEMMA LastStageKeeps ==
    ASSUME SInv, MInv, ApplyTombstone \/ LeaveCurrent
    PROVE  SInv' /\ MInv'
  <1> DEFINE o == import.object
             p == import.record.path
  <1>0. import # NoImport /\ ImportOK
    BY DEF ApplyTombstone, LeaveCurrent, NoImport, MInv
  <1>1. /\ pending = Idle /\ import.stage = "select"
        /\ UNCHANGED <<indexes, pending, ids, crashes>> /\ UNCHANGED <<outbox, inbox>>
        /\ bindings' = bindings \/ bindings' = [bindings EXCEPT ![p] = Unbound]
        /\ import' = [import EXCEPT !.stage = "done"]
    BY DEF ApplyTombstone, LeaveCurrent, vars
  <1>2. ~(import.bundle.selected_is_preferred_head /\ ~IsTombstone(import.bundle))
    BY DEF ApplyTombstone, LeaveCurrent
  <1>3. /\ import'.stage = "done" /\ import'.bundle = import.bundle /\ import'.object = o
        /\ import'.record = import.record
        /\ import' = [stage |-> import'.stage, bundle |-> import'.bundle, object |-> import'.object,
                      record |-> import'.record]
    BY <1>0, <1>1 DEF ImportOK
  <1>4. SInv'
    BY <1>0, <1>1, UnbindKeeps DEF ImportOK
  <1>5. Arrives'
    BY <1>0, <1>1, <1>3 DEF ImportOK, Arrives
  <1>6. ~(import'.bundle.selected_is_preferred_head /\ ~IsTombstone(import'.bundle))
    BY <1>2, <1>3 DEF IsTombstone
  <1>7. MInv'
    BY <1>0, <1>1, <1>3, <1>5, <1>6 DEF MInv, ImportOK, BundleOK, IsTombstone
  <1> QED
    BY <1>4, <1>7

\* The store does not look at the import, except for a version that it is moving.
LEMMA StoreUnchanged ==
    ASSUME SInv, UNCHANGED <<indexes, bindings, ids>>,
           \/ UNCHANGED <<pending, import, crashes>>
           \/ pending = Idle /\ UNCHANGED <<pending, crashes>>
           \/ pending' = Idle /\ crashes' = crashes + 1
    PROVE  SInv'
  <1>1. IInv'
    BY DEF SInv, IInv, ObjectsWereMade, OneBindingPerObject, Bound, PlanIsComplete, PlanIsSound
  <1>2. HInv'
    BY DEF SInv, HInv
  <1>3. RInv'
    BY DEF SInv, RInv, OthersShow, PlanShows, Bound
  <1>4. VInv'
    <2>1. pending' # Idle => PlanFits(pending)'
      BY DEF SInv, VInv, PlanFits, Moving
    <2> QED
      BY <2>1 DEF SInv, VInv
  <1> QED
    BY <1>1, <1>2, <1>3, <1>4 DEF SInv

\* Ids are made, here or by peers.
LEMMA IdsGrow ==
    ASSUME SInv, ids' \in ids..MaxIds, UNCHANGED <<indexes, bindings, pending, crashes>>,
           pending = Idle \/ import' = import
    PROVE  SInv'
  <1>1. PICK k \in Nat : ids' = ids + k
    <2>1. ids \in Nat /\ ids' - ids \in Nat /\ ids' = ids + (ids' - ids)
      BY BoundAssumption DEF SInv, IInv, ObjectsWereMade
    <2> QED
      BY <2>1
  <1>2. ids \in Nat /\ 1..ids \subseteq 1..ids' /\ ids' \in 0..MaxIds
    BY <1>1, BoundAssumption DEF SInv, IInv, ObjectsWereMade
  <1>3. ObjectsWereMade'
    BY <1>2 DEF SInv, IInv, ObjectsWereMade
  <1>4. PlanIsComplete'
    BY <1>2 DEF SInv, IInv, PlanIsComplete, PlanIsSound
  <1>5. IInv'
    BY <1>3, <1>4 DEF SInv, IInv, OneBindingPerObject, Bound
  <1>6. HInv'
    <2>1. \A ix : Good(ix, ids) => Good(ix, ids + k)
      BY <1>2, GoodForLonger
    <2> QED
      BY <1>1, <2>1 DEF SInv, HInv
  <1>7. RInv'
    BY DEF SInv, RInv, OthersShow, PlanShows, Bound
  <1>8. VInv'
    <2>1. pending' # Idle => PlanFits(pending)'
      BY DEF SInv, VInv, PlanFits, Moving
    <2> QED
      BY <2>1 DEF SInv, VInv
  <1> QED
    BY <1>5, <1>6, <1>7, <1>8 DEF SInv

\* An import begins: it chooses its object and has written nothing.
LEMMA StartKeeps ==
    ASSUME SInv, MInv, NEW b \in inbox, StartImport(b)
    PROVE  SInv' /\ MInv'
  <1> DEFINE k == IF Recreates(b) THEN 1 ELSE 0
  <1>1. /\ pending = Idle /\ import = NoImport /\ ids + k <= MaxIds /\ ids' = ids + k
        /\ UNCHANGED <<indexes, bindings, pending, crashes>> /\ UNCHANGED <<outbox, inbox>>
    BY DEF StartImport, durable
  <1>2. PICK o \in Lineage(b) :
          import' = [stage |-> "prune", bundle |-> b, object |-> o, record |-> ImportedRecord(b)]
    BY DEF StartImport
  <1>3. ids \in Nat /\ ids' \in ids..MaxIds /\ ids' \in Nat /\ ids <= ids' /\ 1..ids \subseteq 1..ids'
    BY <1>1, BoundAssumption DEF SInv, IInv, ObjectsWereMade
  <1>4. SInv'
    BY <1>1, <1>3, IdsGrow
  <1>5. BundleOK(b, ids)
    BY DEF MInv
  <1>6. o \in 1..ids'
    BY <1>1, <1>5, LineageWasMade DEF SInv
  <1>7. "path" \in DOMAIN ImportedRecord(b) /\ ImportedRecord(b).path \in Paths
    BY <1>5, ImportedPath DEF BundleOK
  <1>8. /\ import'.stage = "prune" /\ import'.bundle = b /\ import'.object = o
        /\ import'.record = ImportedRecord(b)
    BY <1>2
  <1>9. ImportOK'
    BY <1>2, <1>3, <1>5, <1>6, <1>7, <1>8 DEF ImportOK, BundleOK
  <1>10. \A c \in inbox \cup outbox : BundleOK(c, ids')
    BY <1>3, BundleForLonger DEF MInv
  <1> QED
    BY <1>1, <1>4, <1>9, <1>10 DEF MInv, BundleOK

\* The bundles that a node exports are such as its peers assume.
LEMMA ExportKeeps ==
    ASSUME SInv, MInv, NEW o \in Objects, NEW v \in indexes[o].heads, Export(o, v)
    PROVE  SInv' /\ MInv'
  <1> DEFINE b == [object |-> o, version |-> v, record |-> indexes[o].versions[v],
                   selected_is_preferred_head |-> indexes[o].preferred = v]
  <1>1. /\ UNCHANGED <<indexes, bindings, pending, ids, crashes>> /\ UNCHANGED <<inbox, import>>
        /\ outbox' = outbox \cup {b} /\ import = NoImport
        /\ o \in ResolveVersion(SubjectPath(o, v), v)
    BY DEF Export, vars
  <1>2. v \in DOMAIN indexes[o].versions
    <2>1. CASE v \in DOMAIN IndexFor(SubjectPath(o, v)).versions
      <3>1. Bound(SubjectPath(o, v))
        BY <2>1 DEF IndexFor, EmptyIndex
      <3> QED
        BY <1>1, <2>1, <3>1 DEF ResolveVersion, IndexFor
    <2>2. CASE v \notin DOMAIN IndexFor(SubjectPath(o, v)).versions
      BY <1>1, <2>2 DEF ResolveVersion
    <2> QED
      BY <2>1, <2>2
  <1>3. o \in 1..ids
    <2>1. indexes[o] # EmptyIndex
      BY <1>2 DEF EmptyIndex
    <2> QED
      BY <2>1 DEF SInv, IInv, ObjectsWereMade
  <1>4. v.n \in (1..ids) \cup ForeignIds
    BY <1>2 DEF SInv, HInv, Good, Numbered
  <1>5. "path" \in DOMAIN indexes[o].versions[v] /\ indexes[o].versions[v].path \in Paths
    BY <1>2 DEF SInv, VInv, Placed
  <1>6. BundleOK(b, ids)
    BY <1>3, <1>4, <1>5 DEF BundleOK
  <1>7. SInv'
    BY <1>1, StoreUnchanged
  <1> HIDE DEF b
  <1>8. \A c \in inbox' \cup outbox' : BundleOK(c, ids')
    BY <1>1, <1>6 DEF MInv
  <1> QED
    BY <1>1, <1>7, <1>8 DEF MInv

\* A write of an import brings it nearer to its end.
LEMMA WritingArrives ==
    ASSUME SInv, import # NoImport, ImportOK, Writing, UNCHANGED import, import.stage \in {"select", "done"}
    PROVE  Arrives'
  <1> DEFINE o == import.object
             v == import.bundle.version
  <1>0. PICK plan : plan = pending
    OBVIOUS
  <1>1. /\ plan # Idle /\ plan.object = o /\ v \in DOMAIN plan.index.versions
        /\ "marker" \notin plan.todo /\ ("index" \notin plan.todo => indexes[o] = plan.index)
    BY <1>0 DEF ImportOK, Arrives, Writing, WriteIndex, RemoveBinding, UpsertBinding, WriteMarker
  <1>2. /\ plan = Plan(plan.op, plan.path, plan.object, plan.index, plan.unbind, plan.bind,
                       plan.todo, plan.marker)
        /\ plan.object \in Objects /\ indexes = [n \in Objects |-> indexes[n]]
    BY <1>0, <1>1, BoundAssumption DEF SInv, IInv, PlanIsComplete, PlanIsSound, Objects, ObjectsWereMade
  <1>3. ~WriteMarker
    BY <1>0, <1>1 DEF WriteMarker
  <1>4. CASE WriteIndex
    <2>1. PICK w : w = [plan EXCEPT !.todo = @ \ {"index"}]
      OBVIOUS
    <2>2. w.todo = plan.todo \ {"index"} /\ w.object = plan.object /\ w.index = plan.index
      BY <1>2, <2>1 DEF Plan
    <2>3. (pending' = Idle \/ pending' = w) /\ indexes'[plan.object] = plan.index
      BY <1>0, <1>2, <1>4, <2>1 DEF WriteIndex, Settle
    <2> QED
      BY <1>1, <2>2, <2>3 DEF Arrives
  <1>5. CASE UpsertBinding \/ \E p \in Paths : RemoveBinding(p)
    <2>1. PICK p, w : \/ w = [plan EXCEPT !.todo = @ \ {"bind"}] /\ UpsertBinding
                      \/ w = [plan EXCEPT !.unbind = @ \ {p}] /\ RemoveBinding(p)
      BY <1>5
    <2>2. w.todo \subseteq plan.todo /\ w.object = plan.object /\ w.index = plan.index
      BY <1>2, <2>1 DEF Plan
    <2>3. indexes' = indexes /\ (pending' = Idle \/ pending' = w) /\ "index" \notin plan.todo
      BY <1>0, <2>1 DEF UpsertBinding, RemoveBinding, Settle
    <2> QED
      BY <1>1, <2>2, <2>3 DEF Arrives
  <1> QED
    BY <1>3, <1>4, <1>5 DEF Writing

\* It takes no name away that the object is to keep.
LEMMA WritingPromotes ==
    ASSUME SInv, import # NoImport, ImportOK, Writing, UNCHANGED import, import.stage = "done", Promoted
    PROVE  Promoted'
  <1> DEFINE o == import.object
             p == import.record.path
  <1>0. PICK plan : plan = pending
    OBVIOUS
  <1>1. /\ plan # Idle /\ plan.object = o /\ plan.path = p /\ p \in Paths
        /\ "marker" \notin plan.todo /\ "index" \notin plan.todo
        /\ Live(indexes[o]) => /\ p \notin plan.unbind
                               /\ plan.bind = HeadRecord(indexes[o]).manifest
                               /\ "bind" \in plan.todo \/ Named(o, p, plan.unbind)
    BY <1>0 DEF ImportOK, Arrives, Promoted, Writing, WriteIndex, RemoveBinding, UpsertBinding, WriteMarker
  <1>2. /\ plan = Plan(plan.op, plan.path, plan.object, plan.index, plan.unbind, plan.bind,
                       plan.todo, plan.marker)
        /\ bindings = [q \in Paths |-> bindings[q]] /\ o # 0
    BY <1>0, <1>1 DEF SInv, IInv, PlanIsComplete, PlanIsSound, ObjectsWereMade, ImportOK
  <1>3. ~WriteMarker /\ ~WriteIndex
    BY <1>0, <1>1 DEF WriteMarker, WriteIndex
  <1>4. ASSUME NEW r \in Paths, RemoveBinding(r) PROVE Promoted'
    <2>1. PICK w : w = [plan EXCEPT !.unbind = @ \ {r}]
      OBVIOUS
    <2>2. /\ w.unbind = plan.unbind \ {r} /\ w.todo = plan.todo /\ w.path = p /\ w.bind = plan.bind
          /\ w # Idle
      BY <1>1, <1>2, <2>1, PlanFields
    <2>3. /\ indexes' = indexes /\ pending' = Settle(w) /\ r \in plan.unbind
          /\ \A q \in Paths : q # r => bindings'[q] = bindings[q]
          /\ bindings'[r].object = 0
      BY <1>0, <1>2, <1>4, <2>1 DEF RemoveBinding, Unbound
    <2>4. ASSUME p \notin plan.unbind, Named(o, p, plan.unbind) PROVE (Named(o, p, w.unbind))'
      <3>1. PICK q \in BoundPaths(o) : q \notin plan.unbind
        BY <2>4 DEF Named
      <3>2. q \in BoundPaths(o)' /\ q \notin w.unbind
        BY <2>2, <2>3, <3>1 DEF BoundPaths
      <3>3. bindings'[p] = bindings[p]
        BY <1>1, <2>3, <2>4
      <3> QED
        BY <2>3, <2>4, <3>2, <3>3 DEF Named, HeadRecord
    <2> QED
      BY <1>1, <2>2, <2>3, <2>4 DEF Promoted, Settle, Live, HeadRecord
  <1>5. CASE UpsertBinding
    <2>1. PICK w : w = [plan EXCEPT !.todo = @ \ {"bind"}]
      OBVIOUS
    <2>2. /\ w.unbind = plan.unbind /\ w.todo = plan.todo \ {"bind"} /\ w.path = p /\ w.bind = plan.bind
          /\ w # Idle
      BY <1>1, <1>2, <2>1, PlanFields
    <2>3. /\ indexes' = indexes /\ pending' = Settle(w) /\ plan.unbind = {}
          /\ bindings'[p] = [object |-> o, manifest |-> plan.bind]
      BY <1>0, <1>1, <1>2, <1>5, <2>1 DEF UpsertBinding
    <2>4. ASSUME Live(indexes[o]) PROVE (Named(o, p, {}))'
      <3>1. p \in BoundPaths(o)'
        BY <1>1, <2>3 DEF BoundPaths
      <3> QED
        BY <1>1, <2>3, <2>4, <3>1 DEF Named, HeadRecord
    <2> QED
      BY <1>1, <2>2, <2>3, <2>4 DEF Promoted, Settle, Live, HeadRecord
  <1> QED
    BY <1>3, <1>4, <1>5 DEF Writing

\* A write of a plan, whoever has made it.
LEMMA ReplicaWrites ==
    ASSUME SInv, MInv, Writing, UNCHANGED <<outbox, inbox, import>>
    PROVE  SInv' /\ MInv'
  <1>1. ids' = ids /\ crashes' = crashes
    BY DEF Writing, WriteIndex, RemoveBinding, UpsertBinding, WriteMarker
  <1>2. RInv'
    BY <1>1, WritingShows DEF SInv, RInv
  <1>3. SInv'
    BY <1>2, WritingKeeps, WritingKeepsGood, WritingFits DEF SInv
  <1>4. ASSUME import # NoImport PROVE ImportOK'
    <2>1. ImportOK
      BY <1>4 DEF MInv
    <2> QED
      BY <1>1, <1>4, <2>1, WritingArrives, WritingPromotes DEF ImportOK, IsTombstone
  <1> QED
    BY <1>1, <1>3, <1>4 DEF MInv, BundleOK

\* An operation of a client, which waits for imports.
LEMMA ReplicaOperates ==
    ASSUME SInv, MInv, import = NoImport, NEW p \in Paths, Operation(p), UNCHANGED <<outbox, inbox, import>>
    PROVE  SInv' /\ MInv'
  <1>1. SInv'
    BY OperationKeeps, OperationKeepsGood, OperationShows, OperationFits DEF SInv
  <1>2. ids \in Nat /\ ids' \in Nat /\ ids <= ids'
    <2>1. \/ \E q \in Paths, k \in Nat : \E plan : Begin(plan, k)
          \/ \E plan : Begin(plan, 0)
          \/ \E q \in Paths : Rename(p, q)
      BY OperationShape DEF SInv
    <2>2. \E k \in Nat : \E plan : Begin(plan, k)
      BY <2>1 DEF Rename
    <2>3. PICK k \in Nat : ids' = ids + k
      BY <2>2 DEF Begin
    <2> QED
      BY <2>3 DEF SInv, IInv, ObjectsWereMade
  <1>3. \A b \in inbox \cup outbox : BundleOK(b, ids')
    BY <1>2, BundleForLonger DEF MInv
  <1> QED
    BY <1>1, <1>3 DEF MInv, BundleOK

\* The clients of ReplicaNext are clients of the store.
LEMMA ClientsOperate ==
    ASSUME NEW p \in Paths, ClientOperation(p)
    PROVE  Operation(p)
  <1>1. ASSUME NEW c \in Contents, NEW requested \in {{}} \cup {{v} : v \in Followed(IndexFor(p))},
               Put(p, c, requested, Confirmed)
        PROVE  Operation(p)
    <2>1. requested \in ParentChoices(IndexFor(p)) /\ Confirmed \in States
      BY DEF ParentChoices, Followed, States
    <2> QED
      BY <1>1, <2>1 DEF Operation
  <1>2. ASSUME Tombstone(p, {}, Confirmed) PROVE Operation(p)
    <2>1. {} \in ParentChoices(IndexFor(p)) /\ Confirmed \in States
      BY DEF ParentChoices, States
    <2> QED
      BY <1>2, <2>1 DEF Operation
  <1>3. ASSUME NEW q \in Paths, Rename(p, q) PROVE Operation(p)
    BY <1>3 DEF Operation
  <1> QED
    BY <1>1, <1>2, <1>3 DEF ClientOperation

\* Every step of the node and of its peers keeps both invariants.
LEMMA ReplicaStepKeeps ==
    SInv /\ MInv /\ [ReplicaNext \/ StoreActs \/ PeersAct]_replicaVars => SInv' /\ MInv'
  <1> SUFFICES ASSUME SInv, MInv, [ReplicaNext \/ StoreActs \/ PeersAct]_replicaVars
               PROVE  SInv' /\ MInv'
    OBVIOUS
  <1>1. CASE PeersAct
    <2>1. SInv'
      BY <1>1, IdsGrow DEF PeersAct, durable
    <2>2. ids \in Nat /\ ids' \in Nat /\ ids <= ids' /\ 1..ids \subseteq 1..ids'
      BY <1>1, BoundAssumption DEF PeersAct, SInv, IInv, ObjectsWereMade
    <2>3. \A b \in inbox' \cup outbox' : BundleOK(b, ids')
      BY <1>1, <2>2, BundleForLonger DEF PeersAct, MInv
    <2>4. import' # NoImport => ImportOK'
      BY <1>1, <2>2 DEF PeersAct, durable, MInv, ImportOK, Arrives, Promoted, Named, BoundPaths,
                        HeadRecord, Live, IsTombstone
    <2> QED
      BY <2>1, <2>3, <2>4 DEF MInv
  <1>2. CASE StoreActs
    <2>1. CASE Tick
      <3>1. UNCHANGED <<indexes, bindings, pending, ids, crashes>> /\ UNCHANGED <<outbox, inbox, import>>
        BY <1>2, <2>1 DEF StoreActs, Tick, durable
      <3>2. SInv'
        BY <3>1, StoreUnchanged
      <3> QED
        BY <3>1, <3>2 DEF MInv, BundleOK, ImportOK, Arrives, Promoted, Named, BoundPaths, HeadRecord,
                          Live, IsTombstone
    <2> QED
      BY <1>2, <2>1, ReplicaOperates DEF StoreActs
  <1>3. CASE Stop
    <2>1. /\ UNCHANGED <<indexes, bindings, ids>> /\ UNCHANGED <<outbox, inbox>>
          /\ pending' = Idle /\ crashes' = crashes + 1 /\ import' = NoImport
      BY <1>3 DEF Stop, durable
    <2> QED
      BY <2>1, StoreUnchanged DEF MInv, BundleOK
  <1>4. CASE EndImport
    <2>1. /\ UNCHANGED <<indexes, bindings, ids, pending, crashes>> /\ UNCHANGED <<outbox, inbox>>
          /\ pending = Idle /\ import' = NoImport
      BY <1>4 DEF EndImport, vars
    <2> QED
      BY <2>1, StoreUnchanged DEF MInv, BundleOK
  <1>5. CASE UNCHANGED replicaVars
    <2>1. UNCHANGED <<indexes, bindings, pending, ids, crashes>> /\ UNCHANGED <<outbox, inbox, import>>
      BY <1>5 DEF replicaVars, vars
    <2>2. SInv'
      BY <2>1, StoreUnchanged
    <2> QED
      BY <2>1, <2>2 DEF MInv, BundleOK, ImportOK, Arrives, Promoted, Named, BoundPaths, HeadRecord,
                        Live, IsTombstone
  <1>6. ASSUME NEW p \in Paths, import = NoImport, ClientOperation(p), UNCHANGED <<outbox, inbox, import>>
        PROVE  SInv' /\ MInv'
    BY <1>6, ClientsOperate, ReplicaOperates
  <1> QED
    BY <1>1, <1>2, <1>3, <1>4, <1>5, <1>6, ReplicaWrites, ExportKeeps, StartKeeps, InsertKeeps, PromoteKeeps,
       LastStageKeeps, PruneKeeps
       DEF ReplicaNext, ImportStep

\* A node starts with nothing.
LEMMA ReplicaInitHolds == ReplicaInit => SInv /\ MInv
  <1> SUFFICES ASSUME ReplicaInit PROVE SInv /\ MInv
    OBVIOUS
  <1>1. Init /\ outbox = {} /\ inbox = {} /\ import = NoImport
    BY DEF ReplicaInit
  <1>2. VInv
    <2>1. DOMAIN EmptyIndex.versions = {} /\ \A o \in Objects : indexes[o] = EmptyIndex
      BY <1>1 DEF EmptyIndex, Init
    <2> QED
      BY <1>1, <2>1 DEF VInv, Init, Placed, Apart
  <1> QED
    BY <1>1, <1>2, InitHolds, InitIsGood, InitShows DEF SInv, MInv

\* Bundles that come late, twice, in any order or after a crash do not split a
\* history, whatever the peers send and the clients do meanwhile.
THEOREM HistoriesStayWhole == ReplicaSpec => []OneHistoryPerVersion
  <1>1. SInv => OneHistoryPerVersion
    BY DEF SInv, VInv, Apart, OneHistoryPerVersion
  <1> QED
    BY <1>1, ReplicaInitHolds, ReplicaStepKeeps, PTL DEF ReplicaSpec

\* An import that is answered has stored its version; the object of a live preferred
\* head has a name, and the bundle's path where its head belongs there, whatever was
\* left when the process stopped in an earlier import.
THEOREM ImportsAreReadable == ReplicaSpec => []ImportedIsReadable
  <1>1. MInv => ImportedIsReadable
    <2> SUFFICES ASSUME MInv, import.stage = "done", pending = Idle
                 PROVE  LET ix == indexes[import.object]
                        IN  /\ import.bundle.version \in DOMAIN ix.versions
                            /\ Live(ix) /\ import.bundle.selected_is_preferred_head
                                  /\ ~IsTombstone(import.bundle) =>
                                  Named(import.object, import.record.path, {})
      BY DEF ImportedIsReadable, Named
    <2>1. ImportOK
      BY DEF MInv, NoImport
    <2> QED
      BY <2>1 DEF ImportOK, Arrives, Promoted
  <1> QED
    BY <1>1, ReplicaInitHolds, ReplicaStepKeeps, PTL DEF ReplicaSpec

\* What is proved of a node alone holds among others too: an object has one name, no
\* branch is lost, and what is listed can be read until an operation or an import is
\* cut short.
THEOREM ReplicasKeepTheStore ==
    ReplicaSpec => [](OneBindingPerObject /\ NoBranchLost /\ BoundPathsAreReadable)
  <1>1. SInv => OneBindingPerObject /\ NoBranchLost
    BY DEF SInv, IInv, HInv, NoBranchLost, Good, Whole
  <1>2. SInv => BoundPathsAreReadable
    <2> SUFFICES ASSUME SInv, pending = Idle, crashes = 0, NEW p \in Paths, Bound(p)
                 PROVE  Live(IndexFor(p)) \/ ShowsRename(p)
      BY DEF BoundPathsAreReadable
    <2>1. Shows(IndexFor(p), p, bindings[p].manifest)
      BY IdleShows DEF SInv, IndexFor
    <2> QED
      BY <2>1 DEF Shows, ShowsRename
  <1> QED
    BY <1>1, <1>2, ReplicaInitHolds, ReplicaStepKeeps, PTL DEF ReplicaSpec

\* No version disappears from a node except by a request to delete or to drop it, and
\* while an import moves it to another object.
THEOREM VersionsAreKept == ReplicaSpec => NoVersionLost
  <1> DEFINE Kept == \A v \in Stored \ Stored' :
                        \/ pending.op \in {"delete", "drop"}
                        \/ import # NoImport /\ v = import.bundle.version
  <1>1. ASSUME SInv, Writing, NEW v \in Stored \ Stored'
        PROVE  pending.op \in {"delete", "drop"} \/ v \in Moving
    <2>1. PICK o \in Objects : v \in DOMAIN indexes[o].versions /\ v \notin DOMAIN indexes'[o].versions
      BY <1>1 DEF Stored
    <2>2. /\ pending # Idle /\ PlanFits(pending)
          /\ indexes = [n \in Objects |-> indexes[n]]
      BY <1>1 DEF SInv, VInv, IInv, ObjectsWereMade, Writing, WriteIndex, RemoveBinding, UpsertBinding,
                  WriteMarker
    <2>3. CASE WriteIndex
      <3>1. o = pending.object /\ v \notin DOMAIN pending.index.versions /\ "index" \in pending.todo
        BY <2>1, <2>2, <2>3 DEF WriteIndex
      <3> QED
        BY <2>1, <2>2, <3>1 DEF PlanFits
    <2>4. CASE WriteMarker
      <3>1. o = pending.marker.object /\ "marker" \in pending.todo
        BY <2>1, <2>2, <2>4 DEF WriteMarker
      <3>2. indexes[o] = EmptyIndex
        BY <2>2, <3>1 DEF PlanFits
      <3> QED
        BY <2>1, <3>2 DEF EmptyIndex
    <2>5. CASE indexes' = indexes
      BY <2>1, <2>5
    <2> QED
      BY <1>1, <2>3, <2>4, <2>5 DEF Writing, RemoveBinding, UpsertBinding
  <1>2. \A v \in Moving : import # NoImport /\ v = import.bundle.version
    BY DEF Moving
  <1>3. SInv /\ [ReplicaNext \/ StoreActs \/ PeersAct]_replicaVars => [Kept]_replicaVars
    <2> SUFFICES ASSUME SInv, ReplicaNext \/ StoreActs \/ PeersAct PROVE Kept
      OBVIOUS
    <2>1. CASE Writing
      BY <1>1, <1>2, <2>1
    <2>2. CASE indexes' = indexes
      BY <2>2 DEF Stored
    <2>3. ASSUME NEW p \in Paths, Operation(p) PROVE indexes' = indexes
      <3>1. \E plan, k : Begin(plan, k)
        BY <2>3, OperationShape DEF SInv, Rename
      <3> QED
        BY <3>1 DEF Begin, durable
    <2>4. Writing \/ indexes' = indexes
      BY <2>3, ClientsOperate
         DEF ReplicaNext, StoreActs, PeersAct, ImportStep, Export, StartImport, InsertVersion, Promote,
             ApplyTombstone, LeaveCurrent, EndImport, Prune, Stop, Tick, vars, durable
    <2> QED
      BY <2>1, <2>2, <2>4
  <1> QED
    BY <1>3, ReplicaInitHolds, ReplicaStepKeeps, PTL DEF ReplicaSpec, NoVersionLost

-------------------------------------------------------------------------------
(***************************************************************************)
(* Types among peers.  A peer is assumed to send versions and records that *)
(* are such, and the node is shown to send no others.                      *)
(***************************************************************************)

\* The version and the record of a bundle.
TypedBundle(b) == b.version \in VersionIds /\ b.record \in Records

\* What the node is importing, and what it has sent.
XInv ==
    /\ import # NoImport => import.bundle.version \in VersionIds /\ import.record \in Records
    /\ \A b \in outbox : TypedBundle(b)

\* A stage of an import that has an index stored, or a path bound.
LEMMA StageIsTyped ==
    ASSUME TInv, NEW plan, pending' = Settle(plan), UNCHANGED <<durable, now, crashes>>,
           IndexOK(plan.index), plan.marker = NoMarker, plan.bind \in Manifests
    PROVE  TInv'
  <1>1. UNCHANGED <<indexes, bindings, now, crashes>> /\ (pending' = Idle \/ pending' = plan)
    BY DEF durable, Settle
  <1>2. IndexOK(plan.marker.index)
    BY EmptyIsOK
  <1> QED
    BY <1>1, <1>2 DEF TInv

\* The manifest of a live preferred head is one.
LEMMA LiveHeadIsOK ==
    ASSUME NEW ix, IndexOK(ix)
    PROVE  /\ Live(ix) => HeadRecord(ix).manifest \in Manifests
           /\ TOMBSTONE \in Manifests
  BY DEF Live, HeadRecord, IndexOK, VersionsOK, Records, Manifests

\* A stage that ends with sync_current_state_for_key_from_index.
LEMMA SyncStageIsTyped ==
    ASSUME TInv, NEW op, NEW p, NEW o, NEW ix, IndexOK(ix), NEW todo,
           pending' = Settle(SyncPlan(op, p, o, ix, todo)), UNCHANGED <<durable, now, crashes>>
    PROVE  TInv'
  <1>1. PICK plan : plan = SyncPlan(op, p, o, ix, todo)
    OBVIOUS
  <1>2. /\ plan.index = ix /\ plan.marker = NoMarker
        /\ plan.bind = IF Live(ix) THEN HeadRecord(ix).manifest ELSE TOMBSTONE
    BY <1>1 DEF SyncPlan, Plan
  <1>3. plan.bind \in Manifests
    BY <1>2, LiveHeadIsOK
  <1> QED
    BY <1>1, <1>2, <1>3, StageIsTyped

\* The record that an import stores, dated anew or not.
LEMMA ImportedRecordIsOK ==
    ASSUME TInv, NEW b, TypedBundle(b)
    PROVE  ImportedRecord(b) \in Records
  <1>1. b.record \in Records /\ b.record.created_at \in Nat /\ now \in Nat
    BY BoundAssumption DEF TypedBundle, Records, TInv
  <1>2. Later(b.record.created_at, now) + 1 \in Nat
    BY <1>1 DEF Later
  <1>3. [b.record EXCEPT !.created_at = Later(b.record.created_at, now) + 1] \in Records
    BY <1>1, <1>2 DEF Records
  <1> QED
    BY <1>1, <1>3 DEF ImportedRecord

\* A bundle's record and version are what the import works with from its start on.
LEMMA StartIsTyped ==
    ASSUME TInv, XInv, NEW b, TypedBundle(b), StartImport(b)
    PROVE  TInv' /\ XInv'
  <1>1. /\ UNCHANGED <<indexes, bindings, pending, now, crashes>> /\ outbox' = outbox
        /\ import'.bundle = b /\ import'.record = ImportedRecord(b)
    BY DEF StartImport, durable
  <1>2. TInv'
    BY <1>1 DEF TInv
  <1> QED
    BY <1>1, <1>2, ImportedRecordIsOK DEF XInv, TypedBundle

\* An exported head has a version id and a record.
LEMMA ExportIsTyped ==
    ASSUME TInv, XInv, NEW o \in Objects, NEW v \in indexes[o].heads, Export(o, v)
    PROVE  TInv' /\ XInv'
  <1>1. PICK b : b = [object |-> o, version |-> v, record |-> indexes[o].versions[v],
                      selected_is_preferred_head |-> indexes[o].preferred = v]
    OBVIOUS
  <1>2. /\ UNCHANGED <<indexes, bindings, pending, now, crashes>> /\ import' = import
        /\ outbox' = outbox \cup {b}
    BY <1>1 DEF Export, vars
  <1>3. TypedBundle(b)
    BY <1>1 DEF TypedBundle, TInv, IndexOK, VersionsOK
  <1>4. TInv'
    BY <1>2 DEF TInv
  <1> QED
    BY <1>2, <1>3, <1>4 DEF XInv

\* The stages of an import.
LEMMA ImportStepIsTyped ==
    ASSUME SInv, MInv, TInv, XInv, ImportStep
    PROVE  TInv' /\ XInv'
  <1>0. import # NoImport /\ ImportOK
    BY DEF ImportStep, InsertVersion, Promote, ApplyTombstone, LeaveCurrent, EndImport, Prune, NoImport, MInv
  <1>1. /\ import.object \in Objects /\ import.record \in Records /\ import.bundle.version \in VersionIds
        /\ import.record.path \in Paths
    BY <1>0, BoundAssumption DEF ImportOK, XInv, SInv, IInv, ObjectsWereMade, Objects
  <1>2. XInv'
    <2>1. outbox' = outbox /\ (import' \in {import, NoImport} \/ \E s : import' = [import EXCEPT !.stage = s])
      BY DEF ImportStep, InsertVersion, Promote, ApplyTombstone, LeaveCurrent, EndImport, Prune
    <2>2. \A s : /\ [import EXCEPT !.stage = s].bundle = import.bundle
                 /\ [import EXCEPT !.stage = s].record = import.record
      BY <1>0 DEF ImportOK
    <2> QED
      BY <1>1, <2>1, <2>2 DEF XInv
  <1> SUFFICES TInv'
    BY <1>2
  <1>3. ASSUME NEW o \in Objects, Prune(o) PROVE TInv'
    <2>1. IndexOK(Reindexed(Without(indexes[o].versions, import.bundle.version)))
      BY WithoutIsOK, ReindexedIsOK DEF TInv, IndexOK
    <2> QED
      BY <1>3, <2>1, SyncStageIsTyped DEF Prune
  <1>4. CASE InsertVersion
    <2> DEFINE o  == import.object
               v  == import.bundle.version
               ix == IF v \in DOMAIN indexes[o].versions THEN indexes[o]
                     ELSE Reindexed(Insert(indexes[o].versions, v, import.record))
    <2>1. IndexOK(indexes[o]) /\ VersionsOK(indexes[o].versions)
      BY <1>1 DEF TInv, IndexOK
    <2>2. IndexOK(ix)
      BY <1>1, <2>1, InsertIsOK, ReindexedIsOK
    <2>3. \E todo : pending' = Settle(SyncPlan("import", import.record.path, o, ix, todo))
      BY <1>4 DEF InsertVersion
    <2>4. UNCHANGED <<durable, now, crashes>>
      BY <1>4 DEF InsertVersion
    <2> HIDE DEF ix
    <2> QED
      BY <2>2, <2>3, <2>4, SyncStageIsTyped
  <1>5. CASE Promote
    <2>1. PICK plan : plan = PromotePlan(import.record.path, import.object)
      OBVIOUS
    <2>2. /\ plan.index = indexes[import.object] /\ plan.marker = NoMarker
          /\ \/ plan.bind = TOMBSTONE
             \/ Live(plan.index) /\ plan.bind = HeadRecord(plan.index).manifest
      BY <2>1 DEF PromotePlan, Plan
    <2>3. IndexOK(plan.index)
      BY <1>1, <2>2 DEF TInv
    <2>4. plan.bind \in Manifests
      BY <2>2, <2>3, LiveHeadIsOK
    <2> QED
      BY <1>5, <2>1, <2>2, <2>3, <2>4, StageIsTyped DEF Promote
  <1>6. CASE ApplyTombstone
    <2>1. /\ UNCHANGED <<indexes, pending, now, crashes>>
          /\ bindings' \in {bindings, [bindings EXCEPT ![import.record.path] = Unbound]}
      BY <1>6 DEF ApplyTombstone
    <2>2. bindings' \in [Paths -> Entries]
      BY <2>1 DEF TInv, Entries
    <2> QED
      BY <2>1, <2>2 DEF TInv
  <1>7. CASE LeaveCurrent \/ EndImport
    <2>1. UNCHANGED <<indexes, bindings, pending, now, crashes>>
      BY <1>7 DEF LeaveCurrent, EndImport, vars
    <2> QED
      BY <2>1 DEF TInv
  <1> QED
    BY <1>3, <1>4, <1>5, <1>6, <1>7 DEF ImportStep

\* Every step of the node and of such peers leaves typed indexes and typed bundles.
LEMMA ReplicaStepIsTyped ==
    ASSUME SInv, MInv, TInv, XInv, \A b \in inbox : TypedBundle(b),
           [ReplicaNext \/ StoreActs \/ PeersAct]_replicaVars
    PROVE  TInv' /\ XInv'
  <1>0. IInv
    BY DEF SInv
  <1>1. ASSUME UNCHANGED <<outbox, import>> PROVE XInv'
    BY <1>1 DEF XInv
  <1>2. CASE PeersAct \/ UNCHANGED replicaVars
    <2>1. UNCHANGED <<indexes, bindings, pending, now, crashes>> /\ UNCHANGED <<outbox, import>>
      BY <1>2 DEF PeersAct, replicaVars, vars, durable
    <2>2. TInv'
      BY <2>1 DEF TInv
    <2> QED
      BY <1>1, <2>1, <2>2
  <1>3. ASSUME Tick, UNCHANGED <<outbox, inbox, import>> PROVE TInv' /\ XInv'
    <2>1. UNCHANGED <<indexes, bindings, pending, crashes>> /\ now' \in 0..MaxTime
      BY <1>3, BoundAssumption DEF Tick, durable, TInv
    <2>2. TInv'
      BY <2>1 DEF TInv
    <2> QED
      BY <1>1, <1>3, <2>2
  <1>4. CASE Stop
    <2>1. /\ UNCHANGED <<indexes, bindings, now>> /\ outbox' = outbox
          /\ pending' = Idle /\ import' = NoImport /\ crashes' \in 0..MaxCrashes
      BY <1>4, BoundAssumption DEF Stop, durable, TInv
    <2>2. TInv'
      BY <2>1 DEF TInv
    <2> QED
      BY <2>1, <2>2 DEF XInv
  <1>5. ASSUME NEW p \in Paths, Operation(p), UNCHANGED <<outbox, inbox, import>> PROVE TInv' /\ XInv'
    BY <1>0, <1>1, <1>5, OperationIsTyped
  <1>6. ASSUME NEW p \in Paths, ClientOperation(p), UNCHANGED <<outbox, inbox, import>>
        PROVE  TInv' /\ XInv'
    BY <1>5, <1>6, ClientsOperate
  <1>7. ASSUME Writing, UNCHANGED <<outbox, inbox, import>> PROVE TInv' /\ XInv'
    BY <1>0, <1>1, <1>7, WritingIsTyped
  <1>8. CASE StoreActs
    BY <1>3, <1>5, <1>8 DEF StoreActs
  <1>9. CASE ReplicaNext
    BY <1>4, <1>6, <1>7, <1>9, ExportIsTyped, StartIsTyped, ImportStepIsTyped DEF ReplicaNext
  <1> QED
    BY <1>2, <1>8, <1>9

\* Imports leave indexes that can be read as well, whatever they bring and wherever
\* they are cut short: heads and preferred heads exist, and paths are bound to objects.
\* The node assumes typed bundles of its peers, and sends only such.
THEOREM ReplicaTypesHold ==
    ReplicaSpec /\ [](\A b \in inbox : TypedBundle(b)) => [](TypeOK /\ \A b \in outbox : TypedBundle(b))
  <1>1. ReplicaInit => TInv /\ XInv
    BY TypesStart DEF ReplicaInit, XInv
  <1>2. SInv /\ TInv => TypeOK
    BY DEF SInv, IInv, ObjectsWereMade, TInv, IndexOK, VersionsOK, TypeOK
  <1>3. XInv => \A b \in outbox : TypedBundle(b)
    BY DEF XInv
  <1>4. /\ SInv /\ MInv /\ TInv /\ XInv /\ (\A b \in inbox : TypedBundle(b))
        /\ [ReplicaNext \/ StoreActs \/ PeersAct]_replicaVars
        => TInv' /\ XInv'
    BY ReplicaStepIsTyped
  <1> QED
    BY <1>1, <1>2, <1>3, <1>4, ReplicaInitHolds, ReplicaStepKeeps, PTL DEF ReplicaSpec

-------------------------------------------------------------------------------
(***************************************************************************)
(* A put that is confirmed is visible.  Its version outranks every other   *)
(* head: none is dated later, and none of its second has a greater id, as  *)
(* long as no peer's clock was ahead of this node's.                       *)
(***************************************************************************)

\* No version is dated after the present.
Dated(vs) == \A v \in DOMAIN vs : vs[v].created_at <= now

\* A put is going to show the version that it has made.
PutShows(plan) ==
    LET v      == [kind |-> "ver", n |-> ids]
        record == plan.index.versions[v]
    IN  /\ "index" \notin plan.todo => indexes[plan.object] = plan.index
        /\ "marker" \notin plan.todo
        /\ record.state = Confirmed =>
              /\ plan.index.preferred = v
              /\ plan.path \notin plan.unbind
              /\ plan.bind = record.manifest
              /\ \/ "bind" \in plan.todo
                 \/ bindings[plan.path] = [object |-> plan.object, manifest |-> record.manifest]

DInv ==
    /\ \A o \in Objects : Dated(indexes[o].versions)
    /\ pending # Idle => /\ Dated(pending.index.versions) /\ Dated(pending.marker.index.versions)
                         /\ pending.op = "put" => PutShows(pending)

\* choose_preferred_head picks the head that outranks the others.
LEMMA BestIsPreferred ==
    ASSUME NEW heads \in SUBSET VersionIds, NEW vs, \A h \in heads : vs[h] \in Records,
           NEW v \in heads, \A k \in heads \ {v} : Outranks(vs, v, k)
    PROVE  PreferredHead(vs, heads) = v
  <1>1. ASSUME NEW a \in heads, NEW b \in heads, Outranks(vs, a, b) PROVE ~Outranks(vs, b, a)
    <2>1. /\ vs[a].state \in Nat /\ vs[b].state \in Nat
          /\ vs[a].created_at \in Nat /\ vs[b].created_at \in Nat
      BY BoundAssumption DEF Records, States, Confirmed, Provisional
    <2>2. /\ a.n \in Nat /\ b.n \in Nat /\ KindRank[a.kind] \in 1..6 /\ KindRank[b.kind] \in 1..6
      BY VersionIdFields
    <2>3. ~(IdAfter(a, b) /\ IdAfter(b, a))
      BY <2>2 DEF IdAfter
    <2> QED
      BY <1>1, <2>1, <2>3 DEF Outranks
  <1>2. \A h \in heads : (\A k \in heads \ {h} : Outranks(vs, h, k)) => h = v
    BY <1>1
  <1> QED
    BY <1>2 DEF PreferredHead

\* A version of the present is added.
LEMMA InsertIsDated ==
    ASSUME TInv, NEW vs, Dated(vs), NEW v, NEW record, record.created_at = now
    PROVE  Dated(Insert(vs, v, record))
  <1>1. now \in Nat
    BY BoundAssumption DEF TInv
  <1> QED
    BY <1>1 DEF Dated, Insert

\* The index of a path.
LEMMA IndexForIsDated ==
    ASSUME IInv, DInv, NEW p \in Paths
    PROVE  Dated(IndexFor(p).versions)
  <1>1. CASE Bound(p)
    BY <1>1, BoundAssumption DEF Objects, IInv, ObjectsWereMade, Bound, DInv, IndexFor
  <1>2. CASE ~Bound(p)
    BY <1>2 DEF IndexFor, EmptyIndex, Dated
  <1> QED
    BY <1>1, <1>2

\* Every operation but a put begins.
LEMMA BeginIsDated ==
    ASSUME DInv, NEW plan, NEW k, Begin(plan, k), plan.op # "put",
           Dated(plan.index.versions), Dated(plan.marker.index.versions)
    PROVE  DInv'
  <1>1. UNCHANGED <<indexes, now>> /\ (pending' = Idle \/ pending' = plan)
    BY DEF Begin, durable, Settle
  <1> QED
    BY <1>1 DEF DInv, Dated

\* The same for those that end in sync_current_state_for_key_from_index.
LEMMA SyncIsDated ==
    ASSUME DInv, NEW op, op # "put", NEW p, NEW o, NEW ix, Dated(ix.versions), NEW todo, NEW k,
           Begin(SyncPlan(op, p, o, ix, todo), k)
    PROVE  DInv'
  <1> DEFINE plan == SyncPlan(op, p, o, ix, todo)
  <1>1. plan.index = ix /\ plan.op = op /\ plan.marker = NoMarker
    BY DEF SyncPlan, Plan
  <1> HIDE DEF plan
  <1>2. Dated(plan.marker.index.versions)
    BY <1>1 DEF NoMarker, EmptyIndex, Dated
  <1> QED
    BY <1>1, <1>2, BeginIsDated DEF plan

\* The new version of a confirmed put is the preferred head of its object, and its
\* path is free or the object's, so that the plan binds it.
LEMMA PutIsShown ==
    ASSUME \A f \in ForeignIds : f <= MaxIds, IInv, HInv, TInv, DInv,
           NEW p \in Paths, NEW c \in Contents, NEW st \in States, NEW requested \in ParentChoices(IndexFor(p)),
           Put(p, c, requested, st)
    PROVE  DInv'
  <1> DEFINE ix     == IndexFor(p)
             o      == ObjectFor(p)
             m      == Manifest(p, c)
             v      == [kind |-> "ver", n |-> ids + 1]
             record == RecordAt(p, m, ParentsOf(ix, requested), st)
             vs     == Insert(ix.versions, v, record)
             heads  == (ix.heads \ record.parents) \cup {v}
             new    == WithVersion(ix, v, record)
             plan   == SyncPlan("put", p, o, new, {"index"})
  <1>1. Begin(plan, 1)
    BY DEF Put
  <1>2. /\ ids \in Nat /\ ids + 1 <= MaxIds /\ ids' = ids + 1 /\ UNCHANGED <<indexes, bindings, now>>
        /\ pending' = Idle \/ pending' = plan
    BY <1>1 DEF Begin, Settle, durable, IInv, ObjectsWereMade
  <1>3. /\ IndexOK(ix) /\ ParentsOf(ix, requested) \in SUBSET VersionIds /\ Good(ix, ids) /\ Dated(ix.versions)
    BY IndexForIsOK, IndexForIsGood, IndexForIsDated DEF ParentsOf, ParentChoices, IndexOK, VersionsOK
  <1>4. v \in VersionIds /\ m \in Manifests /\ "ver" \in DOMAIN KindRank
    BY <1>2, NextIdIsOK DEF Manifest, Manifests, KindRank
  <1>5. /\ record \in Records /\ record.created_at = now /\ record.state = st /\ record.path = p
        /\ record.manifest = m
    BY <1>3, <1>4, RecordIsOK DEF RecordAt
  <1>6. /\ new.versions = vs /\ new.heads = heads /\ new.preferred = PreferredHead(vs, heads)
    BY DEF WithVersion, Index
  <1>7. /\ DOMAIN vs = DOMAIN ix.versions \cup {v} /\ vs[v] = record
        /\ \A w \in DOMAIN ix.versions : w # v => vs[w] = ix.versions[w]
    BY DEF Insert
  <1>8. Dated(vs)
    <2> HIDE DEF ix, v, record
    <2> QED
      BY <1>3, <1>5, InsertIsDated
  <1> HIDE DEF vs, m
  <1>9. /\ heads \in SUBSET VersionIds /\ v \in heads /\ \A h \in heads : vs[h] \in Records
        /\ \A h \in heads \ {v} : h \in DOMAIN ix.versions /\ vs[h] = ix.versions[h]
    BY <1>3, <1>4, <1>5, <1>7 DEF IndexOK, VersionsOK
  <1>10. ASSUME st = Confirmed PROVE new.preferred = v
    <2>1. ASSUME NEW h \in heads \ {v} PROVE Outranks(vs, v, h)
      <3>1. /\ vs[h].state \in {1, 2} /\ vs[h].created_at \in Nat /\ vs[h].created_at <= now /\ now \in Nat
            /\ vs[v].state = 2 /\ vs[v].created_at = now
        BY <1>3, <1>5, <1>7, <1>9, <1>10, <2>1, BoundAssumption
           DEF Records, States, Confirmed, Provisional, Dated, TInv
      <3>2. h.n \in Nat /\ KindRank[h.kind] \in 1..6 /\ (KindRank[h.kind] = KindRank[v.kind] => h.kind = v.kind)
        BY <1>4, <1>9, <2>1, VersionIdFields
      <3>3. h.n <= ids
        <4>1. h.n \in (1..ids) \cup ForeignIds
          BY <1>3, <1>9, <2>1 DEF Good, Numbered
        <4>2. \A f \in ForeignIds : f = 0
          BY ForeignAssumption, BoundAssumption
        <4> QED
          BY <1>2, <4>1, <4>2
      <3>4. v.n = ids + 1 /\ KindRank[v.kind] = 6
        BY DEF KindRank
      <3>5. IdAfter(v, h)
        BY <1>2, <3>2, <3>3, <3>4 DEF IdAfter
      <3> QED
        BY <3>1, <3>5 DEF Outranks
    <2> HIDE DEF heads, v, new
    <2> QED
      BY <1>6, <1>9, <2>1, BestIsPreferred
  <1>11. /\ plan.op = "put" /\ plan.index = new /\ plan.marker = NoMarker /\ plan.object = o /\ plan.path = p
         /\ plan.unbind = SyncUnbind(p, o, new) /\ plan.bind = (IF Live(new) THEN HeadRecord(new).manifest ELSE TOMBSTONE)
         /\ "index" \in plan.todo /\ "marker" \notin plan.todo
         /\ SyncBinds(p, o, new) => "bind" \in plan.todo
    BY DEF SyncPlan, Plan
  <1>12. m # TOMBSTONE
    BY PathAssumption DEF m, Manifest, TOMBSTONE
  <1>13. ASSUME st = Confirmed
         PROVE  /\ p \notin plan.unbind /\ plan.bind = m
                /\ "bind" \in plan.todo \/ bindings[p] = [object |-> o, manifest |-> m]
    <2>1. HeadRecord(new) = record /\ Live(new)
      <3>1. v # NoVersion
        BY DEF NoVersion
      <3> HIDE DEF new, v, record
      <3> QED
        BY <1>5, <1>6, <1>7, <1>10, <1>12, <1>13, <3>1 DEF HeadRecord, Live
    <2>2. ~Bound(p) \/ bindings[p].object = o
      BY DEF ObjectFor
    <2> HIDE DEF plan, new, record, o
    <2> QED
      BY <1>5, <1>11, <2>1, <2>2 DEF SyncBinds, SyncUnbind
  <1>14. new.versions[v] = record
    BY <1>6, <1>7
  <1> HIDE DEF plan, new, record, o, heads
  <1>15. pending' # Idle => PutShows(pending)'
    BY <1>2, <1>5, <1>10, <1>11, <1>13, <1>14 DEF PutShows
  <1>16. pending' # Idle => Dated(pending.index.versions)' /\ Dated(pending.marker.index.versions)'
    BY <1>2, <1>6, <1>8, <1>11 DEF Dated, NoMarker, EmptyIndex
  <1> QED
    BY <1>2, <1>15, <1>16 DEF DInv, Dated

\* No operation dates a version after the present.
LEMMA OperationIsDated ==
    ASSUME \A f \in ForeignIds : f <= MaxIds, IInv, HInv, TInv, DInv, NEW p \in Paths, Operation(p)
    PROVE  DInv'
  <1>0. \A q \in Paths : Dated(IndexFor(q).versions)
    BY IndexForIsDated
  <1>1. ASSUME NEW q \in Paths, NEW v, NEW m, NEW parents, NEW st, NEW op, op # "put", NEW k, NEW ix, NEW o,
               ix.versions = Insert(IndexFor(q).versions, v, RecordAt(q, m, parents, st)),
               Begin(SyncPlan(op, q, o, ix, {"index"}), k)
        PROVE  DInv'
    <2>1. RecordAt(q, m, parents, st).created_at = now
      BY DEF RecordAt
    <2>2. Dated(ix.versions)
      BY <1>0, <1>1, <2>1, InsertIsDated
    <2> QED
      BY <1>1, <2>2, SyncIsDated
  <1>2. ASSUME NEW o, Dated(indexes[o].versions), NEW v, NEW op, op # "put",
               Begin(SyncPlan(op, p, o, Reindexed(Without(indexes[o].versions, v)), {"index"}), 0)
        PROVE  DInv'
    <2>1. Dated(Without(indexes[o].versions, v))
      BY <1>2 DEF Dated, Without
    <2> QED
      BY <1>2, <2>1, IndexStores, SyncIsDated
  <1>3. ASSUME NEW q \in Paths, NEW op, op # "put", NEW c, NEW st, CopyTo(op, q, c, st) PROVE DInv'
    <2> DEFINE v  == [kind |-> op, n |-> ids + 1]
               ix == Reindexed(Insert(IndexFor(q).versions, v,
                                      RecordAt(q, Manifest(q, c), Preferred(IndexFor(q)), st)))
    <2>1. Begin(SyncPlan(op, q, ObjectFor(q), ix, {"index"}), 1)
      BY <1>3 DEF CopyTo
    <2>2. ix.versions = Insert(IndexFor(q).versions, v, RecordAt(q, Manifest(q, c), Preferred(IndexFor(q)), st))
      BY IndexStores
    <2> HIDE DEF ix, v
    <2> QED
      BY <1>1, <1>3, <2>1, <2>2
  <1>4. ASSUME NEW requested, NEW st, Tombstone(p, requested, st) PROVE DInv'
    <2> DEFINE v      == [kind |-> "tomb", n |-> ids + 1]
               record == RecordAt(p, TOMBSTONE, ParentsOf(IndexFor(p), requested), st)
               ix     == WithVersion(IndexFor(p), v, record)
    <2>1. Begin(SyncPlan("tombstone", p, ObjectFor(p), ix, {"index"}), 1)
      BY <1>4 DEF Tombstone
    <2>2. ix.versions = Insert(IndexFor(p).versions, v, record)
      BY IndexStores
    <2> HIDE DEF ix, v
    <2> QED
      BY <1>1, <2>1, <2>2
  <1>5. ASSUME NEW c, NEW f, Reconcile(p, c, f) PROVE DInv'
    <2> DEFINE v      == [kind |-> "ver", n |-> f]
               record == RecordAt(p, Manifest(p, c), {}, Provisional)
               ix     == WithVersion(IndexFor(p), v, record)
    <2>1. \/ \E k : Begin(SyncPlan("reconcile", p, ObjectFor(p), ix, {"index"}), k)
          \/ Begin(SyncPlan("reconcile", p, ObjectFor(p), IndexFor(p), {}), 0)
      BY <1>5 DEF Reconcile
    <2>2. ix.versions = Insert(IndexFor(p).versions, v, record)
      BY IndexStores
    <2> HIDE DEF ix, v
    <2> QED
      BY <1>0, <1>1, <2>1, <2>2, SyncIsDated
  <1>6. ASSUME NEW v, Commit(p, v) PROVE DInv'
    <2> DEFINE ix == IndexFor(p)
               vs == [ix.versions EXCEPT ![v].state = Confirmed]
    <2>1. v \in DOMAIN ix.versions /\ Begin(SyncPlan("commit", p, ObjectFor(p), Index(vs, ix.heads), {"index"}), 0)
      BY <1>6 DEF Commit
    <2>2. /\ DOMAIN vs = DOMAIN ix.versions
          /\ \A w \in DOMAIN vs : "created_at" \in DOMAIN ix.versions[w] =>
                vs[w].created_at = ix.versions[w].created_at
      OBVIOUS
    <2>3. \A w \in DOMAIN ix.versions : "created_at" \in DOMAIN ix.versions[w]
      <3>1. \A w \in DOMAIN ix.versions : ix.versions[w] \in Records
        BY IndexForIsOK DEF IndexOK, VersionsOK
      <3> QED
        BY <3>1 DEF Records
    <2>4. Index(vs, ix.heads).versions = vs
      BY IndexStores
    <2> HIDE DEF vs
    <2>5. Dated(vs)
      BY <1>0, <2>2, <2>3 DEF Dated
    <2> QED
      BY <2>1, <2>4, <2>5, SyncIsDated
  <1>7. ASSUME NEW v, DeleteVersion(p, v) PROVE DInv'
    <2>1. PICK o \in ResolveVersion(p, v) :
            Begin(SyncPlan("delete", p, o, Reindexed(Without(indexes[o].versions, v)), {"index"}), 0)
      BY <1>7 DEF DeleteVersion
    <2>2. o \in Objects
      BY ResolvedWasMade, BoundAssumption DEF IInv, ObjectsWereMade, Objects
    <2>3. Dated(indexes[o].versions)
      BY <2>2 DEF DInv
    <2> QED
      BY <1>2, <2>1, <2>3
  <1>8. ASSUME NEW v, DropReplica(p, v) PROVE DInv'
    <2>1. Bound(p)
      BY <1>8 DEF DropReplica, IndexFor, EmptyIndex
    <2>2. IndexFor(p) = indexes[bindings[p].object]
      BY <2>1 DEF IndexFor
    <2>3. Begin(SyncPlan("drop", p, bindings[p].object,
                         Reindexed(Without(indexes[bindings[p].object].versions, v)), {"index"}), 0)
      BY <1>8, <2>2 DEF DropReplica
    <2> QED
      BY <1>0, <1>2, <2>2, <2>3
  <1>9. ASSUME NEW q \in Paths, Rename(p, q) PROVE DInv'
    <2> DEFINE ren  == [kind |-> "ren", n |-> ids + 1]
               gone == [kind |-> "rename_tomb", n |-> ids + 2]
               plan(m, parents, st, r) ==
                  Plan("rename", q, bindings[p].object,
                       WithVersion(IndexFor(p), ren, RecordAt(q, m, parents, st)),
                       {p}, m, {"index", "bind", "marker"},
                       [object |-> ids + 2, index |-> Reindexed(Insert(<<>>, gone, r))])
    <2>1. PICK m, parents, st, from :
             Begin(plan(m, parents, st, [RecordAt(p, TOMBSTONE, parents, st) EXCEPT !.copied_from = from]), 2)
      BY <1>9 DEF Rename
    <2>2. PICK r : r = [RecordAt(p, TOMBSTONE, parents, st) EXCEPT !.copied_from = from]
      OBVIOUS
    <2>3. r.created_at = now /\ RecordAt(q, m, parents, st).created_at = now
      BY <2>2 DEF RecordAt
    <2>4. PICK w : w = plan(m, parents, st, r)
      OBVIOUS
    <2>5. /\ w.op = "rename"
          /\ w.index.versions = Insert(IndexFor(p).versions, ren, RecordAt(q, m, parents, st))
          /\ w.marker.index.versions = Insert(<<>>, gone, r)
      BY <2>4, IndexStores DEF Plan
    <2>6. Dated(<<>>)
      BY DEF Dated
    <2>7. Dated(Insert(<<>>, gone, r))
      BY <2>3, <2>6, InsertIsDated
    <2>8. Dated(Insert(IndexFor(p).versions, ren, RecordAt(q, m, parents, st)))
      BY <1>0, <2>3, InsertIsDated
    <2>9. Begin(w, 2)
      BY <2>1, <2>2, <2>4
    <2> QED
      BY <2>5, <2>7, <2>8, <2>9, BeginIsDated
  <1>10. ASSUME NEW q \in Paths, Copy(p, q) PROVE DInv'
    BY <1>3, <1>10 DEF Copy
  <1>11. ASSUME NEW v, NEW q \in Paths, Restore(p, v, q) PROVE DInv'
    BY <1>3, <1>11 DEF Restore
  <1> QED
    BY <1>4, <1>5, <1>6, <1>7, <1>8, <1>9, <1>10, <1>11, PutIsShown DEF Operation

\* The last write of a put leaves its path showing its version.
LEMMA PutWrites ==
    ASSUME IInv, DInv, Writing, pending.op = "put"
    PROVE  LET v      == [kind |-> "ver", n |-> ids]
               record == pending.index.versions[v]
           IN  /\ pending' # Idle => PutShows(pending)'
               /\ pending' = Idle /\ record.state = Confirmed =>
                     /\ indexes'[pending.object].preferred = v
                     /\ bindings'[pending.path] = [object |-> pending.object, manifest |-> record.manifest]
  <1>0. PICK plan : plan = pending
    OBVIOUS
  <1>1. plan # Idle /\ PlanIsSound(plan, ids) /\ PutShows(plan) /\ ids' = ids
    BY <1>0 DEF IInv, PlanIsComplete, DInv, Writing, WriteIndex, RemoveBinding, UpsertBinding, WriteMarker
  <1>2. /\ plan = Plan(plan.op, plan.path, plan.object, plan.index, plan.unbind, plan.bind,
                       plan.todo, plan.marker)
        /\ plan.path \in Paths /\ plan.object \in Objects
        /\ bindings = [p \in Paths |-> bindings[p]] /\ indexes = [o \in Objects |-> indexes[o]]
    BY <1>1, BoundAssumption DEF PlanIsSound, Objects, IInv, ObjectsWereMade
  <1>3. ~WriteMarker
    BY <1>0, <1>1 DEF WriteMarker, PutShows
  <1>4. CASE WriteIndex
    <2>1. PICK w : w = [plan EXCEPT !.todo = @ \ {"index"}]
      OBVIOUS
    <2>2. /\ w # Idle /\ w.todo = plan.todo \ {"index"} /\ w.unbind = plan.unbind /\ w.path = plan.path
          /\ w.object = plan.object /\ w.index = plan.index /\ w.bind = plan.bind
      BY <1>2, <2>1, PlanFields
    <2>3. pending' = Settle(w) /\ bindings' = bindings /\ indexes'[plan.object] = plan.index
      BY <1>0, <1>2, <1>4, <2>1 DEF WriteIndex
    <2> QED
      BY <1>0, <1>1, <2>2, <2>3 DEF PutShows, Settle
  <1>5. ASSUME NEW p \in Paths, RemoveBinding(p)
        PROVE  LET v      == [kind |-> "ver", n |-> ids]
                   record == pending.index.versions[v]
               IN  /\ pending' # Idle => PutShows(pending)'
                   /\ pending' = Idle /\ record.state = Confirmed =>
                         /\ indexes'[pending.object].preferred = v
                         /\ bindings'[pending.path] = [object |-> pending.object, manifest |-> record.manifest]
    <2>1. PICK w : w = [plan EXCEPT !.unbind = @ \ {p}]
      OBVIOUS
    <2>2. /\ w # Idle /\ w.todo = plan.todo /\ w.unbind = plan.unbind \ {p} /\ w.path = plan.path
          /\ w.object = plan.object /\ w.index = plan.index /\ w.bind = plan.bind
      BY <1>2, <2>1, PlanFields
    <2>3. /\ pending' = Settle(w) /\ indexes' = indexes /\ p \in plan.unbind /\ "index" \notin plan.todo
          /\ \A q \in Paths \ {p} : bindings'[q] = bindings[q]
      BY <1>0, <1>2, <1>5, <2>1 DEF RemoveBinding
    <2> QED
      BY <1>0, <1>1, <1>2, <2>2, <2>3 DEF PutShows, Settle
  <1>6. CASE UpsertBinding
    <2>1. PICK w : w = [plan EXCEPT !.todo = @ \ {"bind"}]
      OBVIOUS
    <2>2. /\ w # Idle /\ w.todo = plan.todo \ {"bind"} /\ w.unbind = plan.unbind /\ w.path = plan.path
          /\ w.object = plan.object /\ w.index = plan.index /\ w.bind = plan.bind
      BY <1>2, <2>1, PlanFields
    <2>3. /\ pending' = Settle(w) /\ indexes' = indexes /\ "index" \notin plan.todo
          /\ bindings'[plan.path] = [object |-> plan.object, manifest |-> plan.bind]
      BY <1>0, <1>2, <1>6, <2>1 DEF UpsertBinding
    <2> QED
      BY <1>0, <1>1, <2>2, <2>3 DEF PutShows, Settle
  <1> QED
    BY <1>3, <1>4, <1>5, <1>6 DEF Writing

\* Every step keeps the dates, and the plan of a put.
LEMMA StepIsDated ==
    ASSUME \A f \in ForeignIds : f <= MaxIds
    PROVE  IInv /\ HInv /\ TInv /\ DInv /\ [Next]_vars => DInv'
  <1> SUFFICES ASSUME IInv, HInv, TInv, DInv, [Next]_vars PROVE DInv'
    OBVIOUS
  <1>1. CASE Writing
    <2>0. /\ pending # Idle /\ PlanIsSound(pending, ids) /\ now' = now
      BY <1>1 DEF IInv, PlanIsComplete, Writing, WriteIndex, RemoveBinding, UpsertBinding, WriteMarker
    <2>1. /\ \A o \in Objects : indexes'[o] \in {indexes[o], pending.index, pending.marker.index}
          /\ pending' # Idle => /\ pending'.index = pending.index /\ pending'.marker = pending.marker
                                /\ pending'.op = pending.op
      BY <1>1, <2>0 DEF Writing, WriteIndex, RemoveBinding, UpsertBinding, WriteMarker, Settle, PlanIsSound, Plan,
                  IInv, ObjectsWereMade
    <2>2. pending' # Idle /\ pending'.op = "put" => PutShows(pending)'
      BY <1>1, <2>1, PutWrites
    <2> QED
      BY <2>0, <2>1, <2>2 DEF DInv, Dated
  <1>2. CASE Crash \/ UNCHANGED vars
    <2>1. UNCHANGED <<indexes, bindings, now, ids>> /\ pending' \in {Idle, pending}
      BY <1>2 DEF Crash, vars, durable
    <2> QED
      BY <2>1 DEF DInv, Dated, PutShows
  <1>3. CASE Tick
    <2>1. UNCHANGED <<indexes, bindings, pending, ids>> /\ now' = now + 1 /\ now \in Nat
      BY <1>3, BoundAssumption DEF Tick, durable, TInv
    <2>2. \A vs : VersionsOK(vs) /\ Dated(vs) => Dated(vs)'
      <3> SUFFICES ASSUME NEW vs, VersionsOK(vs), Dated(vs), NEW v \in DOMAIN vs PROVE vs[v].created_at <= now'
        BY DEF Dated
      <3>1. vs[v].created_at \in Nat /\ vs[v].created_at <= now
        BY BoundAssumption DEF VersionsOK, Records, Dated
      <3> QED
        BY <2>1, <3>1
    <2>3. \A o \in Objects : VersionsOK(indexes[o].versions)
      BY DEF TInv, IndexOK
    <2>4. pending # Idle => VersionsOK(pending.index.versions) /\ VersionsOK(pending.marker.index.versions)
      BY DEF TInv, IndexOK
    <2>5. pending # Idle /\ pending.op = "put" => PutShows(pending)'
      BY <2>1 DEF DInv, PutShows
    <2> QED
      BY <2>1, <2>2, <2>3, <2>4, <2>5 DEF DInv, Dated
  <1> QED
    BY <1>1, <1>2, <1>3, OperationIsDated DEF Next

\* A confirmed put is what its path shows when it is acknowledged, whatever other
\* heads the object has, if no peer numbered a version ahead of this node's clock.
THEOREM PutsAreVisible ==
    ASSUME \A f \in ForeignIds : f <= MaxIds
    PROVE  Spec => PutIsVisible
  <1> DEFINE Visible ==
        Completes /\ pending.op = "put" =>
          LET v      == [kind |-> "ver", n |-> ids]
              record == pending.index.versions[v]
          IN  record.state = Confirmed =>
                 /\ indexes'[pending.object].preferred = v
                 /\ bindings'[pending.path] = [object |-> pending.object, manifest |-> record.manifest]
  <1>1. Init => DInv
    BY DEF Init, DInv, Dated, EmptyIndex
  <1>2. IInv /\ DInv /\ [Next]_vars => [Visible]_vars
    <2> SUFFICES ASSUME IInv, DInv, Next, Completes, pending.op = "put" PROVE Visible
      OBVIOUS
    <2>1. Writing
      <3>1. ~Tick
        BY DEF Tick, Completes
      <3>2. ASSUME NEW p \in Paths, Operation(p) PROVE FALSE
        <4>1. \E plan, k : Begin(plan, k)
          BY <3>2, OperationShape DEF Rename
        <4> QED
          BY <4>1 DEF Begin, Completes
      <3> QED
        BY <3>1, <3>2 DEF Next, Completes
    <2> QED
      BY <2>1, PutWrites DEF Completes
  <1> QED
    BY <1>1, <1>2, StepIsDated, TypesStart, TypesKeep, InitHolds, StepKeeps, InitIsGood, StepKeepsGood, PTL
       DEF Spec, PutIsVisible

===============================================================================
