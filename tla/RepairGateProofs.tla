--------------------------- MODULE RepairGateProofs ---------------------------
(***************************************************************************)
(* Machine-checked proofs about the repair execution gate, for any set of  *)
(* tasks, any aging time and any bounds.                                   *)
(*                                                                         *)
(* The argument for NoLostWakeup: whenever a task falls asleep, it has     *)
(* looked at the queue after arming its notification.  If it then saw the  *)
(* gate taken, the drop that frees the gate broadcasts.  If it saw the     *)
(* gate free, another waiter was selected, and only two things can make    *)
(* the sleeper the selected one: a waiter leaves the queue, which          *)
(* broadcasts, or the sleeper ages, for which it has set its timer.        *)
(***************************************************************************)
EXTENDS RepairGate, TLAPS

\* The bounds are numbers the provers can compute with.
LEMMA BoundsType ==
    /\ Aging \in Nat
    /\ MaxTime \in Nat
    /\ MaxRegistrations \in Nat
    /\ NoDeadline \in Nat
    /\ Times \subseteq Nat
    /\ EnqueueTimes \subseteq Nat
BY AgingAssumption, RegistrationsAssumption DEF NoDeadline, Times, EnqueueTimes

\* The fields of an entry of the queue.
LEMMA EntryType ==
    ASSUME NEW w \in Waiter
    PROVE  w.id \in Nat /\ w.priority \in Priorities /\ w.enqueued_at \in Nat
BY BoundsType DEF Waiter

-------------------------------------------------------------------------------
(***************************************************************************)
(* Type correctness                                                        *)
(***************************************************************************)

\* The next aging deadline of a queue, if any, is a time of the model.
LEMMA DeadlineType ==
    ASSUME NEW q \in SUBSET Waiter, NEW at \in Times,
           NEW d \in AgingDeadlines(q, at) \cup {NoDeadline}
    PROVE  d \in 0..NoDeadline
<1>1. CASE d \in AgingDeadlines(q, at)
  <2>1. PICK w \in q : d = w.enqueued_at + Aging
    BY <1>1 DEF AgingDeadlines
  <2>2. w.enqueued_at \in 0..(MaxTime - Aging)
    BY <2>1 DEF Waiter, EnqueueTimes
  <2> QED
    BY <2>1, <2>2, BoundsType, AgingAssumption DEF NoDeadline
<1>2. CASE d = NoDeadline
  BY <1>2, BoundsType
<1> QED
  BY <1>1, <1>2

\* A new gate is well typed.
LEMMA TypeInit == Init => TypeOK
<1> SUFFICES ASSUME Init PROVE TypeOK
  OBVIOUS
<1>1. active \in BOOLEAN /\ woken \in [Tasks -> BOOLEAN]
  BY DEF Init
<1>2. pc \in [Tasks -> PCs] /\ waiters \in SUBSET Waiter
  BY DEF Init, PCs
<1>3. next_waiter_id \in Nat /\ waiter \in [Tasks -> Nat] /\ now \in Times
  BY AgingAssumption DEF Init, Times
<1>4. timer \in [Tasks -> 0..NoDeadline]
  BY BoundsType DEF Init
<1> QED
  BY <1>1, <1>2, <1>3, <1>4 DEF TypeOK

\* Every step of acquire, of a cancellation and of a permit's drop keeps the types.
LEMMA TypeStep == TypeOK /\ [Next]_vars => TypeOK'
<1> SUFFICES ASSUME TypeOK, [Next]_vars
             PROVE  TypeOK'
  OBVIOUS
<1> USE DEF TypeOK
<1>1. ASSUME NEW t \in Tasks, NEW p \in Priorities, Register(t, p)
      PROVE  TypeOK'
  <2>1. [id |-> next_waiter_id, priority |-> p, enqueued_at |-> now] \in Waiter
    BY <1>1, AgingAssumption DEF Register, Waiter, EnqueueTimes, Times
  <2> QED
    BY <1>1, <2>1 DEF Register, PCs
<1>2. ASSUME NEW t \in Tasks, Arm(t) PROVE TypeOK'
  BY <1>2 DEF Arm, PCs
<1>3. ASSUME NEW t \in Tasks, Grant(t) PROVE TypeOK'
  BY <1>3 DEF Grant, PCs, Unregister
<1>4. ASSUME NEW t \in Tasks, Decide(t) PROVE TypeOK'
  <2>1. PICK d \in AgingDeadlines(waiters, now) \cup {NoDeadline} :
            timer' = [timer EXCEPT ![t] = d]
    BY <1>4 DEF Decide
  <2>2. d \in 0..NoDeadline
    BY DeadlineType
  <2> QED
    BY <1>4, <2>1, <2>2 DEF Decide, PCs
<1>5. ASSUME NEW t \in Tasks, Sleep(t) \/ Wake(t) PROVE TypeOK'
  BY <1>5, BoundsType DEF Sleep, Wake, PCs
<1>6. ASSUME NEW t \in Tasks, Cancel(t) PROVE TypeOK'
  BY <1>6, BoundsType DEF Cancel, PCs, Unregister
<1>7. ASSUME NEW t \in Tasks, Release(t) PROVE TypeOK'
  BY <1>7 DEF Release, PCs
<1>8. ASSUME NEW t \in Tasks, Notify(t) PROVE TypeOK'
  <2>1. woken' \in [Tasks -> BOOLEAN]
    BY <1>8 DEF Notify
  <2> QED
    BY <1>8, <2>1 DEF Notify, PCs
<1>9. CASE Tick
  BY <1>9, BoundsType DEF Tick, Times
<1>10. CASE UNCHANGED vars
  BY <1>10 DEF vars
<1> QED
  BY <1>1, <1>2, <1>3, <1>4, <1>5, <1>6, <1>7, <1>8, <1>9, <1>10 DEF Next, Step

\* Every variable of the gate keeps its type, whatever the tasks do.
THEOREM TypeCorrect == Spec => []TypeOK
BY TypeInit, TypeStep, PTL DEF Spec

-------------------------------------------------------------------------------
(***************************************************************************)
(* Mutual exclusion                                                        *)
(***************************************************************************)

\* Only a step that finds the gate free makes a task the holder.
LEMMA ExclusiveStep == TypeOK /\ PermitExclusive /\ [Next]_vars => PermitExclusive'
<1> SUFFICES ASSUME TypeOK, PermitExclusive, [Next]_vars
             PROVE  PermitExclusive'
  OBVIOUS
<1> USE DEF TypeOK, PermitExclusive
<1>1. ASSUME NEW t \in Tasks, NEW p \in Priorities, Register(t, p)
      PROVE  PermitExclusive'
  BY <1>1 DEF Register
<1>2. ASSUME NEW t \in Tasks, Grant(t) PROVE PermitExclusive'
  BY <1>2 DEF Grant
<1>3. ASSUME NEW t \in Tasks, Release(t) PROVE PermitExclusive'
  BY <1>3 DEF Release
<1>4. ASSUME NEW t \in Tasks, Arm(t) \/ Decide(t) \/ Sleep(t) \/ Wake(t) \/ Cancel(t) \/ Notify(t)
      PROVE  PermitExclusive'
  BY <1>4 DEF Arm, Decide, Sleep, Wake, Cancel, Notify
<1>5. CASE Tick \/ UNCHANGED vars
  BY <1>5 DEF Tick, vars
<1> QED
  BY <1>1, <1>2, <1>3, <1>4, <1>5 DEF Next, Step

\* Two repair runs never hold the permit together, for any number of callers.
THEOREM MutualExclusion == Spec => []PermitExclusive
<1>1. Init => PermitExclusive
  BY DEF Init, PermitExclusive
<1> QED
  BY <1>1, ExclusiveStep, TypeCorrect, PTL DEF Spec

-------------------------------------------------------------------------------
(***************************************************************************)
(* The queue                                                               *)
(***************************************************************************)

\* A task's entry is in the queue exactly while it is inside acquire, no two
\* entries and no two queued tasks share an id, and entries are stamped in the
\* order in which they were pushed.
QueueInv ==
    /\ QueueMatchesTasks
    /\ \A w \in waiters : w.id < next_waiter_id /\ w.enqueued_at <= now
    /\ \A v, w \in waiters : v.id = w.id => v = w
    /\ \A v, w \in waiters : v.id < w.id => v.enqueued_at <= w.enqueued_at

\* Entries come and go with their tasks, in the order of their ids.
LEMMA QueueStep == TypeOK /\ QueueInv /\ [Next]_vars => QueueInv'
<1> SUFFICES ASSUME TypeOK, QueueInv, [Next]_vars
             PROVE  QueueInv'
  OBVIOUS
<1> USE DEF TypeOK, QueueInv, QueueMatchesTasks
<1>0. \A w \in waiters : w.id \in Nat /\ w.enqueued_at \in Nat
  BY EntryType
<1>01. now \in Nat
  BY BoundsType
<1>1. ASSUME NEW t \in Tasks, NEW p \in Priorities, Register(t, p)
      PROVE  QueueInv'
  <2> DEFINE new == [id |-> next_waiter_id, priority |-> p, enqueued_at |-> now]
  <2>1. waiters' = waiters \cup {new} /\ next_waiter_id' = next_waiter_id + 1 /\ now' = now
    BY <1>1 DEF Register
  <2>2. new.id = next_waiter_id /\ new.enqueued_at = now
    OBVIOUS
  <2> HIDE DEF new
  <2>3. \A w \in waiters' : w.id < next_waiter_id' /\ w.enqueued_at <= now'
    BY <2>1, <2>2, <1>0, <1>01
  <2>4. \A v, w \in waiters' : v.id = w.id => v = w
    BY <2>1, <2>2, <1>0
  <2>5. \A v, w \in waiters' : v.id < w.id => v.enqueued_at <= w.enqueued_at
    BY <2>1, <2>2, <1>0, <1>01
  <2>6. \A u \in Tasks : /\ Queued(u)' <=> (Queued(u) \/ u = t)
                         /\ waiter'[u] = IF u = t THEN next_waiter_id ELSE waiter[u]
                         /\ u = t => ~Queued(u)
    BY <1>1 DEF Register, PCs, Queued
  <2>7. \A u \in Tasks : Queued(u)' => \E w \in waiters' : w.id = waiter'[u]
    BY <2>1, <2>2, <2>6
  <2>8. \A w \in waiters' : \E u \in Tasks : Queued(u)' /\ waiter'[u] = w.id
    BY <2>1, <2>2, <2>6
  <2>9. \A u, x \in Tasks : Queued(u)' /\ Queued(x)' /\ waiter'[u] = waiter'[x] => u = x
    BY <2>6, <1>0
  <2> QED
    BY <2>3, <2>4, <2>5, <2>7, <2>8, <2>9
<1>2. ASSUME NEW t \in Tasks, Grant(t) \/ Cancel(t) PROVE QueueInv'
  <2>1. /\ waiters' = {w \in waiters : w.id # waiter[t]}
        /\ waiter' = waiter /\ next_waiter_id' = next_waiter_id /\ now' = now
    BY <1>2 DEF Grant, Cancel, Unregister
  <2>2. \A u \in Tasks : Queued(u)' <=> (Queued(u) /\ u # t)
    BY <1>2 DEF Grant, Cancel, PCs, Queued
  <2>3. Queued(t)
    BY <1>2 DEF Grant, Cancel, Queued
  <2>4. QueueMatchesTasks'
    BY <2>1, <2>2, <2>3
  <2> QED
    BY <2>1, <2>4
<1>3. ASSUME NEW t \in Tasks, Arm(t) \/ Decide(t) \/ Sleep(t) \/ Wake(t) \/ Release(t) \/ Notify(t)
      PROVE  QueueInv'
  <2>1. UNCHANGED <<waiters, waiter, next_waiter_id, now>>
    BY <1>3 DEF Arm, Decide, Sleep, Wake, Release, Notify
  <2>2. \A u \in Tasks : Queued(u)' <=> Queued(u)
    BY <1>3 DEF Arm, Decide, Sleep, Wake, Release, Notify, PCs, Queued
  <2> QED
    BY <2>1, <2>2
<1>4. CASE Tick
  BY <1>4, <1>0, <1>01 DEF Tick, Queued
<1>5. CASE UNCHANGED vars
  BY <1>5 DEF vars, Queued
<1> QED
  BY <1>1, <1>2, <1>3, <1>4, <1>5 DEF Next, Step

\* The queue's invariant holds of every behaviour.
LEMMA QueueInvariant == Spec => []QueueInv
<1>1. Init => QueueInv
  BY DEF Init, QueueInv, QueueMatchesTasks, Queued
<1> QED
  BY <1>1, QueueStep, TypeCorrect, PTL DEF Spec

\* The queue never loses a waiting task and never keeps one that has gone.
THEOREM QueueMatches == Spec => []QueueMatchesTasks
<1>1. QueueInv => QueueMatchesTasks
  BY DEF QueueInv
<1> QED
  BY <1>1, QueueInvariant, PTL

-------------------------------------------------------------------------------
(***************************************************************************)
(* No lost wakeup                                                          *)
(***************************************************************************)

\* Why a task may stay asleep: the gate is taken, it has been notified, a drop
\* is about to broadcast, its timer is due, or it is not the selected waiter and
\* its timer will be due no later than the moment at which it has aged.
MaySleep(t) ==
    \/ active
    \/ woken[t]
    \/ \E u \in Tasks : pc[u] = "notify"
    \/ TimerDue(t)
    \/ /\ ~Selected(waiters, now, waiter[t])
       /\ \A w \in waiters :
              (/\ w.id = waiter[t]
               /\ w.priority = Automatic
               /\ now < w.enqueued_at + Aging)
              => timer[t] <= w.enqueued_at + Aging

\* A task that has left the critical section without the permit.
Parked(t) == pc[t] \in {"decided", "asleep"}

SleepInv == \A t \in Tasks : Parked(t) => MaySleep(t)

\* Time alone never selects a waiter that has not just aged.
LEMMA SelectionAfterTick ==
    ASSUME TypeOK, QueueInv, NEW w \in waiters,
           ~Selected(waiters, now, w.id),
           Selected(waiters, now + 1, w.id)
    PROVE  /\ w.priority = Automatic
           /\ now < w.enqueued_at + Aging
           /\ w.enqueued_at + Aging <= now + 1
<1> USE DEF QueueInv, TypeOK
<1>0. now \in Nat /\ Aging \in Nat /\ \A v \in waiters : v.id \in Nat /\ v.enqueued_at \in Nat
  BY BoundsType, EntryType
<1>1. Aged(waiters, now) \subseteq Aged(waiters, now + 1)
  BY <1>0 DEF Aged
<1>2. \A v \in waiters : v.id = w.id => v = w
  OBVIOUS
<1>3. CASE Aged(waiters, now) = {}
  <2>1. IsFirst(w, Aged(waiters, now + 1))
    BY <1>1, <1>2, <1>3 DEF Selected
  <2>2. w \in Aged(waiters, now + 1) /\ w \notin Aged(waiters, now)
    BY <2>1, <1>3 DEF IsFirst
  <2> QED
    BY <2>2, <1>0 DEF Aged
<1>4. CASE Aged(waiters, now) # {}
  <2>1. IsFirst(w, Aged(waiters, now + 1))
    BY <1>1, <1>2, <1>4 DEF Selected
  <2>2. w \notin Aged(waiters, now)
    BY <2>1, <1>1, <1>2 DEF Selected, IsFirst
  <2>3. w \in Aged(waiters, now + 1)
    BY <2>1 DEF IsFirst
  <2> QED
    BY <2>2, <2>3, <1>0 DEF Aged
<1> QED
  BY <1>3, <1>4

\* A waiter that joins the queue does not make an older one the selected one.
LEMMA SelectionAfterPush ==
    ASSUME TypeOK, QueueInv, NEW w \in waiters, NEW new \in Waiter,
           new.id = next_waiter_id, new.enqueued_at = now,
           Selected(waiters \cup {new}, now, w.id)
    PROVE  Selected(waiters, now, w.id)
<1> USE DEF QueueInv, TypeOK
<1> DEFINE q == waiters \cup {new}
<1>0. /\ now \in Nat /\ Aging \in Nat /\ new.id \in Nat
      /\ \A v \in waiters : v.id \in Nat /\ v.enqueued_at \in Nat
  BY BoundsType, EntryType
<1>1. \A v \in q : v.id = w.id => v = w
  BY <1>0
<1>2. \A v \in waiters : v.id < new.id /\ v.enqueued_at <= new.enqueued_at
  OBVIOUS
<1>3. Manuals(waiters) \subseteq Manuals(q) /\ Manuals(q) \subseteq Manuals(waiters) \cup {new}
  BY DEF Manuals
<1>4. \A m \in waiters : IsFirst(m, Manuals(q)) <=> IsFirst(m, Manuals(waiters))
  BY <1>2, <1>3, <1>0 DEF IsFirst, Manuals
<1>5. Aged(waiters, now) = Aged(q, now) \cap waiters
  <2>1. IsFirst(new, Manuals(q)) => Manuals(waiters) = {}
    BY <1>2, <1>3, <1>0 DEF IsFirst, Manuals
  <2>2. Manuals(waiters) = {} => Manuals(q) = {} \/ IsFirst(new, Manuals(q))
    <3>1. Manuals(waiters) = {} => Manuals(q) \subseteq {new}
      BY <1>3
    <3>2. ASSUME Manuals(waiters) = {}, Manuals(q) # {} PROVE IsFirst(new, Manuals(q))
      <4>1. Manuals(q) = {new}
        BY <3>1, <3>2
      <4>2. new.id <= new.id
        BY <1>0
      <4> QED
        BY <4>1, <4>2 DEF IsFirst
    <3> QED
      BY <3>2
  <2> QED
    BY <2>1, <2>2, <1>2, <1>3, <1>4, <1>0 DEF Aged
<1>6. CASE IsFirst(w, Aged(q, now))
  <2>1. IsFirst(w, Aged(waiters, now))
    BY <1>5, <1>6 DEF IsFirst
  <2> QED
    BY <2>1 DEF Selected
<1>7. CASE Aged(q, now) = {} /\ IsFirst(w, Manuals(q))
  BY <1>7, <1>5, <1>4 DEF Selected
<1>8. CASE Aged(q, now) = {} /\ Manuals(q) = {} /\ IsFirst(w, q)
  <2>1. Aged(waiters, now) = {} /\ Manuals(waiters) = {} /\ IsFirst(w, waiters)
    BY <1>8, <1>5, <1>3 DEF IsFirst
  <2> QED
    BY <2>1 DEF Selected
<1> QED
  BY <1>1, <1>6, <1>7, <1>8 DEF Selected

\* No step lets a task sleep on that should have been woken.
LEMMA SleepStep ==
    TypeOK /\ QueueInv /\ SleepInv /\ [Next]_vars => SleepInv'
<1> SUFFICES ASSUME TypeOK, QueueInv, SleepInv, [Next]_vars,
                    NEW t \in Tasks, Parked(t)'
             PROVE  MaySleep(t)'
  BY DEF SleepInv
<1> USE DEF TypeOK
<1>0. /\ now \in Nat /\ Aging \in Nat /\ timer[t] \in Nat /\ NoDeadline \in Nat
      /\ \A v \in waiters : v.id \in Nat /\ v.enqueued_at \in Nat
  BY BoundsType, EntryType
<1>1. ASSUME NEW u \in Tasks, NEW p \in Priorities, Register(u, p)
      PROVE  MaySleep(t)'
  <2> DEFINE new == [id |-> next_waiter_id, priority |-> p, enqueued_at |-> now]
  <2>1. /\ waiters' = waiters \cup {new}
        /\ UNCHANGED <<active, woken, timer, now>>
        /\ pc' = [pc EXCEPT ![u] = "arm"]
        /\ waiter' = [waiter EXCEPT ![u] = next_waiter_id]
    BY <1>1 DEF Register
  <2>2. new \in Waiter /\ new.id = next_waiter_id /\ new.enqueued_at = now
    BY <1>1, AgingAssumption DEF Register, Waiter, EnqueueTimes, Times
  <2> HIDE DEF new
  <2>3. u # t /\ waiter'[t] = waiter[t] /\ Parked(t)
    BY <2>1 DEF PCs, Parked
  <2>4. MaySleep(t)
    BY <2>3 DEF SleepInv
  <2>5. pc[u] = "idle"
    BY <1>1 DEF Register
  <2>6. PICK w \in waiters : w.id = waiter[t]
    BY <2>3 DEF QueueInv, QueueMatchesTasks, Queued, Parked
  <2>7. new.id # waiter[t]
    BY <2>2, <2>6, <1>0 DEF QueueInv
  <2>8. ~Selected(waiters, now, waiter[t]) => ~Selected(waiters', now', waiter'[t])
    BY <2>1, <2>2, <2>3, <2>6, SelectionAfterPush
  <2>9. (\E x \in Tasks : pc[x] = "notify") => \E x \in Tasks : pc'[x] = "notify"
    BY <2>1, <2>5
  <2> QED
    BY <2>1, <2>3, <2>4, <2>7, <2>8, <2>9 DEF MaySleep, TimerDue
<1>2. ASSUME NEW u \in Tasks, Arm(u) PROVE MaySleep(t)'
  <2>1. /\ UNCHANGED <<active, waiters, waiter, timer, now>>
        /\ u # t /\ Parked(t) /\ woken'[t] = woken[t]
    BY <1>2 DEF Arm, PCs, Parked
  <2>2. (\E x \in Tasks : pc[x] = "notify") => \E x \in Tasks : pc'[x] = "notify"
    BY <1>2 DEF Arm
  <2> QED
    BY <2>1, <2>2 DEF SleepInv, MaySleep, TimerDue
<1>3. ASSUME NEW u \in Tasks, Grant(u) PROVE MaySleep(t)'
  BY <1>3 DEF Grant, MaySleep
<1>4. ASSUME NEW u \in Tasks, Decide(u) PROVE MaySleep(t)'
  <2>1. /\ UNCHANGED <<active, waiters, waiter, woken, now>>
        /\ pc' = [pc EXCEPT ![u] = "decided"] /\ pc[u] = "inspect"
    BY <1>4 DEF Decide
  <2>2. (\E x \in Tasks : pc[x] = "notify") => \E x \in Tasks : pc'[x] = "notify"
    BY <2>1
  <2>3. CASE u = t /\ ~active
    <3>1. ~Selected(waiters, now, waiter[t])
      BY <1>4, <2>3 DEF Decide
    <3>2. IsNextAgingDeadline(waiters, now, timer'[t])
      BY <1>4, <2>3 DEF Decide
    <3>3. ASSUME NEW w \in waiters, w.priority = Automatic, now < w.enqueued_at + Aging
          PROVE  timer'[t] <= w.enqueued_at + Aging
      <4>1. w.enqueued_at + Aging \in AgingDeadlines(waiters, now)
        BY <3>3, <1>0 DEF AgingDeadlines
      <4> QED
        BY <4>1, <3>2 DEF IsNextAgingDeadline
    <3> QED
      BY <2>1, <3>1, <3>3 DEF MaySleep
  <2>4. CASE u # t
    <3>1. timer'[t] = timer[t] /\ Parked(t)
      BY <1>4, <2>1, <2>4 DEF Decide, Parked
    <3> QED
      BY <2>1, <2>2, <3>1 DEF SleepInv, MaySleep, TimerDue
  <2> QED
    BY <2>1, <2>3, <2>4 DEF MaySleep
<1>5. ASSUME NEW u \in Tasks, Sleep(u) \/ Wake(u) PROVE MaySleep(t)'
  <2>1. /\ UNCHANGED <<active, waiters, waiter, woken, now>>
        /\ Parked(t) /\ timer'[t] = timer[t]
    BY <1>5 DEF Sleep, Wake, Parked
  <2>2. (\E x \in Tasks : pc[x] = "notify") => \E x \in Tasks : pc'[x] = "notify"
    BY <1>5 DEF Sleep, Wake
  <2> QED
    BY <2>1, <2>2 DEF SleepInv, MaySleep, TimerDue
<1>6. ASSUME NEW u \in Tasks, Cancel(u) \/ Release(u) PROVE MaySleep(t)'
  <2>1. pc'[u] = "notify"
    BY <1>6 DEF Cancel, Release
  <2> QED
    BY <2>1 DEF MaySleep
<1>7. ASSUME NEW u \in Tasks, Notify(u) PROVE MaySleep(t)'
  <2>1. Parked(t)
    BY <1>7 DEF Notify, PCs, Parked
  <2>2. woken'[t] = TRUE
    BY <1>7, <2>1 DEF Notify, Armed, Parked
  <2> QED
    BY <2>2 DEF MaySleep
<1>8. CASE Tick
  <2>1. /\ UNCHANGED <<active, waiters, waiter, woken, pc, timer>> /\ now' = now + 1
        /\ Parked(t)
    BY <1>8 DEF Tick, Parked
  <2>2. MaySleep(t)
    BY <2>1 DEF SleepInv
  <2>3. PICK w \in waiters : w.id = waiter[t]
    BY <2>1 DEF QueueInv, QueueMatchesTasks, Queued, Parked
  <2>4. TimerDue(t) => TimerDue(t)'
    BY <2>1, <1>0 DEF TimerDue
  <2>5. ASSUME ~Selected(waiters, now, waiter[t]),
               \A v \in waiters :
                  (v.id = waiter[t] /\ v.priority = Automatic /\ now < v.enqueued_at + Aging)
                  => timer[t] <= v.enqueued_at + Aging
        PROVE  MaySleep(t)'
    <3>1. CASE Selected(waiters, now + 1, waiter[t])
      <4>1. /\ w.priority = Automatic
            /\ now < w.enqueued_at + Aging
            /\ w.enqueued_at + Aging <= now + 1
        BY <2>3, <2>5, <3>1, SelectionAfterTick
      <4>2. timer[t] <= now + 1
        BY <4>1, <2>3, <2>5, <1>0
      <4>3. timer[t] # NoDeadline
        BY <4>2, <1>8, <1>0, BoundsType DEF Tick, NoDeadline, Times
      <4> QED
        BY <4>2, <4>3, <2>1, <1>0 DEF MaySleep, TimerDue
    <3>2. CASE ~Selected(waiters, now + 1, waiter[t])
      BY <3>2, <2>1, <2>5, <1>0 DEF MaySleep
    <3> QED
      BY <3>1, <3>2
  <2> QED
    BY <2>1, <2>2, <2>4, <2>5 DEF MaySleep
<1>9. CASE UNCHANGED vars
  BY <1>9 DEF vars, SleepInv, MaySleep, TimerDue, Parked
<1> QED
  BY <1>1, <1>2, <1>3, <1>4, <1>5, <1>6, <1>7, <1>8, <1>9 DEF Next, Step

\* When the gate is free, its selected waiter is never left asleep without a
\* wakeup on its way: the broadcast is armed before the state is inspected, and
\* the timer covers the selections that only the passing of time causes.
THEOREM WakeupsNotLost == Spec => []NoLostWakeup
<1>1. Init => SleepInv
  BY DEF Init, SleepInv, Parked
<1>2. SleepInv => NoLostWakeup
  BY DEF SleepInv, NoLostWakeup, MaySleep, Parked
<1> QED
  BY <1>1, <1>2, SleepStep, TypeCorrect, QueueInvariant, PTL DEF Spec

-------------------------------------------------------------------------------
(***************************************************************************)
(* Order of the grants                                                     *)
(***************************************************************************)

\* An older waiter is passed over only if it is automatic and has not aged.
LEMMA GrantOrder ==
    ASSUME TypeOK, QueueInv, NEW v \in waiters, NEW w \in waiters,
           Selected(waiters, now, w.id),
           v.enqueued_at < w.enqueued_at
    PROVE  /\ v.priority = Automatic
           /\ w.priority = Manual
           /\ now < v.enqueued_at + Aging
<1> USE DEF TypeOK, QueueInv
<1>0. /\ now \in Nat /\ Aging \in Nat
      /\ \A x \in waiters : x.id \in Nat /\ x.enqueued_at \in Nat /\ x.priority \in Priorities
  BY BoundsType, EntryType
<1>1. v.id < w.id
  <2>1. v.id # w.id
    BY <1>0
  <2>2. ~(w.id < v.id)
    BY <1>0
  <2> QED
    BY <2>1, <2>2, <1>0
<1>2. \A x \in waiters : x.id = w.id => x = w
  OBVIOUS
<1>4. \A m \in waiters : IsFirst(m, Manuals(waiters)) /\ v.priority = Manual
                            => m.enqueued_at <= v.enqueued_at
  BY <1>0 DEF IsFirst, Manuals
<1>5. ~IsFirst(w, Aged(waiters, now))
  <2> SUFFICES ASSUME IsFirst(w, Aged(waiters, now)) PROVE FALSE
    OBVIOUS
  <2>1. w \in Aged(waiters, now) /\ \A x \in Aged(waiters, now) : w.id <= x.id
    BY DEF IsFirst
  <2>2. v \notin Aged(waiters, now)
    BY <2>1, <1>1, <1>0
  <2>3. v.priority # Automatic
    BY <2>1, <2>2, <1>0 DEF Aged
  <2>4. v.priority = Manual
    BY <2>3, <1>0 DEF Priorities
  <2>5. PICK m \in waiters : IsFirst(m, Manuals(waiters)) /\ w.enqueued_at <= m.enqueued_at
    BY <2>1, <2>4 DEF Aged, Manuals
  <2>6. m.enqueued_at <= v.enqueued_at
    BY <2>4, <2>5, <1>4
  <2> QED
    BY <2>5, <2>6, <1>0
<1>6. Aged(waiters, now) = {} /\ ~IsFirst(w, waiters)
  BY <1>0, <1>1, <1>2, <1>5 DEF Selected, IsFirst
<1>7. IsFirst(w, Manuals(waiters))
  BY <1>2, <1>5, <1>6 DEF Selected
<1>8. w.priority = Manual
  BY <1>7 DEF IsFirst, Manuals
<1>9. v.priority = Automatic
  <2>1. v.priority # Manual
    BY <1>0, <1>1, <1>7 DEF IsFirst, Manuals
  <2> QED
    BY <2>1, <1>0 DEF Priorities
<1>10. now < v.enqueued_at + Aging
  BY <1>0, <1>6, <1>7, <1>9 DEF Aged
<1> QED
  BY <1>8, <1>9, <1>10

\* A grant passes over an older waiter only when that waiter is automatic, the
\* granted one manual, and the older one has not yet aged.
THEOREM GrantsAreFair == Spec => FairGrants
<1>1. TypeOK /\ QueueInv =>
        \A v, w \in waiters :
          (/\ \E t \in Tasks : waiter[t] = w.id /\ Grant(t)
           /\ v.enqueued_at < w.enqueued_at)
          => /\ v.priority = Automatic
             /\ w.priority = Manual
             /\ now < v.enqueued_at + Aging
  BY GrantOrder DEF Grant
<1> QED
  BY <1>1, TypeCorrect, QueueInvariant, PTL DEF FairGrants

===============================================================================
