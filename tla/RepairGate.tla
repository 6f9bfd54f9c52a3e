------------------------------ MODULE RepairGate ------------------------------
(***************************************************************************)
(* The repair execution gate of a storage node                             *)
(* (crates/server-node-sdk/src/repair_execution_gate.rs).                  *)
(*                                                                         *)
(* Every repair run of a node, manual or automatic, first acquires this    *)
(* gate.  One permit exists.  Waiters queue under a mutex, and are woken   *)
(* by a broadcast (tokio's Notify::notify_waiters) that is NOT remembered  *)
(* for later waiters, so a waiter arms its notification before it looks at *)
(* the state.  Manual work overtakes automatic work, until an automatic    *)
(* waiter has waited automatic_priority_aging; an idle gate that waits for *)
(* such an aging is woken by a timer and not by a broadcast.               *)
(*                                                                         *)
(* A task is a future that calls acquire.  The steps of the loop that run  *)
(* outside the mutex are steps of their own: arm, inspect, sleep; a        *)
(* dropped permit (or a dropped, still waiting future) first updates the   *)
(* state under the mutex and broadcasts after it has unlocked it.          *)
(***************************************************************************)
EXTENDS Naturals

CONSTANTS Tasks,             \* the futures that call acquire
          Aging,             \* automatic_priority_aging, in clock ticks
          MaxTime,           \* bound: last tick of the clock
          MaxRegistrations   \* bound: number of calls of acquire

ASSUME AgingAssumption == Aging \in Nat /\ MaxTime \in Nat /\ Aging <= MaxTime
ASSUME RegistrationsAssumption == MaxRegistrations \in Nat

VARIABLES active,          \* RepairExecutionGateState.active
          next_waiter_id,  \* RepairExecutionGateState.next_waiter_id
          waiters,         \* RepairExecutionGateState.waiters
          pc,              \* where each task is in acquire or in a drop
          waiter,          \* the id in a task's RepairExecutionWaiterRegistration
          woken,           \* the armed notification of a task has fired
          timer,           \* the deadline a sleeping task also waits for
          now              \* Instant::now()

vars == <<active, next_waiter_id, waiters, pc, waiter, woken, timer, now>>

Manual == "Manual"
Automatic == "Automatic"
Priorities == {Manual, Automatic}

\* "idle": outside acquire; "arm": top of the loop; "inspect": notification
\* armed, mutex not yet taken; "decided": mutex released without the permit,
\* notification not yet polled; "asleep": at the await; "holding": owns the
\* permit; "notify": state updated by a drop, broadcast not yet sent.
PCs == {"idle", "arm", "inspect", "decided", "asleep", "holding", "notify"}

\* The value of an Option<Instant> that is None.
NoDeadline == MaxTime + Aging + 1

Times == 0..MaxTime
\* A waiter is registered early enough to grow old within the clock's bound.
EnqueueTimes == 0..(MaxTime - Aging)
Waiter == [id : Nat, priority : Priorities, enqueued_at : EnqueueTimes]

Init ==
    /\ active = FALSE
    /\ next_waiter_id = 0
    /\ waiters = {}
    /\ pc = [t \in Tasks |-> "idle"]
    /\ waiter = [t \in Tasks |-> 0]
    /\ woken = [t \in Tasks |-> FALSE]
    /\ timer = [t \in Tasks |-> NoDeadline]
    /\ now = 0

-------------------------------------------------------------------------------
(***************************************************************************)
(* RepairExecutionGateState.  The queue is a VecDeque that is only pushed  *)
(* at its back, under the mutex that also hands out the ids: its order is  *)
(* the order of the ids, so the queue is modelled as a set of entries.     *)
(***************************************************************************)

Manuals(q) == {w \in q : w.priority = Manual}

\* w is the entry of S that was pushed first.
IsFirst(w, S) == w \in S /\ \A v \in S : w.id <= v.id

\* Mutant: an aged automatic waiter also overtakes older manual ones.
AgedIgnoringManual(q, at) ==
    {w \in q : w.priority = Automatic /\ at >= w.enqueued_at + Aging}

\* The automatic waiters that have aged and did not arrive after the oldest
\* manual one.
Aged(q, at) ==
    {w \in q : /\ w.priority = Automatic
               /\ at >= w.enqueued_at + Aging
               /\ \/ Manuals(q) = {}
                  \/ \E m \in q : IsFirst(m, Manuals(q)) /\ w.enqueued_at <= m.enqueued_at}

\* selected_waiter_id(aging, at) == Some(id)
Selected(q, at, id) ==
    \E w \in q :
        /\ w.id = id
        /\ \/ IsFirst(w, Aged(q, at))
           \/ Aged(q, at) = {} /\ IsFirst(w, Manuals(q))
           \/ Aged(q, at) = {} /\ Manuals(q) = {} /\ IsFirst(w, q)

AgingDeadlines(q, at) ==
    {d \in {w.enqueued_at + Aging : w \in {v \in q : v.priority = Automatic}} : d > at}

\* Mutant: sleepers wait for the broadcast only.
NoAgingDeadline(q, at, d) == d = NoDeadline

\* next_automatic_aging_deadline(aging, at) == d
IsNextAgingDeadline(q, at, d) ==
    \/ AgingDeadlines(q, at) = {} /\ d = NoDeadline
    \/ d \in AgingDeadlines(q, at) /\ \A e \in AgingDeadlines(q, at) : d <= e

\* waiters.retain(|waiter| waiter.id != id)
Unregister(q, id) == {w \in q : w.id # id}

-------------------------------------------------------------------------------
(***************************************************************************)
(* acquire                                                                 *)
(***************************************************************************)

\* Mutant: the entry stores its aging deadline instead of its arrival.
RegisterStoresDeadline(t, p) ==
    /\ pc[t] = "idle"
    /\ next_waiter_id < MaxRegistrations
    /\ now + Aging <= MaxTime
    /\ waiters' = waiters \cup {[id |-> next_waiter_id, priority |-> p,
                                    enqueued_at |-> now + Aging]}
    /\ waiter' = [waiter EXCEPT ![t] = next_waiter_id]
    /\ next_waiter_id' = next_waiter_id + 1
    /\ pc' = [pc EXCEPT ![t] = "arm"]
    /\ UNCHANGED <<active, woken, timer, now>>

\* RepairExecutionWaiterRegistration::register.  The guard on the clock lets
\* every waiter of a bounded behaviour grow old.
Register(t, p) ==
    /\ pc[t] = "idle"
    /\ next_waiter_id < MaxRegistrations
    /\ now + Aging <= MaxTime
    /\ waiters' = waiters \cup {[id |-> next_waiter_id, priority |-> p, enqueued_at |-> now]}
    /\ waiter' = [waiter EXCEPT ![t] = next_waiter_id]
    /\ next_waiter_id' = next_waiter_id + 1
    /\ pc' = [pc EXCEPT ![t] = "arm"]
    /\ UNCHANGED <<active, woken, timer, now>>

\* let changed = self.changed.notified(); changed.enable()
Arm(t) ==
    /\ pc[t] = "arm"
    /\ woken' = [woken EXCEPT ![t] = FALSE]
    /\ pc' = [pc EXCEPT ![t] = "inspect"]
    /\ UNCHANGED <<active, next_waiter_id, waiters, waiter, timer, now>>

\* Mutant: the selected waiter does not look at the active flag.
GrantWhileActive(t) ==
    /\ pc[t] = "inspect"
    /\ Selected(waiters, now, waiter[t])
    /\ active' = TRUE
    /\ waiters' = Unregister(waiters, waiter[t])
    /\ pc' = [pc EXCEPT ![t] = "holding"]
    /\ UNCHANGED <<next_waiter_id, waiter, woken, timer, now>>

\* The critical section: the waiter is selected and takes the permit...
Grant(t) ==
    /\ pc[t] = "inspect"
    /\ ~active
    /\ Selected(waiters, now, waiter[t])
    /\ active' = TRUE
    /\ waiters' = Unregister(waiters, waiter[t])
    /\ pc' = [pc EXCEPT ![t] = "holding"]
    /\ UNCHANGED <<next_waiter_id, waiter, woken, timer, now>>

\* ... or it is not, and computes the deadline of its sleep, if it has one.
Decide(t) ==
    /\ pc[t] = "inspect"
    /\ active \/ ~Selected(waiters, now, waiter[t])
    /\ \E d \in AgingDeadlines(waiters, now) \cup {NoDeadline} :
          /\ IF active THEN d = NoDeadline ELSE IsNextAgingDeadline(waiters, now, d)
          /\ timer' = [timer EXCEPT ![t] = d]
    /\ pc' = [pc EXCEPT ![t] = "decided"]
    /\ UNCHANGED <<active, next_waiter_id, waiters, waiter, woken, now>>

\* The first poll of the notification and of the timer, at the await.
Sleep(t) ==
    /\ pc[t] = "decided"
    /\ pc' = [pc EXCEPT ![t] = "asleep"]
    /\ UNCHANGED <<active, next_waiter_id, waiters, waiter, woken, timer, now>>

TimerDue(t) == timer[t] # NoDeadline /\ now >= timer[t]

\* The notification or the timer ends the await.
Wake(t) ==
    /\ pc[t] = "asleep"
    /\ woken[t] \/ TimerDue(t)
    /\ pc' = [pc EXCEPT ![t] = "arm"]
    /\ timer' = [timer EXCEPT ![t] = NoDeadline]
    /\ UNCHANGED <<active, next_waiter_id, waiters, waiter, woken, now>>

\* Mutant: a dropped future leaves its entry in the queue.
CancelKeepsEntry(t) ==
    /\ pc[t] = "asleep"
    /\ pc' = [pc EXCEPT ![t] = "notify"]
    /\ timer' = [timer EXCEPT ![t] = NoDeadline]
    /\ UNCHANGED <<active, next_waiter_id, waiters, waiter, woken, now>>

\* The caller's execution deadline drops the future at its only await point.
Cancel(t) ==
    /\ pc[t] = "asleep"
    /\ waiters' = Unregister(waiters, waiter[t])
    /\ pc' = [pc EXCEPT ![t] = "notify"]
    /\ timer' = [timer EXCEPT ![t] = NoDeadline]
    /\ UNCHANGED <<active, next_waiter_id, waiter, woken, now>>

\* RepairExecutionPermit::drop, up to the unlock of the mutex.
Release(t) ==
    /\ pc[t] = "holding"
    /\ active' = FALSE
    /\ pc' = [pc EXCEPT ![t] = "notify"]
    /\ UNCHANGED <<next_waiter_id, waiters, waiter, woken, timer, now>>

\* Mutant: the notification is armed at its first poll, after the inspection.
ArmedAtFirstPoll == {t \in Tasks : pc[t] = "asleep"}

\* The tasks a broadcast reaches: those that have armed their notification.
Armed == {t \in Tasks : pc[t] \in {"inspect", "decided", "asleep"}}

\* changed.notify_waiters() at the end of either drop.
Notify(t) ==
    /\ pc[t] = "notify"
    /\ woken' = [u \in Tasks |-> woken[u] \/ u \in Armed]
    /\ pc' = [pc EXCEPT ![t] = "idle"]
    /\ UNCHANGED <<active, next_waiter_id, waiters, waiter, timer, now>>

Tick ==
    /\ now < MaxTime
    /\ now' = now + 1
    /\ UNCHANGED <<active, next_waiter_id, waiters, pc, waiter, woken, timer>>

Step(t) ==
    \/ \E p \in Priorities : Register(t, p)
    \/ Arm(t) \/ Grant(t) \/ Decide(t) \/ Sleep(t) \/ Wake(t)
    \/ Cancel(t) \/ Release(t) \/ Notify(t)

Next == Tick \/ \E t \in Tasks : Step(t)

Spec == Init /\ [][Next]_vars

(***************************************************************************)
(* Fairness.  The runtime polls a ready task; a repair run ends, because   *)
(* it executes under execution_timeout_secs; time passes.  Nothing forces  *)
(* a task to ask for the gate, nor a caller to give up.                    *)
(***************************************************************************)
Progress(t) == Arm(t) \/ Grant(t) \/ Decide(t) \/ Sleep(t) \/ Wake(t) \/ Release(t) \/ Notify(t)

FairSpec == Spec /\ WF_vars(Tick) /\ \A t \in Tasks : WF_vars(Progress(t))

-------------------------------------------------------------------------------
(***************************************************************************)
(* Properties                                                              *)
(***************************************************************************)

Queued(t) == pc[t] \in {"arm", "inspect", "decided", "asleep"}

\* The gate's state and the tasks' places in acquire.
TypeOK ==
    /\ active \in BOOLEAN
    /\ next_waiter_id \in Nat
    /\ waiters \in SUBSET Waiter
    /\ pc \in [Tasks -> PCs]
    /\ waiter \in [Tasks -> Nat]
    /\ woken \in [Tasks -> BOOLEAN]
    /\ timer \in [Tasks -> 0..NoDeadline]
    /\ now \in Times

\* At most one repair run holds a RepairExecutionPermit, and while one does the
\* gate is marked active: acquire, the permit's drop and a cancelled waiter's
\* drop, interleaved in any order, never admit two.
PermitExclusive ==
    /\ \A t \in Tasks : pc[t] = "holding" => active
    /\ \A t, u \in Tasks : pc[t] = "holding" /\ pc[u] = "holding" => t = u

\* No wakeup is lost: when the gate is free and the waiter that
\* selected_waiter_id picks is asleep, then its notification has fired, or its
\* aging timer is due, or a drop is about to broadcast.  Otherwise the gate
\* would stay idle with work queued.
NoLostWakeup ==
    \A t \in Tasks :
        (/\ ~active
         /\ pc[t] = "asleep"
         /\ Selected(waiters, now, waiter[t]))
        => \/ woken[t]
           \/ TimerDue(t)
           \/ \E u \in Tasks : pc[u] = "notify"

\* The queue holds exactly the futures inside acquire: a cancelled or admitted
\* waiter leaves no entry behind that the gate could wait for for ever.
QueueMatchesTasks ==
    /\ \A t \in Tasks : Queued(t) => \E w \in waiters : w.id = waiter[t]
    /\ \A w \in waiters : \E t \in Tasks : Queued(t) /\ waiter[t] = w.id
    /\ \A t, u \in Tasks : Queued(t) /\ Queued(u) /\ waiter[t] = waiter[u] => t = u

\* Who is passed over when the gate is granted: a manual run never by work of
\* either kind that came later, an automatic run never by later automatic work,
\* and, once it has waited automatic_priority_aging, not by later manual work.
FairGrants ==
    [][\A v, w \in waiters :
          (/\ \E t \in Tasks : waiter[t] = w.id /\ Grant(t)
           /\ v.enqueued_at < w.enqueued_at)
          => /\ v.priority = Automatic
             /\ w.priority = Manual
             /\ now < v.enqueued_at + Aging]_vars

\* Every future that queues is eventually admitted or has been dropped by its
\* caller: neither the one-shot broadcast nor the priorities starve it.
EveryWaiterServed == \A t \in Tasks : Queued(t) ~> ~Queued(t)

===============================================================================
