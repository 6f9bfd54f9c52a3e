--------------------------- MODULE RelayLeaseProofs ---------------------------
(***************************************************************************)
(* The client keeps to its budget of relay leases and a retired route lets *)
(* go of what it has: proved for any routes, services, limits, setups and  *)
(* disturbances.                                                           *)
(*                                                                         *)
(* The budget is kept because the admission mutex is held by one task at a *)
(* time, which is in the middle of reserve or release_now (MutexInv): what *)
(* such a task found under the mutex is still so when it goes on           *)
(* (EntryInv).  Generations are never made twice, and there are enough of  *)
(* them, since a setup makes at most one (GenerationInv).  What a service  *)
(* serves has an entry, since a release is only over when every origin had *)
(* it, or else the route is astray (StrayInv).  A retired route ends up    *)
(* empty because whatever it still has is in the way of its clean-up, or   *)
(* of a setup that has yet to look at it (RetireInv), and because the      *)
(* handle of an entry is in some slot or some task's hands until it is     *)
(* released or abandoned (HandInv).                                        *)
(***************************************************************************)
EXTENDS RelayLease, FiniteSetTheorems, SequenceTheorems, TLAPS

\* The lists of handles that a clean-up may have to release.
TodoLists(n) == {<<>>} \cup {<<g>> : g \in 1..n} \cup {<<g, h>> : g \in 1..n, h \in 1..n}

\* What a task has in its hands, when n generations have been made.
TaskOK(u, n) ==
    /\ u \in Task
    /\ u.lease \in 0..n
    /\ u.todo \in TodoLists(n)
    /\ u.pc = "take_identity" => u.todo = <<>> \/ u.todo \in {<<g>> : g \in 1..n}
    /\ u.pc \in {"release", "releasing"} => u.todo # <<>>
    /\ u.pc \in {"set_identity", "ticket"} => u.lease # 0
    /\ u.pc \in {"evicting", "releasing"} => u.releasing \in 1..n

\* Setups that have not made their generation yet.
Prep == {"enter", "reserve", "evict", "evicting"}
Preparing == {r \in Routes : task[Setup(r)].pc \in Prep}

TypeInv ==
    /\ entries \in [Routes -> Generations]
    /\ next_generation \in Generations
    /\ active \in [Generations -> BOOLEAN] /\ release_started \in [Generations -> BOOLEAN]
    /\ admission \in Tasks \cup {Nobody}
    /\ served \in [Origins -> SUBSET Routes]
    /\ attempts \in 0..MaxAttempts
    /\ retired \in [Routes -> BOOLEAN] /\ endpoint \in [Routes -> BOOLEAN]
    /\ endpoint_lease \in [Routes -> Generations] /\ identity_lease \in [Routes -> Generations]
    /\ cached_session \in [Routes -> BOOLEAN] /\ refreshing \in [Routes -> BOOLEAN]

TaskInv ==
    /\ task = [t \in Tasks |-> task[t]]
    /\ \A t \in Tasks : TaskOK(task[t], next_generation)

GenerationInv ==
    /\ \A r \in Routes : /\ entries[r] \in 0..next_generation
                         /\ endpoint_lease[r] \in 0..next_generation
                         /\ identity_lease[r] \in 0..next_generation
    /\ next_generation + Cardinality(Preparing) <= attempts

\* Inside the sections that the admission mutex protects.
Held == {"evict", "evicting", "releasing"}

MutexInv == \A t \in Tasks : task[t].pc \in Held <=> admission = t

\* A release that was begun is not active, and a generation has one route.
FlagsInv ==
    /\ \A g \in Generations : release_started[g] => ~active[g]
    /\ \A g \in Generations : g > next_generation => ~release_started[g] /\ ~active[g]
    /\ \A r, v \in Routes : entries[r] # 0 /\ entries[r] = entries[v] => r = v

\* The lease whose release is awaited is still an entry.
AwaitInv(t) ==
    task[t].pc \in {"evicting", "releasing"} =>
        /\ release_started[task[t].releasing]
        /\ \E v \in Routes : entries[v] = task[t].releasing

\* A setup that makes room has no entry, or is about to lose it.
RoomInv(r) ==
    /\ task[Setup(r)].pc = "evict" => entries[r] = 0
    /\ task[Setup(r)].pc = "evicting" => entries[r] \in {0, task[Setup(r)].releasing}

\* What the client counts: at most Limit entries of an origin, and every handle
\* that is active or whose release is still to be done.
CountInv ==
    /\ \A o \in Origins : Cardinality(Holders(o)) <= Limit
    /\ HeldLeasesAreCounted

EntryInv ==
    /\ FlagsInv /\ CountInv
    /\ \A t \in Tasks : AwaitInv(t)
    /\ \A r \in Routes : RoomInv(r)

\* The setup of the route will look at the identity's lease again.
SetupWillTake(r) ==
    \/ task[Setup(r)].pc \in {"ticket", "check_retired", "install", "take_endpoint", "take_identity"}
    \/ task[Setup(r)].pc \in {"release", "releasing"} /\ task[Setup(r)].then = "take_endpoint"

RetireInv ==
    \A r \in Routes :
        /\ ~retired[r] => task[Retirement(r)].pc = "idle"
        /\ retired[r] /\ endpoint[r] => task[Retirement(r)].pc = "take_endpoint"
        /\ retired[r] /\ identity_lease[r] # 0 =>
              task[Retirement(r)].pc \in {"take_endpoint", "take_identity"} \/ SetupWillTake(r)

\* The handles that a task has still to release.
Todo(t) == {task[t].todo[i] : i \in DOMAIN task[t].todo}

ListOK(u) ==
    /\ u.pc \notin {"take_identity", "invalidate", "release", "releasing"} => u.todo = <<>>
    /\ u.pc = "releasing" => u.releasing = Head(u.todo)
    /\ u.pc \in {"take_endpoint", "take_identity", "invalidate"} => u.then \in {"idle", "failed", "lookup"}

ListInv == \A t \in Tasks : ListOK(task[t])

\* The setup of the route goes on without its lease.
GoesOnWithout(u) == u.pc \in {"release", "releasing"} /\ u.then = "check_retired"

\* What the setup of a route knows of the slots it is about to fill.
SlotOK(r) ==
    LET u == task[Setup(r)] IN
    /\ ~endpoint[r] => endpoint_lease[r] = 0
    /\ u.pc \in {"reserve", "evict", "evicting", "set_identity", "ticket", "check_retired", "install"}
          \/ GoesOnWithout(u) => ~endpoint[r]
    /\ u.pc = "set_identity" => entries[r] \in {0, u.lease}
    /\ u.pc \in {"ticket", "check_retired", "install"} => identity_lease[r] \in {0, u.lease}
    /\ GoesOnWithout(u) => identity_lease[r] = 0

SlotInv == \A r \in Routes : SlotOK(r)

\* Somebody has the handle of an entry, or it was abandoned.
KeptInv ==
    \A r \in Routes :
        \/ entries[r] \in abandoned \cup {0, identity_lease[r], endpoint_lease[r]}
        \/ \E t \in Tasks : RouteOf(t) = r /\ entries[r] \in Todo(t)
        \/ task[Setup(r)].pc = "set_identity" /\ task[Setup(r)].lease = entries[r]

\* Nobody has the handle of another route's entry.
OwnerInv ==
    \A v \in Routes : entries[v] # 0 =>
        /\ \A r \in Routes : r # v => entries[v] \notin {identity_lease[r], endpoint_lease[r]}
        /\ \A t \in Tasks : RouteOf(t) # v => entries[v] # task[t].lease /\ entries[v] \notin Todo(t)

HandInv == ListInv /\ SlotInv /\ KeptInv /\ OwnerInv /\ abandoned \subseteq Generations

\* A route that a service serves has an entry, and no release of it is over,
\* unless it is astray.
StrayInv ==
    /\ astray \subseteq Routes /\ ~active[0]
    /\ \A o \in Origins : \A r \in served[o] : r \in Routes /\ o \in OriginsOf[r]
    /\ \A o \in Origins : \A r \in served[o] \ astray :
          /\ entries[r] # 0
          /\ release_started[entries[r]] =>
                \E t \in Tasks : /\ task[t].pc \in {"evicting", "releasing"}
                                 /\ task[t].releasing = entries[r] /\ ~task[t].answered

LeaseInv == TypeInv /\ TaskInv /\ GenerationInv /\ MutexInv /\ EntryInv /\ RetireInv /\ HandInv /\ StrayInv

-------------------------------------------------------------------------------
(***************************************************************************)
(* Tasks                                                                   *)
(***************************************************************************)

\* Nobody is not a task, and the tasks of a route are three.
LEMMA TaskNames ==
    /\ Nobody \notin Tasks
    /\ \A r \in Routes : Setup(r) \in Tasks /\ Caller(r) \in Tasks /\ Retirement(r) \in Tasks
    /\ \A r, v \in Routes : /\ Setup(r) = Setup(v) => r = v
                            /\ Retirement(r) = Retirement(v) => r = v
                            /\ Setup(r) # Caller(v) /\ Setup(r) # Retirement(v)
                            /\ Caller(r) # Retirement(v)
    /\ \A t \in Tasks : RouteOf(t) \in Routes
    /\ \A t \in Tasks : \/ t = Setup(RouteOf(t))
                        \/ t = Caller(RouteOf(t))
                        \/ t = Retirement(RouteOf(t))
    /\ \A r \in Routes : RouteOf(Setup(r)) = r /\ RouteOf(Retirement(r)) = r
  BY DEF Nobody, Tasks, Kinds, Setup, Caller, Retirement, RouteOf

\* One handle before another.
LEMMA Pair ==
    ASSUME NEW n \in Generations, NEW g \in 1..n, NEW h \in 1..n
    PROVE  <<g>> \o <<h>> = <<g, h>>
  <1> DEFINE s == <<g>> \o <<h>>
  <1>1. s \in Seq(1..n) /\ Len(s) = 2 /\ s[1] = g /\ s[2] = h
    OBVIOUS
  <1> HIDE DEF s
  <1>2. <<g, h>> \in Seq(1..n) /\ Len(<<g, h>>) = 2
    OBVIOUS
  <1>3. \A i \in 1..Len(s) : s[i] = <<g, h>>[i]
    BY <1>1
  <1> QED
    BY <1>1, <1>2, <1>3, SeqEqual DEF s

\* Lists of at most two handles.
LEMMA Lists ==
    ASSUME NEW n \in Generations
    PROVE  /\ <<>> \in TodoLists(n)
           /\ \A g \in 1..n : <<g>> \in TodoLists(n) /\ <<g>> # <<>>
           /\ \A g, h \in 1..n : <<g>> \o <<h>> \in TodoLists(n)
           /\ \A todo \in TodoLists(n) :
                 /\ todo \in Seq(Generations) /\ Len(todo) <= 2
                 /\ \A i \in DOMAIN todo : todo[i] \in 1..n
                 /\ todo # <<>> => Head(todo) \in 1..n /\ Tail(todo) \in TodoLists(n)
           /\ \A m \in Generations : n <= m => TodoLists(n) \subseteq TodoLists(m)
  <1> USE OriginsAssumption DEF Generations
  <1>1. /\ <<>> \in TodoLists(n)
        /\ \A g \in 1..n : <<g>> \in TodoLists(n) /\ <<g>> # <<>>
        /\ \A g, h \in 1..n : <<g, h>> \in TodoLists(n)
    BY DEF TodoLists
  <1>2. ASSUME NEW g \in 1..n, NEW h \in 1..n PROVE <<g>> \o <<h>> = <<g, h>>
    BY Pair
  <1>3. ASSUME NEW todo \in TodoLists(n)
        PROVE  /\ todo \in Seq(Generations) /\ Len(todo) <= 2
               /\ \A i \in DOMAIN todo : todo[i] \in 1..n
               /\ todo # <<>> => Head(todo) \in 1..n /\ Tail(todo) \in TodoLists(n)
    <2>1. CASE todo = <<>>
      BY <2>1
    <2>2. ASSUME NEW g \in 1..n, todo = <<g>>
          PROVE  /\ todo \in Seq(Generations) /\ Len(todo) = 1 /\ Head(todo) = g
                 /\ todo[1] = g /\ Tail(todo) = <<>>
      BY <2>2
    <2>3. ASSUME NEW g \in 1..n, NEW h \in 1..n, todo = <<g, h>>
          PROVE  /\ todo \in Seq(Generations) /\ Len(todo) = 2 /\ Head(todo) = g
                 /\ todo[1] = g /\ todo[2] = h /\ Tail(todo) = <<h>>
      BY <2>3
    <2>4. DOMAIN todo = 1..Len(todo)
      BY <2>1, <2>2, <2>3 DEF TodoLists
    <2>5. \/ todo = <<>>
          \/ \E g \in 1..n : todo = <<g>>
          \/ \E g, h \in 1..n : todo = <<g, h>>
      BY DEF TodoLists
    <2>6. ASSUME NEW g \in 1..n, todo = <<g>>
          PROVE  /\ todo \in Seq(Generations) /\ Len(todo) <= 2
                 /\ \A i \in DOMAIN todo : todo[i] \in 1..n
                 /\ Head(todo) \in 1..n /\ Tail(todo) \in TodoLists(n)
      BY <1>1, <2>2, <2>4, <2>6
    <2>7. ASSUME NEW g \in 1..n, NEW h \in 1..n, todo = <<g, h>>
          PROVE  /\ todo \in Seq(Generations) /\ Len(todo) <= 2
                 /\ \A i \in DOMAIN todo : todo[i] \in 1..n
                 /\ Head(todo) \in 1..n /\ Tail(todo) \in TodoLists(n)
      BY <1>1, <2>3, <2>4, <2>7
    <2> QED
      BY <2>1, <2>5, <2>6, <2>7
  <1>4. ASSUME NEW m \in Generations, n <= m PROVE TodoLists(n) \subseteq TodoLists(m)
    <2>1. 1..n \subseteq 1..m
      BY <1>4
    <2> QED
      BY <2>1 DEF TodoLists
  <1> QED
    BY <1>1, <1>2, <1>3, <1>4

\* A task that holds nothing.
LEMMA EmptyHands ==
    ASSUME NEW n \in Generations, NEW pc \in {"idle", "lookup", "enter", "failed", "check_retired"},
           NEW then \in {"idle", "failed", "lookup"}
    PROVE  /\ TaskOK(IdleTask, n) /\ IdleTask.pc = "idle"
           /\ TaskOK([IdleTask EXCEPT !.pc = pc], n) /\ [IdleTask EXCEPT !.pc = pc].pc = pc
           /\ TaskOK(CleanUp(then), n) /\ CleanUp(then).pc = "take_endpoint"
  <1> USE OriginsAssumption DEF Generations
  <1>1. 0 \in Generations /\ 0 \in 0..n /\ <<>> \in TodoLists(n) /\ <<>> \in Seq(Generations)
    BY Lists
  <1>2. TaskOK(IdleTask, n) /\ IdleTask.pc = "idle"
    BY <1>1 DEF TaskOK, Task, IdleTask
  <1>3. TaskOK([IdleTask EXCEPT !.pc = pc], n) /\ [IdleTask EXCEPT !.pc = pc].pc = pc
    BY <1>1 DEF TaskOK, Task, IdleTask
  <1>4. TaskOK(CleanUp(then), n) /\ CleanUp(then).pc = "take_endpoint"
    BY <1>1 DEF TaskOK, Task, IdleTask, CleanUp
  <1> QED
    BY <1>2, <1>3, <1>4

\* A task goes on; nothing that it holds is younger than n.
LEMMA Moves ==
    ASSUME TypeInv, TaskInv, NEW t \in Tasks, NEW u, task' = [task EXCEPT ![t] = u],
           next_generation' \in Generations, next_generation <= next_generation',
           TaskOK(u, next_generation')
    PROVE  /\ TaskInv'
           /\ task'[t] = u
           /\ \A s \in Tasks : s # t => task'[s] = task[s]
  <1>1. /\ task' = [s \in Tasks |-> IF s = t THEN u ELSE task[s]]
        /\ task'[t] = u /\ \A s \in Tasks : s # t => task'[s] = task[s]
    BY DEF TaskInv
  <1>2. ASSUME NEW s \in Tasks, s # t PROVE TaskOK(task[s], next_generation')
    <2>1. TaskOK(task[s], next_generation)
      BY DEF TaskInv
    <2>2. TodoLists(next_generation) \subseteq TodoLists(next_generation')
      BY Lists DEF TypeInv
    <2>3. 1..next_generation \subseteq 1..next_generation' /\ 0..next_generation \subseteq 0..next_generation'
      BY DEF TypeInv, Generations
    <2> QED
      BY <2>1, <2>2, <2>3 DEF TaskOK
  <1>3. \A s \in Tasks : TaskOK(task'[s], next_generation')
    BY <1>1, <1>2
  <1>4. task' = [s \in Tasks |-> task'[s]]
    BY <1>1
  <1> QED
    BY <1>1, <1>3, <1>4 DEF TaskInv

\* A task goes on with what it has, or with a lease.
LEMMA GoesOn ==
    ASSUME NEW n \in Generations, NEW u, TaskOK(u, n),
           NEW pc \in {"lookup", "waiting", "enter", "reserve", "evict", "check_retired",
                       "install", "connect", "invalidate"},
           NEW w, w = [u EXCEPT !.pc = pc]
    PROVE  TaskOK(w, n) /\ w.pc = pc /\ w.then = u.then
  <1>1. u \in Task
    BY DEF TaskOK
  <1>2. w \in Task
    BY <1>1 DEF Task
  <1> QED
    BY <1>1, <1>2 DEF TaskOK, Task

-------------------------------------------------------------------------------
(***************************************************************************)
(* What each action does to the tasks                                      *)
(***************************************************************************)

\* No other task moves.
Only(t) == \A s \in Tasks : s # t => task'[s] = task[s]

\* The types that all the lemmas about actions start from.
Typed == TypeInv /\ TaskInv /\ GenerationInv

\* The task t is now u.
LEMMA BecomesOK ==
    ASSUME Typed, NEW t \in Tasks, NEW u, task' = [task EXCEPT ![t] = u],
           UNCHANGED next_generation, TaskOK(u, next_generation)
    PROVE  TaskInv' /\ Only(t) /\ task'[t] = u
  <1>1. next_generation' \in Generations /\ next_generation <= next_generation'
    BY DEF Typed, TypeInv, Generations
  <1> QED
    BY <1>1, Moves DEF Typed, Only

\* A record of the task t was updated in place.
LEMMA InPlace ==
    ASSUME Typed, NEW t \in Tasks
    PROVE  /\ TaskOK(task[t], next_generation) /\ next_generation \in Generations
           /\ \A x : [task EXCEPT ![t].pc = x] = [task EXCEPT ![t] = [task[t] EXCEPT !.pc = x]]
  BY DEF Typed, TypeInv, TaskInv

\* A task goes to another place with what it has.
LEMMA GotoEffect ==
    ASSUME Typed, NEW t \in Tasks, UNCHANGED next_generation,
           NEW pc \in {"lookup", "waiting", "enter", "reserve", "evict", "check_retired",
                       "install", "connect", "invalidate"},
           Goto(t, pc)
    PROVE  TaskInv' /\ Only(t) /\ task'[t].pc = pc /\ task'[t].then = task[t].then
  <1>1. PICK w : w = [task[t] EXCEPT !.pc = pc]
    OBVIOUS
  <1>2. task' = [task EXCEPT ![t] = w]
    BY <1>1, InPlace DEF Goto
  <1>3. TaskOK(task[t], next_generation) /\ next_generation \in Generations
    BY InPlace
  <1>4. TaskOK(w, next_generation) /\ w.pc = pc /\ w.then = task[t].then
    BY <1>1, <1>3, GoesOn
  <1> QED
    BY <1>2, <1>4, BecomesOK

\* The task has got the lease g, which may be new.
LEMMA LeaseEffect ==
    ASSUME Typed, NEW t \in Tasks, next_generation' \in Generations, next_generation <= next_generation',
           NEW g \in 1..next_generation', NEW pc \in {"set_identity", "ticket"},
           NEW w, w = [task[t] EXCEPT !.pc = pc, !.lease = g], task' = [task EXCEPT ![t] = w]
    PROVE  TaskInv' /\ Only(t) /\ task'[t].pc = pc
  <1>1. TaskOK(task[t], next_generation) /\ task[t] \in Task /\ g \in Generations /\ g # 0
    BY InPlace, OriginsAssumption DEF TaskOK, Generations
  <1>2. w \in Task
    BY <1>1 DEF Task
  <1>3. w.pc = pc /\ w.lease = g /\ w.todo = task[t].todo
    BY <1>1 DEF Task
  <1>4. TodoLists(next_generation) \subseteq TodoLists(next_generation')
    BY Lists DEF Typed, TypeInv
  <1>5. g \in 0..next_generation'
    OBVIOUS
  <1>6. TaskOK(w, next_generation')
    BY <1>1, <1>2, <1>3, <1>4, <1>5 DEF TaskOK
  <1> QED
    BY <1>3, <1>6, Moves DEF Typed, Only

\* A task begins to clean up.
LEMMA CleanUpEffect ==
    ASSUME Typed, NEW t \in Tasks, UNCHANGED next_generation,
           NEW then \in {"idle", "failed", "lookup"}, task' = [task EXCEPT ![t] = CleanUp(then)]
    PROVE  TaskInv' /\ Only(t) /\ task'[t].pc = "take_endpoint"
  <1>1. TaskOK(CleanUp(then), next_generation) /\ CleanUp(then).pc = "take_endpoint"
    BY InPlace, EmptyHands
  <1> QED
    BY <1>1, BecomesOK

\* A task goes on with nothing in its hands.
LEMMA RestsAt ==
    ASSUME Typed, NEW t \in Tasks, UNCHANGED next_generation,
           NEW pc \in {"idle", "lookup", "enter", "failed", "check_retired"},
           task' = [task EXCEPT ![t] = [IdleTask EXCEPT !.pc = pc]]
    PROVE  TaskInv' /\ Only(t) /\ task'[t].pc = pc
  <1>1. TaskOK([IdleTask EXCEPT !.pc = pc], next_generation) /\ [IdleTask EXCEPT !.pc = pc].pc = pc
    BY InPlace, EmptyHands
  <1> QED
    BY <1>1, BecomesOK

\* A release is over: the next one, or what comes after the last.
LEMMA NextReleaseEffect ==
    ASSUME Typed, NEW t \in Tasks, UNCHANGED next_generation,
           task[t].pc \in {"release", "releasing"}, NextRelease(t)
    PROVE  /\ TaskInv' /\ Only(t)
           /\ task'[t].pc \in {"release", "take_endpoint", "idle", "failed", "lookup", "check_retired"}
           /\ task[t].then = "take_endpoint" =>
                 task'[t].pc = "take_endpoint" \/ (task'[t].pc = "release" /\ task'[t].then = "take_endpoint")
  <1> DEFINE u == task[t] rest == Tail(u.todo)
             w == [u EXCEPT !.pc = "release", !.todo = rest, !.releasing = 0, !.answered = FALSE]
  <1>1. TaskOK(u, next_generation) /\ next_generation \in Generations /\ u \in Task
    BY InPlace DEF TaskOK
  <1>2. u.todo # <<>> /\ u.todo \in TodoLists(next_generation) /\ u.then \in {"idle", "failed", "lookup", "check_retired", "take_endpoint"}
    BY <1>1 DEF TaskOK, Task
  <1>3. rest \in TodoLists(next_generation) /\ rest \in Seq(Generations)
    BY <1>1, <1>2, Lists
  <1>4. CASE rest # <<>>
    <2>1. task' = [task EXCEPT ![t] = w]
      BY <1>4 DEF NextRelease, Typed, TaskInv
    <2>2. 0 \in Generations
      BY OriginsAssumption DEF Generations
    <2>4. w \in Task
      BY <1>1, <1>3, <2>2 DEF Task
    <2>3. TaskOK(w, next_generation) /\ w.pc = "release" /\ w.then = u.then
      BY <1>1, <1>3, <1>4, <2>4 DEF TaskOK, Task
    <2> QED
      BY <2>1, <2>3, BecomesOK
  <1>5. CASE rest = <<>> /\ u.then = "take_endpoint"
    <2>1. task' = [task EXCEPT ![t] = CleanUp("failed")]
      BY <1>5 DEF NextRelease, Typed, TaskInv
    <2> QED
      BY <2>1, CleanUpEffect
  <1>6. CASE rest = <<>> /\ u.then # "take_endpoint"
    <2>1. task' = [task EXCEPT ![t] = [IdleTask EXCEPT !.pc = u.then]]
      BY <1>6 DEF NextRelease, Typed, TaskInv
    <2> QED
      BY <1>2, <1>6, <2>1, RestsAt
  <1> QED
    BY <1>4, <1>5, <1>6

\* A task begins a release, and remembers which.
LEMMA BeginReleaseEffect ==
    ASSUME Typed, NEW t \in Tasks, NEW r, NEW g \in 1..next_generation, UNCHANGED next_generation,
           NEW where \in {"evicting", "releasing"}, where = "releasing" => task[t].todo # <<>>,
           BeginRelease(t, r, g, where)
    PROVE  /\ TaskInv' /\ Only(t)
           /\ task'[t].pc = where /\ task'[t].releasing = g /\ task'[t].then = task[t].then
  <1>0. PICK ok \in BOOLEAN : 
          task' = [task EXCEPT ![t] = [task[t] EXCEPT !.pc = where, !.releasing = g, !.answered = ok]]
    BY DEF BeginRelease, Typed, TaskInv
  <1>1. PICK w : /\ w = [task[t] EXCEPT !.pc = where, !.releasing = g, !.answered = ok]
                 /\ task' = [task EXCEPT ![t] = w]
    BY <1>0
  <1>2. TaskOK(task[t], next_generation) /\ next_generation \in Generations
    BY InPlace
  <1>3. TaskOK(w, next_generation) /\ w.pc = where /\ w.releasing = g /\ w.then = task[t].then
    <2>1. task[t] \in Task /\ g \in Generations
      BY <1>2, OriginsAssumption DEF TaskOK, Generations
    <2>2. w \in Task
      BY <1>1, <2>1 DEF Task
    <2>3. /\ w.pc = where /\ w.lease = task[t].lease /\ w.todo = task[t].todo
          /\ w.releasing = g /\ w.then = task[t].then
      BY <1>1, <2>1 DEF Task
    <2> QED
      BY <1>2, <2>2, <2>3 DEF TaskOK
  <1> QED
    BY <1>1, <1>3, BecomesOK

\* What the tasks of a route may do beside the mutex: nobody enters or leaves the
\* sections that it protects.
Quiet == \A s \in Tasks : task'[s] = task[s] \/ (task[s].pc \notin Held /\ task'[s].pc \notin Held)

\* A setup ends, and so does the caller that waits for it.
LEMMA FinishEffect ==
    ASSUME Typed, NEW r \in Routes, UNCHANGED next_generation, Finish(r)
    PROVE  /\ TaskInv' /\ task'[Setup(r)].pc = "idle"
           /\ \A s \in Tasks : s \notin {Setup(r), Caller(r)} => task'[s] = task[s]
           /\ \/ task'[Caller(r)] = task[Caller(r)]
              \/ task[Caller(r)].pc = "waiting" /\ task'[Caller(r)].pc = "idle"
  <1>1. Setup(r) \in Tasks /\ Caller(r) \in Tasks /\ Setup(r) # Caller(r)
    BY TaskNames
  <1>2. /\ task'[Setup(r)] = IdleTask
        /\ \A s \in Tasks : s \notin {Setup(r), Caller(r)} => task'[s] = task[s]
        /\ task'[Caller(r)] = IF task[Caller(r)].pc = "waiting" THEN IdleTask ELSE task[Caller(r)]
        /\ task' = [s \in Tasks |-> task'[s]]
    BY <1>1 DEF Finish, Typed, TaskInv
  <1>3. TaskOK(IdleTask, next_generation) /\ IdleTask.pc = "idle"
    BY EmptyHands DEF Typed, TypeInv
  <1>4. \A s \in Tasks : TaskOK(task'[s], next_generation)
    BY <1>2, <1>3 DEF Typed, TaskInv
  <1> QED
    BY <1>2, <1>3, <1>4 DEF TaskInv

\* A setup ends at once, or goes on outside the mutex.
LEMMA EnterEffect ==
    ASSUME Typed, NEW r \in Routes, Enter(r)
    PROVE  \/ Finish(r)
           \/ /\ TaskInv' /\ Only(Setup(r))
              /\ task'[Setup(r)].pc \in {"take_endpoint", "connect", "ticket", "reserve"}
              /\ task'[Setup(r)].pc = "ticket" => ~retired[r]
  <1> DEFINE t == Setup(r)
  <1>1. t \in Tasks /\ UNCHANGED next_generation
    BY TaskNames DEF Enter, budgetVars
  <1>2. CASE task' = [task EXCEPT ![t] = CleanUp("failed")]
    BY <1>1, <1>2, CleanUpEffect
  <1>3. CASE Goto(t, "connect") \/ Goto(t, "reserve")
    BY <1>1, <1>3, GotoEffect
  <1>4. CASE /\ ~retired[r] /\ identity_lease[r] # 0
             /\ task' = [task EXCEPT ![t] = [@ EXCEPT !.pc = "ticket", !.lease = identity_lease[r]]]
    <2>0. PICK g : g = identity_lease[r]
      OBVIOUS
    <2>1. PICK w : w = [task[t] EXCEPT !.pc = "ticket", !.lease = g]
      OBVIOUS
    <2>2. task' = [task EXCEPT ![t] = w]
      BY <1>1, <1>4, <2>0, <2>1 DEF Typed, TaskInv
    <2>3. g \in 1..next_generation /\ next_generation \in Generations
      BY <1>4, <2>0, OriginsAssumption DEF Typed, TypeInv, GenerationInv, Generations
    <2>4. next_generation' \in Generations /\ next_generation <= next_generation'
      BY <1>1, <2>3 DEF Generations
    <2> QED
      BY <1>1, <1>4, <2>1, <2>2, <2>3, <2>4, LeaseEffect
  <1> QED
    BY <1>2, <1>3, <1>4 DEF Enter, Goto

\* Reserve reuses the entry of the route, or finds none, or releases it first.
LEMMA ReserveEffect ==
    ASSUME Typed, NEW r \in Routes, Reserve(r)
    PROVE  /\ TaskInv' /\ Only(Setup(r)) /\ UNCHANGED next_generation
           /\ \/ /\ task'[Setup(r)].pc = "set_identity"
                 /\ UNCHANGED <<budgetVars, served>>
              \/ /\ task'[Setup(r)].pc = "evict" /\ admission' = Setup(r)
                 /\ UNCHANGED <<active, release_started, served>>
                 /\ \/ entries[r] = 0 /\ UNCHANGED entries
                    \/ release_started[entries[r]] /\ entries' = [entries EXCEPT ![r] = 0]
              \/ /\ entries[r] \in 1..next_generation /\ UNCHANGED entries
                 /\ BeginRelease(Setup(r), r, entries[r], "evicting")
                 /\ task'[Setup(r)].pc = "evicting" /\ task'[Setup(r)].releasing = entries[r]
  <1> DEFINE t == Setup(r) g == entries[r]
  <1>1. t \in Tasks /\ UNCHANGED next_generation /\ g \in 0..next_generation
    BY TaskNames DEF Reserve, budgetVars, Typed, GenerationInv
  <1>2. g # 0 => g \in 1..next_generation /\ next_generation \in Generations
    BY <1>1, OriginsAssumption DEF Typed, TypeInv, Generations
  <1>3. CASE /\ g # 0 /\ task' = [task EXCEPT ![t] = [@ EXCEPT !.pc = "set_identity", !.lease = g]]
             /\ UNCHANGED <<budgetVars, served>>
    <2>1. PICK x : x = g
      OBVIOUS
    <2>2. PICK w : w = [task[t] EXCEPT !.pc = "set_identity", !.lease = x]
      OBVIOUS
    <2>3. task' = [task EXCEPT ![t] = w]
      BY <1>1, <1>3, <2>1, <2>2 DEF Typed, TaskInv
    <2>4. /\ next_generation' \in Generations /\ next_generation <= next_generation'
          /\ x \in 1..next_generation'
      BY <1>1, <1>2, <1>3, <2>1 DEF Generations
    <2> QED
      BY <1>1, <1>3, <2>2, <2>3, <2>4, LeaseEffect
  <1>4. CASE /\ Goto(t, "evict") /\ admission' = t /\ UNCHANGED <<active, release_started, served>>
             /\ \/ g = 0 /\ UNCHANGED entries
                \/ release_started[g] /\ entries' = RemoveMatchingEntry(r, g)
    BY <1>1, <1>4, GotoEffect DEF RemoveMatchingEntry
  <1>5. CASE g # 0 /\ BeginRelease(t, r, g, "evicting") /\ UNCHANGED entries
    BY <1>1, <1>2, <1>5, BeginReleaseEffect
  <1> QED
    BY <1>3, <1>4, <1>5 DEF Reserve

\* A setup that has not made its generation finds one left.
LEMMA RoomForGeneration ==
    ASSUME Typed, NEW r \in Preparing
    PROVE  next_generation + 1 \in Generations /\ next_generation \in Nat
  <1>1. IsFiniteSet(Preparing)
    BY FS_Subset, OriginsAssumption DEF Preparing
  <1>2. Cardinality(Preparing) \in Nat /\ Cardinality(Preparing) # 0
    BY <1>1, FS_CardinalityType, FS_EmptySet
  <1>3. /\ next_generation \in 0..MaxAttempts /\ attempts \in 0..MaxAttempts /\ MaxAttempts \in Nat
        /\ next_generation + Cardinality(Preparing) <= attempts
    BY OriginsAssumption DEF Typed, TypeInv, GenerationInv, Generations
  <1> HIDE DEF Preparing
  <1> QED
    BY <1>2, <1>3 DEF Generations

\* The setup goes on with a generation that is new.
LEMMA GrantEffect ==
    ASSUME Typed, NEW r \in Routes, Grant(r)
    PROVE  /\ TaskInv' /\ Only(Setup(r)) /\ task'[Setup(r)].pc = "set_identity"
           /\ next_generation' = next_generation + 1 /\ next_generation' \in Generations
           /\ next_generation \in Nat
  <1> DEFINE t == Setup(r)
  <1>1. t \in Tasks /\ r \in Preparing
    BY TaskNames DEF Grant, Preparing, Prep
  <1>2. next_generation + 1 \in Generations /\ next_generation \in Nat
    BY <1>1, RoomForGeneration
  <1>3. PICK g : g = next_generation + 1
    OBVIOUS
  <1>4. PICK w : w = [task[t] EXCEPT !.pc = "set_identity", !.lease = g]
    OBVIOUS
  <1>5. task' = [task EXCEPT ![t] = w] /\ next_generation' = g
    BY <1>1, <1>3, <1>4 DEF Grant, Typed, TaskInv
  <1>6. /\ next_generation' \in Generations /\ next_generation <= next_generation'
        /\ g \in 1..next_generation'
    BY <1>2, <1>3, <1>5
  <1> QED
    BY <1>1, <1>2, <1>3, <1>4, <1>5, <1>6, LeaseEffect

\* An eviction is of another route's entry, which goes if it was released before.
LEMMA EvictEffect ==
    ASSUME Typed, NEW r \in Routes, Evict(r)
    PROVE  /\ TaskInv' /\ Only(Setup(r)) /\ UNCHANGED next_generation
           /\ \E v \in Routes : /\ v # r /\ entries[v] \in 1..next_generation
                 /\ \/ /\ release_started[entries[v]] /\ entries' = [entries EXCEPT ![v] = 0]
                       /\ UNCHANGED <<active, release_started, admission, served, task>>
                    \/ /\ BeginRelease(Setup(r), v, entries[v], "evicting")
                       /\ UNCHANGED entries
                       /\ task'[Setup(r)].pc = "evicting" /\ task'[Setup(r)].releasing = entries[v]
  <1> DEFINE t == Setup(r)
  <1>1. t \in Tasks /\ UNCHANGED next_generation
    BY TaskNames DEF Evict, BeginRelease
  <1>2. PICK v \in Evictable(r) :
          \/ /\ release_started[entries[v]] /\ entries' = RemoveMatchingEntry(v, entries[v])
             /\ UNCHANGED <<active, release_started, admission, served, task>>
          \/ BeginRelease(t, v, entries[v], "evicting") /\ UNCHANGED entries
    BY DEF Evict
  <1>3. v \in Routes /\ v # r /\ entries[v] # 0
    BY DEF Evictable, Entries
  <1>4. entries[v] \in 1..next_generation
    BY <1>3, OriginsAssumption DEF Typed, TypeInv, GenerationInv, Generations
  <1>5. CASE /\ release_started[entries[v]] /\ entries' = RemoveMatchingEntry(v, entries[v])
             /\ UNCHANGED <<active, release_started, admission, served, task>>
    <2>1. TaskInv' /\ Only(t)
      BY <1>1, <1>5 DEF Typed, TaskInv, Only
    <2>2. entries' = [entries EXCEPT ![v] = 0]
      BY <1>5 DEF RemoveMatchingEntry
    <2> QED
      BY <1>1, <1>3, <1>4, <1>5, <2>1, <2>2
  <1>6. CASE BeginRelease(t, v, entries[v], "evicting") /\ UNCHANGED entries
    <2>1. PICK g : g = entries[v]
      OBVIOUS
    <2>2. /\ TaskInv' /\ Only(t) /\ task'[t].pc = "evicting" /\ task'[t].releasing = g
      BY <1>1, <1>4, <1>6, <2>1, BeginReleaseEffect
    <2> QED
      BY <1>1, <1>3, <1>4, <1>6, <2>1, <2>2
  <1> QED
    BY <1>2, <1>5, <1>6

\* After an eviction the setup looks for room again.
LEMMA EvictedEffect ==
    ASSUME Typed, NEW r \in Routes, Evicted(r)
    PROVE  TaskInv' /\ Only(Setup(r)) /\ UNCHANGED next_generation /\ task'[Setup(r)].pc = "evict"
  <1> DEFINE t == Setup(r)
  <1>1. t \in Tasks /\ UNCHANGED next_generation
    BY TaskNames DEF Evicted
  <1>2. PICK w : w = [task[t] EXCEPT !.pc = "evict", !.releasing = 0, !.answered = FALSE]
    OBVIOUS
  <1>3. task' = [task EXCEPT ![t] = w]
    BY <1>1, <1>2 DEF Evicted, Typed, TaskInv
  <1>4. TaskOK(task[t], next_generation) /\ task[t] \in Task /\ 0 \in Generations
    BY <1>1, InPlace, OriginsAssumption DEF TaskOK, Generations
  <1>5. w \in Task
    BY <1>2, <1>4 DEF Task
  <1>6. w.pc = "evict" /\ w.lease = task[t].lease /\ w.todo = task[t].todo
    BY <1>2, <1>4 DEF Task
  <1>7. TaskOK(w, next_generation)
    BY <1>4, <1>5, <1>6 DEF TaskOK
  <1> QED
    BY <1>1, <1>3, <1>6, <1>7, BecomesOK

\* The identity gets the lease of the setup.
LEMMA SetIdentityEffect ==
    ASSUME Typed, NEW r \in Routes, SetIdentityLease(r)
    PROVE  /\ TaskInv' /\ Only(Setup(r)) /\ task'[Setup(r)].pc = "ticket"
           /\ task[Setup(r)].lease \in 1..next_generation
  <1> DEFINE t == Setup(r)
  <1>1. t \in Tasks /\ UNCHANGED next_generation /\ task[t].pc = "set_identity" /\ Goto(t, "ticket")
    BY TaskNames DEF SetIdentityLease, budgetVars
  <1>2. PICK w : w = [task[t] EXCEPT !.pc = "ticket"]
    OBVIOUS
  <1>3. task' = [task EXCEPT ![t] = w]
    BY <1>1, <1>2, InPlace DEF Goto
  <1>4. TaskOK(task[t], next_generation) /\ task[t] \in Task
    BY <1>1, InPlace DEF TaskOK
  <1>5. w \in Task
    BY <1>2, <1>4 DEF Task
  <1>6. w.pc = "ticket" /\ w.lease = task[t].lease /\ w.todo = task[t].todo
    BY <1>2, <1>4 DEF Task
  <1>7. TaskOK(w, next_generation) /\ task[t].lease # 0
    BY <1>1, <1>4, <1>5, <1>6 DEF TaskOK
  <1>8. task[t].lease \in 1..next_generation
    BY <1>4, <1>7, OriginsAssumption DEF TaskOK, Typed, TypeInv, Generations
  <1> QED
    BY <1>1, <1>3, <1>6, <1>7, <1>8, BecomesOK

\* Without a ticket, the setup gives back the lease that it holds.
LEMMA TicketUnavailableEffect ==
    ASSUME Typed, NEW r \in Routes, TicketUnavailable(r)
    PROVE  TaskInv' /\ Only(Setup(r)) /\ task'[Setup(r)].pc = "release"
  <1> DEFINE t == Setup(r)
  <1>1. t \in Tasks /\ UNCHANGED next_generation /\ task[t].pc = "ticket"
    BY TaskNames DEF TicketUnavailable, budgetVars
  <1>2. TaskOK(task[t], next_generation) /\ task[t] \in Task
    BY <1>1, InPlace DEF TaskOK
  <1>3. PICK g : g = task[t].lease
    OBVIOUS
  <1>4. g \in 1..next_generation /\ next_generation \in Generations
    BY <1>1, <1>2, <1>3, OriginsAssumption DEF TaskOK, Typed, TypeInv, Generations
  <1>5. PICK w : w = [task[t] EXCEPT !.pc = "release", !.lease = 0, !.todo = <<g>>, !.then = "check_retired"]
    OBVIOUS
  <1>6. task' = [task EXCEPT ![t] = w]
    BY <1>1, <1>3, <1>5 DEF TicketUnavailable, Typed, TaskInv
  <1>7. /\ <<g>> \in TodoLists(next_generation) /\ <<g>> # <<>> /\ <<g>> \in Seq(Generations)
        /\ 0 \in Generations /\ 0 \in 0..next_generation
    BY <1>4, Lists, OriginsAssumption DEF Generations
  <1>8. w \in Task
    BY <1>2, <1>5, <1>7 DEF Task
  <1>9. w.pc = "release" /\ w.lease = 0 /\ w.todo = <<g>>
    BY <1>2, <1>5 DEF Task
  <1>10. TaskOK(w, next_generation)
    BY <1>7, <1>8, <1>9 DEF TaskOK
  <1> QED
    BY <1>1, <1>6, <1>9, <1>10, BecomesOK

\* A setup that finds its route retired gives its lease back and cleans up.
LEMMA GivesBack ==
    ASSUME Typed, NEW t \in Tasks, UNCHANGED next_generation, NEW g \in 1..next_generation,
           task' = [task EXCEPT ![t] = [IdleTask EXCEPT !.pc = "release", !.todo = <<g>>,
                                                        !.then = "take_endpoint"]]
    PROVE  TaskInv' /\ Only(t) /\ task'[t].pc = "release" /\ task'[t].then = "take_endpoint"
  <1>1. PICK w : w = [IdleTask EXCEPT !.pc = "release", !.todo = <<g>>, !.then = "take_endpoint"]
    OBVIOUS
  <1>2. next_generation \in Generations
    BY DEF Typed, TypeInv
  <1>3. /\ <<g>> \in TodoLists(next_generation) /\ <<g>> # <<>> /\ <<g>> \in Seq(Generations)
        /\ 0 \in Generations /\ 0 \in 0..next_generation
    BY <1>2, Lists, OriginsAssumption DEF Generations
  <1>4. IdleTask \in Task /\ IdleTask.lease = 0
    BY <1>2, EmptyHands DEF TaskOK, IdleTask
  <1>5. w \in Task
    BY <1>1, <1>3, <1>4 DEF Task
  <1>6. w.pc = "release" /\ w.lease = 0 /\ w.todo = <<g>> /\ w.then = "take_endpoint"
    BY <1>1, <1>4 DEF Task
  <1>7. TaskOK(w, next_generation)
    BY <1>3, <1>5, <1>6 DEF TaskOK
  <1> QED
    BY <1>1, <1>6, <1>7, BecomesOK

\* A setup whose route was retired turns to the clean-up, the others install.
LEMMA CheckRetiredEffect ==
    ASSUME Typed, NEW r \in Routes, CheckRetired(r)
    PROVE  /\ TaskInv' /\ Only(Setup(r)) /\ UNCHANGED next_generation
           /\ \/ task'[Setup(r)].pc = "release" /\ task'[Setup(r)].then = "take_endpoint"
              \/ task'[Setup(r)].pc \in {"take_endpoint", "install"}
  <1> DEFINE t == Setup(r)
  <1>1. t \in Tasks /\ UNCHANGED next_generation
    BY TaskNames DEF CheckRetired, budgetVars
  <1>2. PICK g : g = task[t].lease
    OBVIOUS
  <1>3. CASE /\ g # 0
             /\ task' = [task EXCEPT ![t] = [IdleTask EXCEPT !.pc = "release", !.todo = <<g>>,
                                                             !.then = "take_endpoint"]]
    <2>1. g \in 1..next_generation
      BY <1>1, <1>2, <1>3, InPlace, OriginsAssumption DEF TaskOK, Typed, TypeInv, Generations
    <2> QED
      BY <1>1, <1>3, <2>1, GivesBack
  <1>4. CASE task' = [task EXCEPT ![t] = CleanUp("failed")]
    BY <1>1, <1>4, CleanUpEffect
  <1>5. CASE Goto(t, "install")
    BY <1>1, <1>5, GotoEffect
  <1> QED
    BY <1>2, <1>3, <1>4, <1>5 DEF CheckRetired

\* The endpoint is installed, or the identity's lease is taken to be released.
LEMMA InstallEffect ==
    ASSUME Typed, NEW r \in Routes, Install(r)
    PROVE  /\ TaskInv' /\ Only(Setup(r)) /\ UNCHANGED next_generation
           /\ \/ /\ retired[r] /\ UNCHANGED <<endpoint, endpoint_lease>>
                 /\ identity_lease' = [identity_lease EXCEPT ![r] = 0]
                 /\ task'[Setup(r)].pc \in {"take_endpoint", "release"}
              \/ /\ ~retired[r] /\ task'[Setup(r)].pc = "connect" /\ UNCHANGED identity_lease
                 /\ endpoint' = [endpoint EXCEPT ![r] = TRUE]
                 /\ endpoint_lease' = [endpoint_lease EXCEPT ![r] = task[Setup(r)].lease]
                 /\ task[Setup(r)].lease \in 0..next_generation
  <1> DEFINE t == Setup(r)
  <1>1. t \in Tasks /\ UNCHANGED next_generation
    BY TaskNames DEF Install, budgetVars
  <1>2. PICK g : g = identity_lease[r]
    OBVIOUS
  <1>3. CASE /\ retired[r] /\ identity_lease' = [identity_lease EXCEPT ![r] = 0]
             /\ UNCHANGED <<endpoint, endpoint_lease>> /\ g # 0
             /\ task' = [task EXCEPT ![t] = [IdleTask EXCEPT !.pc = "release", !.todo = <<g>>,
                                                             !.then = "take_endpoint"]]
    <2>1. g \in 1..next_generation
      BY <1>1, <1>2, <1>3, OriginsAssumption DEF GenerationInv, Typed, TypeInv, Generations
    <2> QED
      BY <1>1, <1>3, <2>1, GivesBack
  <1>4. CASE /\ retired[r] /\ identity_lease' = [identity_lease EXCEPT ![r] = 0]
             /\ UNCHANGED <<endpoint, endpoint_lease>>
             /\ task' = [task EXCEPT ![t] = CleanUp("failed")]
    BY <1>1, <1>4, CleanUpEffect
  <1>5. CASE /\ ~retired[r] /\ Goto(t, "connect") /\ UNCHANGED identity_lease
             /\ endpoint' = [endpoint EXCEPT ![r] = TRUE]
             /\ endpoint_lease' = [endpoint_lease EXCEPT ![r] = task[Setup(r)].lease]
    <2>1. task[t].lease \in 0..next_generation
      BY <1>1, InPlace DEF TaskOK
    <2> QED
      BY <1>1, <1>5, <2>1, GotoEffect
  <1> QED
    BY <1>2, <1>3, <1>4, <1>5 DEF Install

\* A caller begins, with a clean-up or without.
LEMMA CallEffect ==
    ASSUME Typed, NEW r \in Routes, Call(r)
    PROVE  TaskInv' /\ Only(Caller(r)) /\ task'[Caller(r)].pc \in {"take_endpoint", "lookup"}
  <1> DEFINE t == Caller(r)
  <1>1. t \in Tasks /\ UNCHANGED next_generation
    BY TaskNames DEF Call, budgetVars
  <1>2. CASE task' = [task EXCEPT ![t] = CleanUp("lookup")]
    BY <1>1, <1>2, CleanUpEffect
  <1>3. CASE task' = [task EXCEPT ![t] = [IdleTask EXCEPT !.pc = "lookup"]]
    BY <1>1, <1>3, RestsAt
  <1> QED
    BY <1>2, <1>3 DEF Call

\* A task that was dropped has nothing in its hands.
LEMMA IdleEffect ==
    ASSUME Typed, NEW t \in Tasks, UNCHANGED next_generation, task' = [task EXCEPT ![t] = IdleTask]
    PROVE  TaskInv' /\ Only(t) /\ task'[t].pc = "idle"
  <1>1. TaskOK(IdleTask, next_generation) /\ IdleTask.pc = "idle"
    BY InPlace, EmptyHands
  <1> QED
    BY <1>1, BecomesOK

\* A caller leaves, waits, or starts the setup of its route.
LEMMA LookupEffect ==
    ASSUME Typed, NEW r \in Routes, Lookup(r)
    PROVE  /\ TaskInv' /\ task'[Caller(r)].pc \in {"idle", "waiting"} /\ UNCHANGED next_generation
           /\ \A s \in Tasks : s \notin {Setup(r), Caller(r)} => task'[s] = task[s]
           /\ \/ task'[Setup(r)] = task[Setup(r)] /\ UNCHANGED attempts
              \/ /\ task[Setup(r)].pc = "idle" /\ task'[Setup(r)].pc = "enter"
                 /\ attempts < MaxAttempts /\ attempts' = attempts + 1
  <1> DEFINE t == Caller(r) u == Setup(r)
  <1>1. t \in Tasks /\ u \in Tasks /\ t # u /\ UNCHANGED next_generation
    BY TaskNames DEF Lookup, budgetVars
  <1>2. CASE task' = [task EXCEPT ![t] = IdleTask] /\ UNCHANGED attempts
    BY <1>1, <1>2, IdleEffect DEF Only
  <1>3. CASE Goto(t, "waiting") /\ UNCHANGED attempts
    BY <1>1, <1>3, GotoEffect DEF Only
  <1>4. CASE /\ task[u].pc = "idle" /\ attempts < MaxAttempts /\ attempts' = attempts + 1
             /\ task' = [task EXCEPT ![t].pc = "waiting", ![u] = [IdleTask EXCEPT !.pc = "enter"]]
    <2>1. PICK w : w = [task[t] EXCEPT !.pc = "waiting"]
      OBVIOUS
    <2>2. PICK x : x = [IdleTask EXCEPT !.pc = "enter"]
      OBVIOUS
    <2>3. /\ task'[t] = w /\ task'[u] = x /\ task' = [s \in Tasks |-> task'[s]]
          /\ \A s \in Tasks : s \notin {t, u} => task'[s] = task[s]
      BY <1>1, <1>4, <2>1, <2>2 DEF Typed, TaskInv
    <2>4. TaskOK(task[t], next_generation) /\ next_generation \in Generations
      BY <1>1, InPlace
    <2>5. TaskOK(w, next_generation) /\ w.pc = "waiting"
      BY <2>1, <2>4, GoesOn
    <2>6. TaskOK(x, next_generation) /\ x.pc = "enter"
      BY <2>2, <2>4, EmptyHands
    <2>7. \A s \in Tasks : TaskOK(task'[s], next_generation)
      BY <2>3, <2>5, <2>6 DEF Typed, TaskInv
    <2>8. TaskInv'
      BY <1>1, <2>3, <2>7 DEF TaskInv
    <2> QED
      BY <1>1, <1>4, <2>3, <2>5, <2>6, <2>8
  <1> QED
    BY <1>2, <1>3, <1>4 DEF Lookup

\* The clean-up holds the endpoint's lease, if there was one.
LEMMA TakeEndpointEffect ==
    ASSUME Typed, NEW t \in Tasks, TakeEndpoint(t)
    PROVE  TaskInv' /\ Only(t) /\ task'[t].pc = "take_identity"
  <1>1. UNCHANGED next_generation /\ RouteOf(t) \in Routes
    BY TaskNames DEF TakeEndpoint, budgetVars
  <1>2. PICK g : g = endpoint_lease[RouteOf(t)]
    OBVIOUS
  <1>3. PICK todo : todo = IF g = 0 THEN <<>> ELSE <<g>>
    OBVIOUS
  <1>4. PICK w : w = [task[t] EXCEPT !.pc = "take_identity", !.todo = todo]
    OBVIOUS
  <1>5. task' = [task EXCEPT ![t] = w]
    BY <1>2, <1>3, <1>4 DEF TakeEndpoint, Typed, TaskInv
  <1>6. g \in 0..next_generation /\ next_generation \in Generations /\ (g # 0 => g \in 1..next_generation)
    BY <1>1, <1>2, OriginsAssumption DEF Typed, TypeInv, GenerationInv, Generations
  <1>7. /\ todo \in TodoLists(next_generation) /\ todo \in Seq(Generations)
        /\ todo = <<>> \/ todo \in {<<x>> : x \in 1..next_generation}
    BY <1>3, <1>6, Lists
  <1>8. TaskOK(task[t], next_generation) /\ task[t] \in Task
    BY InPlace DEF TaskOK
  <1>9. w \in Task
    BY <1>4, <1>7, <1>8 DEF Task
  <1>10. w.pc = "take_identity" /\ w.lease = task[t].lease /\ w.todo = todo
    BY <1>4, <1>8 DEF Task
  <1>11. TaskOK(w, next_generation)
    BY <1>7, <1>8, <1>9, <1>10 DEF TaskOK
  <1> QED
    BY <1>1, <1>5, <1>10, <1>11, BecomesOK

\* The clean-up holds the identity's lease too.
LEMMA TakeIdentityEffect ==
    ASSUME Typed, NEW t \in Tasks, TakeIdentity(t)
    PROVE  TaskInv' /\ Only(t) /\ task'[t].pc = "invalidate"
  <1>1. UNCHANGED next_generation /\ RouteOf(t) \in Routes /\ task[t].pc = "take_identity"
    BY TaskNames DEF TakeIdentity, budgetVars
  <1>2. PICK g : g = identity_lease[RouteOf(t)]
    OBVIOUS
  <1>3. PICK old : old = task[t].todo
    OBVIOUS
  <1>4. PICK todo : todo = IF g = 0 \/ old = <<g>> THEN old ELSE <<g>> \o old
    OBVIOUS
  <1>5. PICK w : w = [task[t] EXCEPT !.pc = "invalidate", !.todo = todo]
    OBVIOUS
  <1>6. task' = [task EXCEPT ![t] = w]
    BY <1>2, <1>3, <1>4, <1>5 DEF TakeIdentity, Typed, TaskInv
  <1>7. g \in 0..next_generation /\ next_generation \in Generations /\ (g # 0 => g \in 1..next_generation)
    BY <1>1, <1>2, OriginsAssumption DEF Typed, TypeInv, GenerationInv, Generations
  <1>8. TaskOK(task[t], next_generation) /\ task[t] \in Task
    BY InPlace DEF TaskOK
  <1>9. old = <<>> \/ \E x \in 1..next_generation : old = <<x>>
    BY <1>1, <1>3, <1>8 DEF TaskOK
  <1>10. todo \in TodoLists(next_generation) /\ todo \in Seq(Generations)
    <2>1. CASE g = 0 \/ old = <<g>>
      BY <1>3, <1>4, <1>7, <1>8, <2>1, Lists DEF TaskOK
    <2>2. CASE ~(g = 0 \/ old = <<g>>) /\ old = <<>>
      <3>1. <<g>> \o <<>> = <<g>> /\ g \in 1..next_generation
        BY <1>7, <2>2
      <3> QED
        BY <1>4, <1>7, <2>2, <3>1, Lists
    <2>3. CASE ~(g = 0 \/ old = <<g>>) /\ \E x \in 1..next_generation : old = <<x>>
      BY <1>4, <1>7, <2>3, Lists
    <2> QED
      BY <1>9, <2>1, <2>2, <2>3
  <1>11. w \in Task
    BY <1>5, <1>8, <1>10 DEF Task
  <1>12. w.pc = "invalidate" /\ w.lease = task[t].lease /\ w.todo = todo
    BY <1>5, <1>8 DEF Task
  <1>13. TaskOK(w, next_generation)
    BY <1>8, <1>10, <1>11, <1>12 DEF TaskOK
  <1> QED
    BY <1>1, <1>6, <1>12, <1>13, BecomesOK

\* The clean-up turns to what it has to release, or is over.
LEMMA InvalidateEffect ==
    ASSUME Typed, NEW t \in Tasks, InvalidateAndRelease(t)
    PROVE  /\ TaskInv' /\ Only(t)
           /\ task'[t].pc \in {"idle", "failed", "lookup", "check_retired", "take_endpoint", "release"}
  <1>1. UNCHANGED next_generation /\ task[t].pc = "invalidate"
    BY DEF InvalidateAndRelease, budgetVars
  <1>2. /\ TaskOK(task[t], next_generation) /\ task[t] \in Task
        /\ task[t].then \in {"idle", "failed", "lookup", "check_retired", "take_endpoint"}
    BY InPlace DEF TaskOK, Task
  <1>3. CASE task[t].todo = <<>>
    <2>1. PICK x : x = task[t].then
      OBVIOUS
    <2>2. PICK w : w = [IdleTask EXCEPT !.pc = x]
      OBVIOUS
    <2>3. task' = [task EXCEPT ![t] = w]
      BY <1>3, <2>1, <2>2 DEF InvalidateAndRelease
    <2>4. IdleTask \in Task /\ TaskOK(IdleTask, next_generation)
      BY EmptyHands DEF TaskOK, Typed, TypeInv
    <2>5. w \in Task
      BY <1>2, <2>1, <2>2, <2>4 DEF Task
    <2>6. w.pc = x /\ w.lease = IdleTask.lease /\ w.todo = IdleTask.todo
      BY <2>2, <2>4 DEF Task
    <2>7. TaskOK(w, next_generation)
      BY <1>2, <2>1, <2>4, <2>5, <2>6 DEF TaskOK
    <2> QED
      BY <1>1, <1>2, <2>1, <2>3, <2>6, <2>7, BecomesOK
  <1>4. CASE task[t].todo # <<>>
    <2>1. PICK w : w = [task[t] EXCEPT !.pc = "release"]
      OBVIOUS
    <2>2. task' = [task EXCEPT ![t] = w]
      BY <1>4, <2>1 DEF InvalidateAndRelease
    <2>3. w \in Task
      BY <1>2, <2>1 DEF Task
    <2>4. w.pc = "release" /\ w.lease = task[t].lease /\ w.todo = task[t].todo
      BY <1>2, <2>1 DEF Task
    <2>5. TaskOK(w, next_generation)
      BY <1>2, <1>4, <2>3, <2>4 DEF TaskOK
    <2> QED
      BY <1>1, <2>2, <2>4, <2>5, BecomesOK
  <1> QED
    BY <1>3, <1>4

\* A clean-up begins a release, or passes over one that is done.
LEMMA ReleaseNowEffect ==
    ASSUME Typed, NEW t \in Tasks, ReleaseNow(t)
    PROVE  \E g \in 1..next_generation :
              /\ task[t].pc = "release" /\ admission = Nobody /\ UNCHANGED next_generation
              /\ TaskInv' /\ Only(t)
              /\ \/ /\ release_started[g] /\ active' = [active EXCEPT ![g] = FALSE]
                    /\ entries' = RemoveMatchingEntry(RouteOf(t), g)
                    /\ UNCHANGED <<release_started, admission, served>>
                    /\ task'[t].pc \in {"release", "take_endpoint", "idle", "failed", "lookup", "check_retired"}
                    /\ task[t].then = "take_endpoint" =>
                          task'[t].pc = "take_endpoint" \/ (task'[t].pc = "release" /\ task'[t].then = "take_endpoint")
                 \/ /\ BeginRelease(t, RouteOf(t), g, "releasing") /\ UNCHANGED entries
                    /\ task'[t].pc = "releasing" /\ task'[t].releasing = g /\ task'[t].then = task[t].then
  <1>1. PICK g : g = Head(task[t].todo)
    OBVIOUS
  <1>2. task[t].pc = "release" /\ admission = Nobody /\ UNCHANGED next_generation
    BY DEF ReleaseNow
  <1>3. /\ task[t].todo # <<>> /\ task[t].todo \in TodoLists(next_generation)
        /\ next_generation \in Generations
    BY <1>2, InPlace DEF TaskOK
  <1>4. g \in 1..next_generation
    BY <1>1, <1>3, Lists
  <1>5. CASE /\ release_started[g] /\ active' = [active EXCEPT ![g] = FALSE]
             /\ entries' = RemoveMatchingEntry(RouteOf(t), g)
             /\ UNCHANGED <<release_started, admission, served>> /\ NextRelease(t)
    BY <1>2, <1>4, <1>5, NextReleaseEffect
  <1>6. CASE BeginRelease(t, RouteOf(t), g, "releasing") /\ UNCHANGED entries
    BY <1>2, <1>3, <1>4, <1>6, BeginReleaseEffect
  <1> QED
    BY <1>1, <1>5, <1>6 DEF ReleaseNow

-------------------------------------------------------------------------------
(***************************************************************************)
(* Types and tasks                                                         *)
(***************************************************************************)

\* remove_matching_entry takes away one entry at most.
LEMMA EntryRemoval ==
    ASSUME TypeInv, NEW v \in Routes, NEW g
    PROVE  /\ RemoveMatchingEntry(v, g) \in [Routes -> Generations]
           /\ \A r \in Routes : RemoveMatchingEntry(v, g)[r] = IF r = v /\ entries[r] = g THEN 0 ELSE entries[r]
  BY OriginsAssumption DEF TypeInv, RemoveMatchingEntry, Generations

\* A release that begins keeps the types of what it writes.
LEMMA BeginReleaseTypes ==
    ASSUME TypeInv, NEW t \in Tasks, NEW v, NEW g, NEW where, BeginRelease(t, v, g, where)
    PROVE  /\ active' \in [Generations -> BOOLEAN] /\ release_started' \in [Generations -> BOOLEAN]
           /\ admission' \in Tasks \cup {Nobody} /\ served' \in [Origins -> SUBSET Routes]
  <1>1. PICK arrived : served' = [o \in Origins |-> IF o \in arrived THEN served[o] \ {v} ELSE served[o]]
    BY DEF BeginRelease
  <1>2. served' \in [Origins -> SUBSET Routes]
    BY <1>1 DEF TypeInv
  <1>3. active' \in [Generations -> BOOLEAN] /\ release_started' \in [Generations -> BOOLEAN]
    BY DEF BeginRelease, TypeInv
  <1>4. admission' \in Tasks \cup {Nobody}
    BY DEF BeginRelease
  <1> QED
    BY <1>2, <1>3, <1>4

\* The steps of a setup keep the types.
LEMMA SetupTypes ==
    ASSUME Typed, NEW r \in Routes, SetupStep(r)
    PROVE  TypeInv'
  <1> USE DEF Typed
  <1>0. /\ Setup(r) \in Tasks /\ \A t \in Tasks : Unlocked(t) \in Tasks \cup {Nobody}
        /\ 0 \in Generations
    BY TaskNames, OriginsAssumption DEF Unlocked, TypeInv, Generations
  <1>1. CASE Enter(r)
    BY <1>1 DEF Enter, TypeInv, budgetVars, routeVars
  <1>3. CASE Reserve(r)
    <2>1. UNCHANGED <<routeVars, next_generation>>
      BY <1>3 DEF Reserve, budgetVars
    <2>2. entries' \in [Routes -> Generations]
      BY <1>3, EntryRemoval DEF Reserve, budgetVars, TypeInv
    <2>3. /\ active' \in [Generations -> BOOLEAN] /\ release_started' \in [Generations -> BOOLEAN]
          /\ admission' \in Tasks \cup {Nobody} /\ served' \in [Origins -> SUBSET Routes]
      BY <1>0, <1>3, BeginReleaseTypes DEF Reserve, budgetVars, TypeInv
    <2> QED
      BY <2>1, <2>2, <2>3 DEF TypeInv, routeVars
  <1>4. CASE Grant(r)
    <2>1. next_generation' = next_generation + 1 /\ next_generation' \in Generations
      BY <1>4, GrantEffect
    <2> QED
      BY <1>4, <2>1 DEF Grant, TypeInv, routeVars
  <1>5. CASE Evict(r)
    <2>1. PICK v \in Routes :
             /\ UNCHANGED next_generation
             /\ \/ /\ entries' = [entries EXCEPT ![v] = 0]
                   /\ UNCHANGED <<active, release_started, admission, served, task>>
                \/ BeginRelease(Setup(r), v, entries[v], "evicting") /\ UNCHANGED entries
      BY <1>5, EvictEffect
    <2>2. UNCHANGED routeVars
      BY <1>5 DEF Evict
    <2>3. entries' \in [Routes -> Generations]
      BY <1>0, <2>1 DEF TypeInv
    <2>4. /\ active' \in [Generations -> BOOLEAN] /\ release_started' \in [Generations -> BOOLEAN]
          /\ admission' \in Tasks \cup {Nobody} /\ served' \in [Origins -> SUBSET Routes]
      BY <1>0, <2>1, BeginReleaseTypes DEF TypeInv
    <2> QED
      BY <2>1, <2>2, <2>3, <2>4 DEF TypeInv, routeVars
  <1>6. CASE Evicted(r)
    <2>1. PICK v \in Routes : entries' = RemoveMatchingEntry(v, task[Setup(r)].releasing)
      BY <1>6 DEF Evicted, Victims
    <2>2. entries' \in [Routes -> Generations]
      BY <2>1, EntryRemoval
    <2> QED
      BY <1>6, <2>2 DEF Evicted, TypeInv, routeVars
  <1>7. CASE EvictionFails(r)
    BY <1>7 DEF EvictionFails, TypeInv, routeVars
  <1>8. CASE SetIdentityLease(r)
    <2>1. task[Setup(r)].lease \in Generations
      BY <1>0 DEF TaskInv, TaskOK, Task
    <2> QED
      BY <1>8, <2>1 DEF SetIdentityLease, TypeInv, budgetVars
  <1>9. ASSUME NEW g, NEW origins, IssueAt(r, g, origins) PROVE served' \in [Origins -> SUBSET Routes]
    BY <1>9 DEF IssueAt, TypeInv
  <1>10. CASE TicketIssued(r)
    BY <1>9, <1>10 DEF TicketIssued, TypeInv, budgetVars, routeVars
  <1>11. CASE TicketUnavailable(r)
    BY <1>0, <1>11 DEF TicketUnavailable, TypeInv, budgetVars
  <1>12. CASE CheckRetired(r)
    BY <1>12 DEF CheckRetired, TypeInv, budgetVars, routeVars
  <1>13. CASE Install(r)
    <2>1. task[Setup(r)].lease \in Generations
      BY <1>0 DEF TaskInv, TaskOK, Task
    <2> QED
      BY <1>0, <1>13, <2>1 DEF Install, TypeInv, budgetVars
  <1>14. CASE Connect(r)
    BY <1>14 DEF Connect, TypeInv, budgetVars
  <1>15. CASE SetupFails(r)
    BY <1>0, <1>15 DEF SetupFails, Dropped, TypeInv, routeVars
  <1>16. CASE SetupFailed(r)
    BY <1>16 DEF SetupFailed, TypeInv, budgetVars, routeVars
  <1> QED
    BY <1>1, <1>3, <1>4, <1>5, <1>6, <1>7, <1>8, <1>10, <1>11, <1>12, <1>13, <1>14, <1>15, <1>16
       DEF SetupStep

\* The steps of callers, retirements and refreshes keep the types.
LEMMA OtherTypes ==
    ASSUME Typed, NEW r \in Routes, CallerStep(r) \/ RouteStep(r)
    PROVE  TypeInv'
  <1> USE DEF Typed
  <1>0. Caller(r) \in Tasks /\ \A t \in Tasks : Unlocked(t) \in Tasks \cup {Nobody}
    BY TaskNames DEF Unlocked, TypeInv
  <1>1. CASE Call(r)
    BY <1>1 DEF Call, TypeInv, budgetVars, routeVars
  <1>2. CASE Lookup(r)
    <2>1. attempts' \in 0..MaxAttempts
      BY <1>2, OriginsAssumption DEF Lookup, TypeInv
    <2> QED
      BY <1>2, <2>1 DEF Lookup, TypeInv, budgetVars
  <1>3. CASE CancelCaller(r)
    BY <1>0, <1>3 DEF CancelCaller, Dropped, TypeInv, routeVars
  <1>4. CASE Retire(r)
    BY <1>4 DEF Retire, TypeInv, budgetVars
  <1>5. CASE RefreshDue(r)
    BY <1>5 DEF RefreshDue, TypeInv, budgetVars
  <1>6. CASE Refresh(r)
    <2>1. served' \in [Origins -> SUBSET Routes]
      BY <1>6 DEF Refresh, IssueAt, TypeInv
    <2>2. cached_session' \in [Routes -> BOOLEAN] /\ refreshing' \in [Routes -> BOOLEAN]
      BY <1>6 DEF Refresh, TypeInv
    <2> QED
      BY <1>6, <2>1, <2>2 DEF Refresh, TypeInv, budgetVars
  <1>7. CASE Invalidate(r)
    BY <1>7 DEF Invalidate, TypeInv, budgetVars
  <1>8. CASE Expire(r)
    BY <1>8 DEF Expire, TypeInv, budgetVars, routeVars
  <1> QED
    BY <1>1, <1>2, <1>3, <1>4, <1>5, <1>6, <1>7, <1>8 DEF CallerStep, RouteStep

\* The steps of a clean-up keep the types.
LEMMA CleanUpTypes ==
    ASSUME Typed, NEW t \in Tasks, CleanUpStep(t)
    PROVE  TypeInv'
  <1> USE DEF Typed
  <1>0. RouteOf(t) \in Routes /\ 0 \in Generations
    BY TaskNames, OriginsAssumption DEF Generations
  <1>1. CASE ReleaseNow(t)
    <2>1. PICK g \in 1..next_generation :
            /\ UNCHANGED next_generation
            /\ \/ /\ active' = [active EXCEPT ![g] = FALSE]
                  /\ entries' = RemoveMatchingEntry(RouteOf(t), g)
                  /\ UNCHANGED <<release_started, admission, served>>
               \/ BeginRelease(t, RouteOf(t), g, "releasing") /\ UNCHANGED entries
      BY <1>1, ReleaseNowEffect
    <2>2. UNCHANGED routeVars
      BY <1>1 DEF ReleaseNow
    <2>3. entries' \in [Routes -> Generations]
      BY <1>0, <2>1, EntryRemoval DEF TypeInv
    <2>4. /\ active' \in [Generations -> BOOLEAN] /\ release_started' \in [Generations -> BOOLEAN]
          /\ admission' \in Tasks \cup {Nobody} /\ served' \in [Origins -> SUBSET Routes]
      BY <2>1, BeginReleaseTypes DEF TypeInv
    <2> QED
      BY <2>1, <2>2, <2>3, <2>4 DEF TypeInv, routeVars
  <1>2. CASE Released(t)
    <2>1. entries' \in [Routes -> Generations]
      BY <1>0, <1>2, EntryRemoval DEF Released
    <2> QED
      BY <1>2, <2>1 DEF Released, TypeInv, routeVars
  <1>3. CASE ReleaseFails(t)
    BY <1>3 DEF ReleaseFails, TypeInv, routeVars
  <1>4. CASE TakeEndpoint(t)
    BY <1>0, <1>4 DEF TakeEndpoint, TypeInv, budgetVars
  <1>5. CASE TakeIdentity(t)
    BY <1>0, <1>5 DEF TakeIdentity, TypeInv, budgetVars
  <1>6. CASE InvalidateAndRelease(t)
    BY <1>0, <1>6 DEF InvalidateAndRelease, TypeInv, budgetVars
  <1> QED
    BY <1>1, <1>2, <1>3, <1>4, <1>5, <1>6 DEF CleanUpStep

-------------------------------------------------------------------------------
(***************************************************************************)
(* Generations                                                             *)
(***************************************************************************)

\* Nobody begins to prepare, and what is named as a lease was made.
LEMMA GenerationFrame ==
    ASSUME Typed, TypeInv', UNCHANGED <<next_generation, attempts>>,
           \A r \in Routes : task'[Setup(r)].pc \in Prep => task[Setup(r)].pc \in Prep,
           \A r \in Routes : /\ entries'[r] \in 0..next_generation
                             /\ endpoint_lease'[r] \in 0..next_generation
                             /\ identity_lease'[r] \in 0..next_generation
    PROVE  GenerationInv'
  <1>1. IsFiniteSet(Preparing) /\ Preparing' \subseteq Preparing
    BY FS_Subset, OriginsAssumption DEF Preparing
  <1>2. /\ Cardinality(Preparing') <= Cardinality(Preparing) /\ Cardinality(Preparing) \in Nat
        /\ Cardinality(Preparing') \in Nat
    BY <1>1, FS_Subset, FS_CardinalityType
  <1>3. next_generation + Cardinality(Preparing) <= attempts /\ next_generation \in Nat /\ attempts \in Nat
    BY OriginsAssumption DEF Typed, TypeInv, GenerationInv, Generations
  <1>4. next_generation' + Cardinality(Preparing') <= attempts'
    BY <1>2, <1>3
  <1> QED
    BY <1>4 DEF GenerationInv

\* One task moves and does not begin to prepare.
LEMMA OneMoves ==
    ASSUME NEW t \in Tasks, Only(t), task[t].pc \in Prep \/ task'[t].pc \notin Prep
    PROVE  \A r \in Routes : task'[Setup(r)].pc \in Prep => task[Setup(r)].pc \in Prep
  BY TaskNames DEF Only

\* An entry that is removed names no generation.
LEMMA RemovalGenerations ==
    ASSUME Typed, NEW v \in Routes, NEW g, entries' = RemoveMatchingEntry(v, g)
    PROVE  \A r \in Routes : entries'[r] \in 0..next_generation
  <1>1. \A r \in Routes : entries'[r] = IF r = v /\ entries[r] = g THEN 0 ELSE entries[r]
    BY EntryRemoval DEF Typed
  <1>2. 0 \in 0..next_generation /\ \A r \in Routes : entries[r] \in 0..next_generation
    BY OriginsAssumption DEF Typed, TypeInv, GenerationInv, Generations
  <1> QED
    BY <1>1, <1>2

\* A setup makes one generation at most, and holds no other that was not made.
LEMMA SetupGenerations ==
    ASSUME Typed, NEW r \in Routes, SetupStep(r)
    PROVE  TaskInv' /\ GenerationInv'
  <1> DEFINE t == Setup(r)
  <1>0. t \in Tasks /\ TypeInv'
    BY TaskNames, SetupTypes
  <1>1. /\ \A v \in Routes : /\ entries[v] \in 0..next_generation
                             /\ endpoint_lease[v] \in 0..next_generation
                             /\ identity_lease[v] \in 0..next_generation
        /\ 0 \in 0..next_generation
    BY OriginsAssumption DEF Typed, TypeInv, GenerationInv, Generations
  <1>2. ASSUME Finish(r), UNCHANGED <<budgetVars, attempts, endpoint_lease, identity_lease>>
        PROVE  TaskInv' /\ GenerationInv'
    <2>1. TaskInv' /\ \A v \in Routes : task'[Setup(v)].pc \in Prep => task[Setup(v)].pc \in Prep
      BY <1>2, FinishEffect, TaskNames DEF Prep, budgetVars
    <2> QED
      BY <1>0, <1>1, <1>2, <2>1, GenerationFrame DEF budgetVars
  <1>3. ASSUME TaskInv', Only(t), task[t].pc \in Prep \/ task'[t].pc \notin Prep,
               UNCHANGED <<next_generation, attempts, endpoint_lease, identity_lease>>,
               \A v \in Routes : entries'[v] \in 0..next_generation
        PROVE  TaskInv' /\ GenerationInv'
    BY <1>0, <1>1, <1>3, OneMoves, GenerationFrame
  <1>4. CASE Enter(r)
    <2>1. UNCHANGED <<budgetVars, attempts, endpoint_lease, identity_lease>> /\ task[t].pc \in Prep
      BY <1>4 DEF Enter, routeVars, Prep
    <2> QED
      BY <1>1, <1>2, <1>3, <1>4, <2>1, EnterEffect DEF budgetVars
  <1>5. CASE Reserve(r)
    <2>1. UNCHANGED <<attempts, endpoint_lease, identity_lease>> /\ task[t].pc \in Prep
      BY <1>5 DEF Reserve, routeVars, Prep
    <2>2. \A v \in Routes : entries'[v] \in 0..next_generation
      BY <1>1, <1>5, RemovalGenerations DEF Reserve, budgetVars
    <2> QED
      BY <1>3, <1>5, <2>1, <2>2, ReserveEffect
  <1>6. CASE Grant(r)
    <2>1. /\ TaskInv' /\ Only(t) /\ task'[t].pc = "set_identity"
          /\ next_generation' = next_generation + 1 /\ next_generation \in Nat
      BY <1>6, GrantEffect
    <2>2. /\ UNCHANGED <<attempts, endpoint_lease, identity_lease>>
          /\ task[t].pc = "evict" /\ entries' = [entries EXCEPT ![r] = next_generation + 1]
      BY <1>6 DEF Grant, routeVars
    <2>3. Preparing' = Preparing \ {r} /\ r \in Preparing
      BY <2>1, <2>2, TaskNames DEF Preparing, Prep, Only
    <2>4. IsFiniteSet(Preparing)
      BY FS_Subset, OriginsAssumption DEF Preparing
    <2>5. Cardinality(Preparing') = Cardinality(Preparing) - 1 /\ Cardinality(Preparing) \in Nat
      BY <2>3, <2>4, FS_RemoveElement, FS_CardinalityType
    <2>6. next_generation + Cardinality(Preparing) <= attempts /\ attempts \in Nat
      BY OriginsAssumption DEF Typed, TypeInv, GenerationInv
    <2>7. next_generation' + Cardinality(Preparing') <= attempts'
      BY <2>1, <2>2, <2>5, <2>6
    <2>8. \A v \in Routes : /\ entries'[v] \in 0..next_generation'
                            /\ endpoint_lease'[v] \in 0..next_generation'
                            /\ identity_lease'[v] \in 0..next_generation'
      BY <1>1, <2>1, <2>2 DEF Typed, TypeInv
    <2> QED
      BY <2>1, <2>7, <2>8 DEF GenerationInv
  <1>7. CASE Evict(r)
    <2>1. UNCHANGED <<attempts, endpoint_lease, identity_lease>> /\ task[t].pc \in Prep
      BY <1>7 DEF Evict, routeVars, Prep
    <2>2. \A v \in Routes : entries'[v] \in 0..next_generation
      BY <1>1, <1>7, EvictEffect DEF Typed, TypeInv
    <2> QED
      BY <1>3, <1>7, <2>1, <2>2, EvictEffect
  <1>8. CASE Evicted(r)
    <2>1. UNCHANGED <<attempts, endpoint_lease, identity_lease>> /\ task[t].pc \in Prep
      BY <1>8 DEF Evicted, routeVars, Prep
    <2>2. \A v \in Routes : entries'[v] \in 0..next_generation
      BY <1>8, RemovalGenerations DEF Evicted, Victims
    <2> QED
      BY <1>3, <1>8, <2>1, <2>2, EvictedEffect
  <1>9. CASE EvictionFails(r) \/ SetupFails(r)
    <2>1. /\ UNCHANGED <<entries, next_generation, attempts, endpoint_lease, identity_lease>>
          /\ task' = [task EXCEPT ![t] = CleanUp("failed")]
      BY <1>9 DEF EvictionFails, SetupFails, routeVars
    <2>2. TaskInv' /\ Only(t) /\ task'[t].pc \notin Prep
      BY <1>0, <2>1, CleanUpEffect DEF Prep
    <2> QED
      BY <1>1, <1>3, <2>1, <2>2
  <1>10. CASE SetIdentityLease(r)
    <2>1. /\ TaskInv' /\ Only(t) /\ task'[t].pc \notin Prep /\ task[t].lease \in 1..next_generation
      BY <1>10, SetIdentityEffect DEF Prep
    <2>2. /\ UNCHANGED <<entries, next_generation, attempts, endpoint_lease>>
          /\ identity_lease' = [identity_lease EXCEPT ![r] = task[t].lease]
      BY <1>10 DEF SetIdentityLease, budgetVars
    <2>3. \A v \in Routes : identity_lease'[v] \in 0..next_generation
      BY <1>1, <2>1, <2>2 DEF Typed, TypeInv
    <2> QED
      BY <1>0, <1>1, <2>1, <2>2, <2>3, OneMoves, GenerationFrame
  <1>11. CASE TicketIssued(r)
    <2>1. /\ UNCHANGED <<entries, next_generation, attempts, endpoint_lease, identity_lease>>
          /\ Goto(t, "check_retired")
      BY <1>11 DEF TicketIssued, budgetVars, routeVars
    <2>2. TaskInv' /\ Only(t) /\ task'[t].pc \notin Prep
      BY <1>0, <2>1, GotoEffect DEF Prep
    <2> QED
      BY <1>1, <1>3, <2>1, <2>2
  <1>12. CASE TicketUnavailable(r)
    <2>1. /\ TaskInv' /\ Only(t) /\ task'[t].pc \notin Prep
      BY <1>12, TicketUnavailableEffect DEF Prep
    <2>2. /\ UNCHANGED <<entries, next_generation, attempts, endpoint_lease>>
          /\ identity_lease' = [identity_lease EXCEPT ![r] = 0]
      BY <1>12 DEF TicketUnavailable, budgetVars
    <2>3. \A v \in Routes : identity_lease'[v] \in 0..next_generation
      BY <1>1, <2>2 DEF Typed, TypeInv
    <2> QED
      BY <1>0, <1>1, <2>1, <2>2, <2>3, OneMoves, GenerationFrame
  <1>13. CASE CheckRetired(r)
    <2>1. UNCHANGED <<entries, next_generation, attempts, endpoint_lease, identity_lease>>
      BY <1>13 DEF CheckRetired, budgetVars, routeVars
    <2>2. TaskInv' /\ Only(t) /\ task'[t].pc \notin Prep
      BY <1>13, CheckRetiredEffect DEF Prep
    <2> QED
      BY <1>1, <1>3, <2>1, <2>2
  <1>14. CASE Install(r)
    <2>1. /\ TaskInv' /\ Only(t) /\ task'[t].pc \notin Prep
      BY <1>14, InstallEffect DEF Prep
    <2>2. UNCHANGED <<entries, next_generation, attempts>>
      BY <1>14 DEF Install, budgetVars
    <2>3. \A v \in Routes : identity_lease'[v] \in 0..next_generation /\ endpoint_lease'[v] \in 0..next_generation
      BY <1>1, <1>14, InstallEffect DEF Typed, TypeInv
    <2> QED
      BY <1>0, <1>1, <2>1, <2>2, <2>3, OneMoves, GenerationFrame
  <1>15. CASE Connect(r) \/ SetupFailed(r)
    <2>1. Finish(r) /\ UNCHANGED <<budgetVars, attempts, endpoint_lease, identity_lease>>
      BY <1>15 DEF Connect, SetupFailed, routeVars
    <2> QED
      BY <1>2, <2>1
  <1> QED
    BY <1>4, <1>5, <1>6, <1>7, <1>8, <1>9, <1>10, <1>11, <1>12, <1>13, <1>14, <1>15 DEF SetupStep

\* Only a caller adds to the setups, and it counts the attempt.
LEMMA OtherGenerations ==
    ASSUME Typed, NEW r \in Routes, CallerStep(r) \/ RouteStep(r)
    PROVE  TaskInv' /\ GenerationInv'
  <1>0. Caller(r) \in Tasks /\ Retirement(r) \in Tasks /\ TypeInv'
    BY TaskNames, OtherTypes
  <1>1. /\ \A v \in Routes : /\ entries[v] \in 0..next_generation
                             /\ endpoint_lease[v] \in 0..next_generation
                             /\ identity_lease[v] \in 0..next_generation
    BY DEF Typed, GenerationInv
  <1>2. ASSUME NEW t \in Tasks, TaskInv', Only(t), task'[t].pc \notin Prep,
               UNCHANGED <<next_generation, attempts, entries, endpoint_lease, identity_lease>>
        PROVE  TaskInv' /\ GenerationInv'
    BY <1>0, <1>1, <1>2, OneMoves, GenerationFrame
  <1>3. CASE Call(r)
    <2>1. UNCHANGED <<next_generation, attempts, entries, endpoint_lease, identity_lease>>
      BY <1>3 DEF Call, budgetVars, routeVars
    <2> QED
      BY <1>0, <1>2, <1>3, <2>1, CallEffect DEF Prep
  <1>4. CASE CancelCaller(r)
    <2>1. /\ UNCHANGED <<next_generation, attempts, entries, endpoint_lease, identity_lease>>
          /\ task' = [task EXCEPT ![Caller(r)] = IdleTask]
      BY <1>4 DEF CancelCaller, routeVars
    <2> QED
      BY <1>0, <1>2, <2>1, IdleEffect DEF Prep
  <1>5. CASE Retire(r)
    <2>1. /\ UNCHANGED <<next_generation, attempts, entries, endpoint_lease, identity_lease>>
          /\ task' = [task EXCEPT ![Retirement(r)] = CleanUp("idle")]
      BY <1>5 DEF Retire, budgetVars
    <2> QED
      BY <1>0, <1>2, <2>1, CleanUpEffect DEF Prep
  <1>6. CASE RefreshDue(r) \/ Refresh(r) \/ Invalidate(r) \/ Expire(r)
    <2>1. UNCHANGED <<next_generation, attempts, entries, endpoint_lease, identity_lease, task>>
      BY <1>6 DEF RefreshDue, Refresh, Invalidate, Expire, budgetVars, routeVars
    <2>2. TaskInv'
      BY <2>1 DEF Typed, TaskInv
    <2> QED
      BY <1>0, <1>1, <2>1, <2>2, GenerationFrame
  <1>7. CASE Lookup(r)
    <2>1. /\ TaskInv' /\ UNCHANGED next_generation
          /\ \A s \in Tasks : s \notin {Setup(r), Caller(r)} => task'[s] = task[s]
          /\ \/ task'[Setup(r)] = task[Setup(r)] /\ UNCHANGED attempts
             \/ /\ task[Setup(r)].pc = "idle" /\ task'[Setup(r)].pc = "enter"
                /\ attempts < MaxAttempts /\ attempts' = attempts + 1
      BY <1>7, LookupEffect
    <2>2. UNCHANGED <<entries, endpoint_lease, identity_lease>>
      BY <1>7 DEF Lookup, budgetVars
    <2>3. CASE task'[Setup(r)] = task[Setup(r)] /\ UNCHANGED attempts
      <3>1. \A v \in Routes : task'[Setup(v)].pc \in Prep => task[Setup(v)].pc \in Prep
        BY <2>1, <2>3, TaskNames
      <3> QED
        BY <1>0, <1>1, <2>1, <2>2, <2>3, <3>1, GenerationFrame
    <2>4. CASE /\ task[Setup(r)].pc = "idle" /\ task'[Setup(r)].pc = "enter"
               /\ attempts' = attempts + 1
      <3>1. Preparing' = Preparing \cup {r} /\ r \notin Preparing
        BY <2>1, <2>4, TaskNames DEF Preparing, Prep
      <3>2. IsFiniteSet(Preparing)
        BY FS_Subset, OriginsAssumption DEF Preparing
      <3>3. Cardinality(Preparing') = Cardinality(Preparing) + 1 /\ Cardinality(Preparing) \in Nat
        BY <3>1, <3>2, FS_AddElement, FS_CardinalityType
      <3>4. next_generation + Cardinality(Preparing) <= attempts /\ attempts \in Nat /\ next_generation \in Nat
        BY OriginsAssumption DEF Typed, TypeInv, GenerationInv, Generations
      <3>5. next_generation' + Cardinality(Preparing') <= attempts'
        BY <2>1, <2>4, <3>3, <3>4
      <3> QED
        BY <1>1, <2>1, <2>2, <3>5 DEF GenerationInv
    <2> QED
      BY <2>1, <2>3, <2>4
  <1> QED
    BY <1>3, <1>4, <1>5, <1>6, <1>7 DEF CallerStep, RouteStep

\* A clean-up makes no generation.
LEMMA CleanUpGenerations ==
    ASSUME Typed, NEW t \in Tasks, CleanUpStep(t)
    PROVE  TaskInv' /\ GenerationInv'
  <1>0. RouteOf(t) \in Routes /\ TypeInv'
    BY TaskNames, CleanUpTypes
  <1>1. /\ \A v \in Routes : /\ entries[v] \in 0..next_generation
                             /\ endpoint_lease[v] \in 0..next_generation
                             /\ identity_lease[v] \in 0..next_generation
        /\ 0 \in 0..next_generation
    BY OriginsAssumption DEF Typed, TypeInv, GenerationInv, Generations
  <1>2. ASSUME TaskInv', Only(t), task'[t].pc \notin Prep,
               UNCHANGED <<next_generation, attempts>>,
               \A v \in Routes : /\ entries'[v] \in 0..next_generation
                                 /\ endpoint_lease'[v] \in 0..next_generation
                                 /\ identity_lease'[v] \in 0..next_generation
        PROVE  TaskInv' /\ GenerationInv'
    BY <1>0, <1>2, OneMoves, GenerationFrame
  <1>3. CASE ReleaseNow(t)
    <2>1. UNCHANGED <<attempts, endpoint_lease, identity_lease>>
      BY <1>3 DEF ReleaseNow, routeVars
    <2>2. \A v \in Routes : entries'[v] \in 0..next_generation
      BY <1>0, <1>1, <1>3, ReleaseNowEffect, RemovalGenerations
    <2>3. TaskInv' /\ Only(t) /\ task'[t].pc \notin Prep /\ UNCHANGED next_generation
      BY <1>3, ReleaseNowEffect DEF Prep
    <2> QED
      BY <1>1, <1>2, <2>1, <2>2, <2>3
  <1>4. CASE Released(t) \/ ReleaseFails(t)
    <2>1. /\ UNCHANGED <<next_generation, attempts, endpoint_lease, identity_lease>>
          /\ task[t].pc = "releasing" /\ NextRelease(t)
      BY <1>4 DEF Released, ReleaseFails, routeVars
    <2>2. \A v \in Routes : entries'[v] \in 0..next_generation
      BY <1>0, <1>1, <1>4, RemovalGenerations DEF Released, ReleaseFails
    <2>3. TaskInv' /\ Only(t) /\ task'[t].pc \notin Prep
      BY <2>1, NextReleaseEffect DEF Prep
    <2> QED
      BY <1>1, <1>2, <2>1, <2>2, <2>3
  <1>5. CASE TakeEndpoint(t)
    <2>1. /\ UNCHANGED <<next_generation, attempts, entries, identity_lease>>
          /\ endpoint_lease' = [endpoint_lease EXCEPT ![RouteOf(t)] = 0]
      BY <1>5 DEF TakeEndpoint, budgetVars
    <2>2. \A v \in Routes : endpoint_lease'[v] \in 0..next_generation
      BY <1>0, <1>1, <2>1 DEF Typed, TypeInv
    <2> QED
      BY <1>1, <1>2, <1>5, <2>1, <2>2, TakeEndpointEffect DEF Prep
  <1>6. CASE TakeIdentity(t)
    <2>1. /\ UNCHANGED <<next_generation, attempts, entries, endpoint_lease>>
          /\ identity_lease' = [identity_lease EXCEPT ![RouteOf(t)] = 0]
      BY <1>6 DEF TakeIdentity, budgetVars
    <2>2. \A v \in Routes : identity_lease'[v] \in 0..next_generation
      BY <1>0, <1>1, <2>1 DEF Typed, TypeInv
    <2> QED
      BY <1>1, <1>2, <1>6, <2>1, <2>2, TakeIdentityEffect DEF Prep
  <1>7. CASE InvalidateAndRelease(t)
    <2>1. UNCHANGED <<next_generation, attempts, entries, endpoint_lease, identity_lease>>
      BY <1>7 DEF InvalidateAndRelease, budgetVars
    <2> QED
      BY <1>1, <1>2, <1>7, <2>1, InvalidateEffect DEF Prep
  <1> QED
    BY <1>3, <1>4, <1>5, <1>6, <1>7 DEF CleanUpStep

-------------------------------------------------------------------------------
(***************************************************************************)
(* The mutex and the entries                                               *)
(***************************************************************************)

\* What the budget relies on.
BudgetInv == MutexInv /\ EntryInv

\* Entries that go make room.
LEMMA FewerHolders ==
    ASSUME Typed, EntryInv, \A r \in Routes : entries'[r] \in {0, entries[r]}
    PROVE  (\A o \in Origins : Cardinality(Holders(o)) <= Limit)'
  <1> SUFFICES ASSUME NEW o \in Origins PROVE Cardinality(Holders(o)') <= Limit
    OBVIOUS
  <1>1. Holders(o)' \subseteq Holders(o) /\ Holders(o) \subseteq Routes
    BY DEF Holders, Entries
  <1>2. IsFiniteSet(Holders(o))
    BY <1>1, FS_Subset, OriginsAssumption
  <1>3. /\ Cardinality(Holders(o)') <= Cardinality(Holders(o)) /\ Cardinality(Holders(o)) \in Nat
        /\ Cardinality(Holders(o)') \in Nat
    BY <1>1, <1>2, FS_Subset, FS_CardinalityType
  <1>4. Cardinality(Holders(o)) <= Limit /\ Limit \in Nat
    BY LimitAssumption DEF EntryInv, CountInv
  <1> QED
    BY <1>3, <1>4

\* The entry of a lease whose release was begun may go.
LEMMA RemovalKeeps ==
    ASSUME Typed, EntryInv, NEW v \in Routes, NEW g \in 1..next_generation, release_started[g],
           entries' = RemoveMatchingEntry(v, g), UNCHANGED <<next_generation, release_started>>,
           active' = active \/ active' = [active EXCEPT ![g] = FALSE]
    PROVE  FlagsInv' /\ CountInv'
  <1>1. \A r \in Routes : entries'[r] = IF r = v /\ entries[r] = g THEN 0 ELSE entries[r]
    BY EntryRemoval DEF Typed
  <1>2. g \in Generations /\ ~active[g] /\ g # 0 /\ 1..next_generation \subseteq Generations
    BY OriginsAssumption DEF Typed, TypeInv, Generations, EntryInv, FlagsInv
  <1>3. ASSUME NEW h \in Generations PROVE active'[h] <=> active[h]
    <2>1. CASE h = g /\ active' = [active EXCEPT ![g] = FALSE]
      <3>1. active'[g] = FALSE
        BY <1>2, <2>1 DEF Typed, TypeInv
      <3> QED
        BY <1>2, <2>1, <3>1
    <2>2. CASE h # g /\ active' = [active EXCEPT ![g] = FALSE]
      BY <2>2 DEF Typed, TypeInv
    <2> QED
      BY <2>1, <2>2
  <1>4. FlagsInv'
    BY <1>1, <1>3 DEF EntryInv, FlagsInv
  <1>5. (\A o \in Origins : Cardinality(Holders(o)) <= Limit)'
    BY <1>1, FewerHolders
  <1>6. ASSUME NEW h \in 1..next_generation, active[h] \/ ~release_started[h]
        PROVE  \E r \in Routes : entries'[r] = h
    <2>1. h # g
      BY <1>2, <1>6
    <2>2. PICK r \in Routes : entries[r] = h
      BY <1>6 DEF EntryInv, CountInv, HeldLeasesAreCounted
    <2> QED
      BY <1>1, <2>1, <2>2
  <1>7. HeldLeasesAreCounted'
    BY <1>2, <1>3, <1>6 DEF HeldLeasesAreCounted
  <1> QED
    BY <1>4, <1>5, <1>7 DEF CountInv

\* A release begins: the lease is an entry.
LEMMA BeginKeeps ==
    ASSUME Typed, EntryInv, NEW t, NEW v, NEW where, NEW g \in 1..next_generation,
           BeginRelease(t, v, g, where), UNCHANGED <<next_generation, entries>>
    PROVE  /\ FlagsInv' /\ CountInv' /\ release_started'[g]
           /\ \E r \in Routes : entries'[r] = g
  <1>1. /\ ~release_started[g] /\ release_started' = [release_started EXCEPT ![g] = TRUE]
        /\ active' = [active EXCEPT ![g] = FALSE]
    BY DEF BeginRelease
  <1>2. g \in Generations /\ 1..next_generation \subseteq Generations
    BY OriginsAssumption DEF Typed, TypeInv, Generations
  <1>3. /\ ~active'[g] /\ release_started'[g]
        /\ \A h \in Generations : h # g => active'[h] = active[h] /\ release_started'[h] = release_started[h]
    BY <1>1, <1>2 DEF Typed, TypeInv
  <1>4. ~(g > next_generation)
    BY OriginsAssumption DEF Typed, TypeInv, Generations
  <1>5. FlagsInv'
    BY <1>3, <1>4 DEF EntryInv, FlagsInv
  <1>6. (\A o \in Origins : Cardinality(Holders(o)) <= Limit)'
    BY FewerHolders
  <1>7. HeldLeasesAreCounted'
    BY <1>2, <1>3 DEF EntryInv, CountInv, HeldLeasesAreCounted
  <1>8. \E r \in Routes : entries'[r] = g
    BY <1>1 DEF EntryInv, CountInv, HeldLeasesAreCounted
  <1> QED
    BY <1>3, <1>5, <1>6, <1>7, <1>8 DEF CountInv

\* A release fails: the entry is there for the next one.
LEMMA FailureKeeps ==
    ASSUME Typed, EntryInv, NEW g \in 1..next_generation, \E r \in Routes : entries[r] = g,
           release_started' = [release_started EXCEPT ![g] = FALSE],
           UNCHANGED <<next_generation, entries, active>>
    PROVE  FlagsInv' /\ CountInv'
  <1>1. g \in Generations /\ 1..next_generation \subseteq Generations
    BY OriginsAssumption DEF Typed, TypeInv, Generations
  <1>2. /\ ~release_started'[g]
        /\ \A h \in Generations : h # g => release_started'[h] = release_started[h]
    BY <1>1 DEF Typed, TypeInv
  <1>3. FlagsInv'
    BY <1>2 DEF EntryInv, FlagsInv
  <1>4. (\A o \in Origins : Cardinality(Holders(o)) <= Limit)'
    BY FewerHolders
  <1>5. HeldLeasesAreCounted'
    BY <1>1, <1>2 DEF EntryInv, CountInv, HeldLeasesAreCounted
  <1> QED
    BY <1>3, <1>4, <1>5 DEF CountInv

\* A lease is granted where no origin is saturated.
LEMMA GrantKeeps ==
    ASSUME Typed, EntryInv, NEW r \in Routes, Grant(r)
    PROVE  FlagsInv' /\ CountInv'
  <1> DEFINE g == next_generation + 1
  <1>1. /\ next_generation' = g /\ g \in Generations /\ next_generation \in Nat
    BY GrantEffect
  <1>2. /\ entries' = [entries EXCEPT ![r] = g] /\ active' = [active EXCEPT ![g] = TRUE]
        /\ UNCHANGED release_started /\ Saturated(r) = {} /\ task[Setup(r)].pc = "evict"
    BY DEF Grant
  <1>3. /\ entries[r] = 0 /\ g # 0
        /\ entries'[r] = g /\ \A v \in Routes : v # r => entries'[v] = entries[v]
        /\ active'[g] /\ \A h \in Generations : h # g => active'[h] = active[h]
        /\ \A v \in Routes : entries[v] # g
    BY <1>1, <1>2 DEF EntryInv, RoomInv, Typed, TypeInv, GenerationInv
  <1>4. ~release_started[g] /\ ~active[g] /\ \A h \in Generations : h > g => h > next_generation /\ h # g
    BY <1>1 DEF EntryInv, FlagsInv, Generations
  <1>5. FlagsInv'
    BY <1>1, <1>2, <1>3, <1>4 DEF EntryInv, FlagsInv
  <1>6. ASSUME NEW o \in Origins PROVE Cardinality(Holders(o)') <= Limit
    <2>1. IsFiniteSet(Holders(o)) /\ Cardinality(Holders(o)) <= Limit /\ Cardinality(Holders(o)) \in Nat
      BY FS_Subset, FS_CardinalityType, OriginsAssumption DEF Holders, Entries, EntryInv, CountInv
    <2>2. CASE o \notin OriginsOf[r]
      <3>1. Holders(o)' = Holders(o)
        BY <1>3, <2>2 DEF Holders, Entries
      <3> QED
        BY <2>1, <3>1
    <2>3. CASE o \in OriginsOf[r]
      <3>1. Holders(o)' = Holders(o) \cup {r} /\ r \notin Holders(o)
        BY <1>3, <2>3 DEF Holders, Entries
      <3>2. Cardinality(Holders(o)') = Cardinality(Holders(o)) + 1
        BY <2>1, <3>1, FS_AddElement
      <3>3. ~(Cardinality(Holders(o)) >= Limit) /\ Limit \in Nat
        BY <1>2, <2>3, LimitAssumption DEF Saturated
      <3> QED
        BY <2>1, <3>2, <3>3
    <2> QED
      BY <2>2, <2>3
  <1>7. ASSUME NEW h \in 1..g, active'[h] \/ ~release_started[h]
        PROVE  \E v \in Routes : entries'[v] = h
    <2>1. CASE h = g
      BY <1>3, <2>1
    <2>2. CASE h # g
      <3>1. h \in 1..next_generation /\ h \in Generations
        BY <1>1, <2>2, OriginsAssumption DEF Generations
      <3>2. PICK v \in Routes : entries[v] = h
        BY <1>3, <1>7, <2>2, <3>1 DEF EntryInv, CountInv, HeldLeasesAreCounted
      <3>3. v # r
        BY <1>3, <3>1, <3>2
      <3> QED
        BY <1>3, <3>2, <3>3
    <2> QED
      BY <2>1, <2>2
  <1>8. HeldLeasesAreCounted'
    BY <1>1, <1>2, <1>7 DEF HeldLeasesAreCounted
  <1> QED
    BY <1>5, <1>6, <1>8 DEF CountInv

\* Nobody who is inside a section of the mutex moves.
LEMMA QuietBudget ==
    ASSUME Typed, BudgetInv, UNCHANGED budgetVars, Quiet
    PROVE  BudgetInv'
  <1>1. UNCHANGED <<entries, next_generation, active, release_started, admission>>
    BY DEF budgetVars
  <1>2. MutexInv'
    BY <1>1 DEF BudgetInv, MutexInv, Quiet
  <1>3. FlagsInv' /\ CountInv'
    BY <1>1 DEF BudgetInv, EntryInv, FlagsInv, CountInv, HeldLeasesAreCounted, Holders, Entries
  <1>4. \A t \in Tasks : AwaitInv(t)'
    BY <1>1 DEF BudgetInv, EntryInv, AwaitInv, Quiet, Held
  <1>5. \A r \in Routes : RoomInv(r)'
    BY <1>1, TaskNames DEF BudgetInv, EntryInv, RoomInv, Quiet, Held
  <1> QED
    BY <1>2, <1>3, <1>4, <1>5 DEF BudgetInv, EntryInv

\* One task moves, outside the sections of the mutex.
LEMMA QuietOne ==
    ASSUME NEW t \in Tasks, Only(t), task[t].pc \notin Held, task'[t].pc \notin Held
    PROVE  Quiet
  BY DEF Only, Quiet

\* One task moves, and nobody else is inside a section of the mutex.
LEMMA AloneBudget ==
    ASSUME Typed, BudgetInv, NEW t \in Tasks, Only(t), admission \in {Nobody, t},
           admission' = IF task'[t].pc \in Held THEN t ELSE Nobody,
           FlagsInv', CountInv', AwaitInv(t)',
           \A r \in Routes : t = Setup(r) => RoomInv(r)'
    PROVE  BudgetInv'
  <1>1. \A s \in Tasks : s # t => task'[s].pc \notin Held /\ admission' # s
    BY TaskNames DEF BudgetInv, MutexInv, Only
  <1>2. MutexInv'
    BY <1>1, TaskNames DEF MutexInv
  <1>3. \A s \in Tasks : AwaitInv(s)'
    BY <1>1 DEF AwaitInv, Held
  <1>4. \A r \in Routes : RoomInv(r)'
    BY <1>1, TaskNames DEF RoomInv, Held
  <1> QED
    BY <1>2, <1>3, <1>4 DEF BudgetInv, EntryInv

\* A task lets go of the mutex, if it has it, and the budget stays as it is.
LEMMA LetsGo ==
    ASSUME Typed, BudgetInv, NEW t \in Tasks, Only(t), task'[t].pc \notin Held,
           admission' = Unlocked(t), UNCHANGED <<entries, next_generation, active, release_started>>
    PROVE  BudgetInv'
  <1>1. CASE admission = t
    <2>1. FlagsInv' /\ CountInv'
      BY DEF BudgetInv, EntryInv, FlagsInv, CountInv, HeldLeasesAreCounted, Holders, Entries
    <2>2. AwaitInv(t)' /\ \A r \in Routes : t = Setup(r) => RoomInv(r)'
      BY DEF AwaitInv, RoomInv, Held
    <2> QED
      BY <1>1, <2>1, <2>2, AloneBudget DEF Unlocked
  <1>2. CASE admission # t
    <2>1. UNCHANGED budgetVars /\ Quiet
      BY <1>2, QuietOne DEF Unlocked, budgetVars, BudgetInv, MutexInv
    <2> QED
      BY <2>1, QuietBudget
  <1> QED
    BY <1>1, <1>2

\* A setup keeps the mutex and the budget.
LEMMA SetupBudget ==
    ASSUME Typed, BudgetInv, NEW r \in Routes, SetupStep(r)
    PROVE  BudgetInv'
  <1> DEFINE t == Setup(r)
  <1>0. t \in Tasks /\ TaskInv' /\ TypeInv' /\ EntryInv /\ MutexInv
    BY TaskNames, SetupGenerations, SetupTypes DEF BudgetInv
  <1>1. ASSUME Finish(r), UNCHANGED budgetVars, task[t].pc \notin Held PROVE BudgetInv'
    <2>1. Quiet
      BY <1>1, FinishEffect DEF Quiet, Held, budgetVars
    <2> QED
      BY <1>1, <2>1, QuietBudget
  <1>2. ASSUME UNCHANGED budgetVars, Only(t), task[t].pc \notin Held, task'[t].pc \notin Held
        PROVE  BudgetInv'
    BY <1>0, <1>2, QuietOne, QuietBudget
  <1>3. CASE Enter(r)
    <2>1. UNCHANGED budgetVars /\ task[t].pc \notin Held
      BY <1>3 DEF Enter, Held
    <2> QED
      BY <1>1, <1>2, <1>3, <2>1, EnterEffect DEF Held
  <1>4. CASE Reserve(r)
    <2>1. task[t].pc \notin Held /\ admission = Nobody
      BY <1>4 DEF Reserve, Held
    <2>2. CASE task'[t].pc = "set_identity" /\ UNCHANGED budgetVars
      BY <1>2, <1>4, <2>1, <2>2, ReserveEffect DEF Held
    <2>3. CASE /\ task'[t].pc = "evict" /\ admission' = t
               /\ UNCHANGED <<active, release_started, next_generation>>
               /\ \/ entries[r] = 0 /\ UNCHANGED entries
                  \/ release_started[entries[r]] /\ entries' = [entries EXCEPT ![r] = 0]
      <3>1. entries'[r] = 0
        BY <1>0, <2>3 DEF Typed, TypeInv
      <3>2. FlagsInv' /\ CountInv'
        <4>1. CASE UNCHANGED entries
          BY <1>0, <2>3, <4>1 DEF EntryInv, FlagsInv, CountInv, HeldLeasesAreCounted, Holders, Entries
        <4>2. CASE ~(UNCHANGED entries)
          <5>1. PICK g : g = entries[r]
            OBVIOUS
          <5>2. g # 0
            BY <2>3, <4>2, <5>1 DEF Typed, TypeInv
          <5>3. g \in 1..next_generation /\ release_started[g] /\ entries' = RemoveMatchingEntry(r, g)
            BY <2>3, <4>2, <5>1, <5>2, OriginsAssumption
               DEF RemoveMatchingEntry, Typed, TypeInv, GenerationInv, Generations
          <5> QED
            BY <1>0, <2>3, <5>3, RemovalKeeps
        <4> QED
          BY <4>1, <4>2
      <3>3. AwaitInv(t)' /\ \A v \in Routes : t = Setup(v) => RoomInv(v)'
        BY <2>3, <3>1, TaskNames DEF AwaitInv, RoomInv
      <3> QED
        BY <1>0, <1>4, <2>1, <2>3, <3>2, <3>3, ReserveEffect, AloneBudget DEF Held
    <2>4. CASE /\ entries[r] \in 1..next_generation /\ UNCHANGED <<entries, next_generation>>
               /\ BeginRelease(t, r, entries[r], "evicting")
               /\ task'[t].pc = "evicting" /\ task'[t].releasing = entries[r]
      <3>1. PICK g : g = entries[r]
        OBVIOUS
      <3>2. /\ FlagsInv' /\ CountInv' /\ release_started'[g]
            /\ \E v \in Routes : entries'[v] = g
        BY <1>0, <2>4, <3>1, BeginKeeps
      <3>3. AwaitInv(t)' /\ \A v \in Routes : t = Setup(v) => RoomInv(v)'
        BY <2>4, <3>1, <3>2, TaskNames DEF AwaitInv, RoomInv
      <3>4. admission' = t
        BY <2>4 DEF BeginRelease
      <3> QED
        BY <1>0, <1>4, <2>1, <2>4, <3>2, <3>3, <3>4, ReserveEffect, AloneBudget DEF Held
    <2> QED
      BY <1>4, <2>2, <2>3, <2>4, ReserveEffect
  <1>5. CASE Grant(r)
    <2>1. task[t].pc \in Held /\ admission' = Nobody
      BY <1>5 DEF Grant, Held
    <2>2. Only(t) /\ task'[t].pc = "set_identity"
      BY <1>5, GrantEffect
    <2>3. AwaitInv(t)' /\ \A v \in Routes : t = Setup(v) => RoomInv(v)'
      BY <2>2, TaskNames DEF AwaitInv, RoomInv
    <2>4. admission = t
      BY <1>0, <2>1 DEF MutexInv
    <2> QED
      BY <1>0, <1>5, <2>1, <2>2, <2>3, <2>4, GrantKeeps, AloneBudget DEF Held
  <1>6. CASE Evict(r)
    <2>1. task[t].pc = "evict" /\ admission = t /\ entries[r] = 0
      BY <1>0, <1>6 DEF Evict, MutexInv, Held, EntryInv, RoomInv
    <2>2. PICK v \in Routes : /\ v # r /\ entries[v] \in 1..next_generation
             /\ UNCHANGED next_generation /\ Only(t)
             /\ \/ /\ release_started[entries[v]] /\ entries' = [entries EXCEPT ![v] = 0]
                   /\ UNCHANGED <<active, release_started, admission, served, task>>
                \/ /\ BeginRelease(t, v, entries[v], "evicting") /\ UNCHANGED entries
                   /\ task'[t].pc = "evicting" /\ task'[t].releasing = entries[v]
      BY <1>6, EvictEffect
    <2>3. PICK g : g = entries[v]
      OBVIOUS
    <2>4. CASE /\ release_started[entries[v]] /\ entries' = [entries EXCEPT ![v] = 0]
               /\ UNCHANGED <<active, release_started, admission, served, task>>
      <3>1. entries' = RemoveMatchingEntry(v, g)
        BY <2>3, <2>4 DEF RemoveMatchingEntry
      <3>2. FlagsInv' /\ CountInv'
        BY <1>0, <2>2, <2>3, <2>4, <3>1, RemovalKeeps
      <3>3. AwaitInv(t)' /\ \A x \in Routes : t = Setup(x) => RoomInv(x)'
        BY <2>1, <2>2, <2>4, TaskNames DEF AwaitInv, RoomInv, Typed, TypeInv
      <3> QED
        BY <1>0, <2>1, <2>2, <2>4, <3>2, <3>3, AloneBudget DEF Held
    <2>5. CASE /\ BeginRelease(t, v, entries[v], "evicting") /\ UNCHANGED entries
               /\ task'[t].pc = "evicting" /\ task'[t].releasing = entries[v]
      <3>1. /\ FlagsInv' /\ CountInv' /\ release_started'[g]
            /\ \E x \in Routes : entries'[x] = g
        BY <1>0, <2>2, <2>3, <2>5, BeginKeeps
      <3>2. AwaitInv(t)' /\ \A x \in Routes : t = Setup(x) => RoomInv(x)'
        BY <2>1, <2>3, <2>5, <3>1, TaskNames DEF AwaitInv, RoomInv
      <3>3. admission' = t
        BY <2>5 DEF BeginRelease
      <3> QED
        BY <1>0, <2>1, <2>2, <2>5, <3>1, <3>2, <3>3, AloneBudget DEF Held
    <2> QED
      BY <2>2, <2>4, <2>5
  <1>7. CASE Evicted(r)
    <2>1. /\ task[t].pc = "evicting" /\ admission = t /\ UNCHANGED <<admission, next_generation, active, release_started>>
      BY <1>0, <1>7 DEF Evicted, MutexInv, Held
    <2>2. PICK g : g = task[t].releasing
      OBVIOUS
    <2>3. /\ g \in 1..next_generation /\ release_started[g] /\ entries[r] \in {0, g}
      BY <1>0, <2>1, <2>2 DEF Typed, TaskInv, TaskOK, EntryInv, AwaitInv, RoomInv
    <2>4. PICK v \in Routes : entries[v] = g /\ entries' = RemoveMatchingEntry(v, g)
      BY <1>7, <2>2 DEF Evicted, Victims
    <2>5. FlagsInv' /\ CountInv'
      BY <1>0, <2>1, <2>3, <2>4, RemovalKeeps
    <2>6. g # 0 /\ (entries[r] = g => r = v)
      BY <1>0, <2>3, <2>4 DEF EntryInv, FlagsInv
    <2>7. entries'[r] = 0
      BY <2>3, <2>4, <2>6, EntryRemoval DEF Typed
    <2>8. Only(t) /\ task'[t].pc = "evict"
      BY <1>7, EvictedEffect
    <2>9. AwaitInv(t)' /\ \A x \in Routes : t = Setup(x) => RoomInv(x)'
      BY <2>7, <2>8, TaskNames DEF AwaitInv, RoomInv
    <2> QED
      BY <1>0, <2>1, <2>5, <2>8, <2>9, AloneBudget DEF Held
  <1>8. CASE EvictionFails(r)
    <2>1. /\ task[t].pc = "evicting" /\ admission = t /\ admission' = Nobody
          /\ UNCHANGED <<next_generation, active, entries>>
          /\ task' = [task EXCEPT ![t] = CleanUp("failed")]
      BY <1>0, <1>8 DEF EvictionFails, MutexInv, Held
    <2>2. PICK g : g = task[t].releasing
      OBVIOUS
    <2>3. g \in 1..next_generation /\ \E v \in Routes : entries[v] = g
      BY <1>0, <2>1, <2>2 DEF Typed, TaskInv, TaskOK, EntryInv, AwaitInv
    <2>4. release_started' = [release_started EXCEPT ![g] = FALSE]
      BY <1>8, <2>2 DEF EvictionFails
    <2>5. FlagsInv' /\ CountInv'
      BY <1>0, <2>1, <2>3, <2>4, FailureKeeps
    <2>6. Only(t) /\ task'[t].pc = "take_endpoint"
      BY <1>0, <2>1, CleanUpEffect
    <2>7. AwaitInv(t)' /\ \A x \in Routes : t = Setup(x) => RoomInv(x)'
      BY <2>6, TaskNames DEF AwaitInv, RoomInv
    <2> QED
      BY <1>0, <2>1, <2>5, <2>6, <2>7, AloneBudget DEF Held
  <1>9. CASE SetIdentityLease(r)
    BY <1>2, <1>9, SetIdentityEffect DEF SetIdentityLease, Held
  <1>10. CASE TicketIssued(r)
    <2>1. UNCHANGED budgetVars /\ task[t].pc \notin Held /\ Goto(t, "check_retired") /\ UNCHANGED next_generation
      BY <1>10 DEF TicketIssued, Held, budgetVars
    <2>2. Only(t) /\ task'[t].pc \notin Held
      BY <1>0, <2>1, GotoEffect DEF Held
    <2> QED
      BY <1>2, <2>1, <2>2
  <1>11. CASE TicketUnavailable(r)
    BY <1>2, <1>11, TicketUnavailableEffect DEF TicketUnavailable, Held
  <1>12. CASE CheckRetired(r)
    BY <1>2, <1>12, CheckRetiredEffect DEF CheckRetired, Held
  <1>13. CASE Install(r)
    BY <1>2, <1>13, InstallEffect DEF Install, Held
  <1>14. CASE Connect(r) \/ SetupFailed(r)
    BY <1>1, <1>14 DEF Connect, SetupFailed, Held
  <1>15. CASE SetupFails(r)
    <2>1. /\ admission' = Unlocked(t) /\ task' = [task EXCEPT ![t] = CleanUp("failed")]
          /\ UNCHANGED <<entries, next_generation, active, release_started>>
      BY <1>15 DEF SetupFails, Dropped
    <2>2. Only(t) /\ task'[t].pc \notin Held
      BY <1>0, <2>1, CleanUpEffect DEF Held
    <2> QED
      BY <1>0, <2>1, <2>2, LetsGo
  <1> QED
    BY <1>3, <1>4, <1>5, <1>6, <1>7, <1>8, <1>9, <1>10, <1>11, <1>12, <1>13, <1>14, <1>15 DEF SetupStep

\* Callers and retirements keep the mutex and the budget: a retirement that begins
\* was idle, hence did not hold the mutex.
LEMMA OtherBudget ==
    ASSUME Typed, BudgetInv, NEW r \in Routes, CallerStep(r) \/ RouteStep(r),
           ~retired[r] => task[Retirement(r)].pc = "idle"
    PROVE  BudgetInv'
  <1>0. Caller(r) \in Tasks /\ Retirement(r) \in Tasks
    BY TaskNames
  <1>1. ASSUME NEW t \in Tasks, UNCHANGED budgetVars, Only(t), task[t].pc \notin Held, task'[t].pc \notin Held
        PROVE  BudgetInv'
    BY <1>1, QuietOne, QuietBudget
  <1>2. CASE Call(r)
    BY <1>0, <1>1, <1>2, CallEffect DEF Call, Held
  <1>3. CASE Lookup(r)
    <2>1. UNCHANGED budgetVars /\ task[Caller(r)].pc \notin Held
      BY <1>3 DEF Lookup, Held
    <2>2. Quiet
      BY <1>3, <2>1, LookupEffect DEF Quiet, Held
    <2> QED
      BY <2>1, <2>2, QuietBudget
  <1>4. CASE CancelCaller(r)
    <2>1. /\ admission' = Unlocked(Caller(r)) /\ task' = [task EXCEPT ![Caller(r)] = IdleTask]
          /\ UNCHANGED <<entries, next_generation, active, release_started>>
      BY <1>4 DEF CancelCaller, Dropped
    <2>2. Only(Caller(r)) /\ task'[Caller(r)].pc \notin Held
      BY <1>0, <2>1, IdleEffect DEF Held
    <2> QED
      BY <1>0, <2>1, <2>2, LetsGo
  <1>5. CASE Retire(r)
    <2>1. /\ UNCHANGED <<budgetVars, next_generation>> /\ task' = [task EXCEPT ![Retirement(r)] = CleanUp("idle")]
          /\ task[Retirement(r)].pc = "idle"
      BY <1>5 DEF Retire, budgetVars
    <2>2. Only(Retirement(r)) /\ task'[Retirement(r)].pc = "take_endpoint"
      BY <1>0, <2>1, CleanUpEffect
    <2> QED
      BY <1>0, <1>1, <2>1, <2>2 DEF Held
  <1>6. CASE RefreshDue(r) \/ Refresh(r) \/ Invalidate(r) \/ Expire(r)
    <2>1. UNCHANGED <<budgetVars, task>>
      BY <1>6 DEF RefreshDue, Refresh, Invalidate, Expire
    <2> QED
      BY <2>1, QuietBudget DEF Quiet
  <1> QED
    BY <1>2, <1>3, <1>4, <1>5, <1>6 DEF CallerStep, RouteStep

\* A clean-up keeps the mutex and the budget.
LEMMA CleanUpBudget ==
    ASSUME Typed, BudgetInv, NEW t \in Tasks, CleanUpStep(t)
    PROVE  BudgetInv'
  <1>0. RouteOf(t) \in Routes /\ EntryInv /\ MutexInv
    BY TaskNames DEF BudgetInv
  <1>1. ASSUME UNCHANGED budgetVars, Only(t), task[t].pc \notin Held, task'[t].pc \notin Held
        PROVE  BudgetInv'
    BY <1>1, QuietOne, QuietBudget
  <1>2. CASE ReleaseNow(t)
    <2>1. PICK g \in 1..next_generation :
            /\ task[t].pc = "release" /\ admission = Nobody /\ UNCHANGED next_generation /\ Only(t)
            /\ \/ /\ release_started[g] /\ active' = [active EXCEPT ![g] = FALSE]
                  /\ entries' = RemoveMatchingEntry(RouteOf(t), g)
                  /\ UNCHANGED <<release_started, admission>>
                  /\ task'[t].pc \in {"release", "take_endpoint", "idle", "failed", "lookup", "check_retired"}
               \/ /\ BeginRelease(t, RouteOf(t), g, "releasing") /\ UNCHANGED entries
                  /\ task'[t].pc = "releasing" /\ task'[t].releasing = g
      BY <1>2, ReleaseNowEffect
    <2>2. CASE /\ release_started[g] /\ active' = [active EXCEPT ![g] = FALSE]
               /\ entries' = RemoveMatchingEntry(RouteOf(t), g)
               /\ UNCHANGED <<release_started, admission>>
               /\ task'[t].pc \in {"release", "take_endpoint", "idle", "failed", "lookup", "check_retired"}
      <3>1. FlagsInv' /\ CountInv'
        BY <1>0, <2>1, <2>2, RemovalKeeps
      <3>2. AwaitInv(t)' /\ \A v \in Routes : t = Setup(v) => RoomInv(v)'
        BY <2>2 DEF AwaitInv, RoomInv
      <3> QED
        BY <2>1, <2>2, <3>1, <3>2, AloneBudget DEF Held
    <2>3. CASE /\ BeginRelease(t, RouteOf(t), g, "releasing") /\ UNCHANGED entries
               /\ task'[t].pc = "releasing" /\ task'[t].releasing = g
      <3>1. /\ FlagsInv' /\ CountInv' /\ release_started'[g]
            /\ \E v \in Routes : entries'[v] = g
        BY <1>0, <2>1, <2>3, BeginKeeps
      <3>2. AwaitInv(t)' /\ \A v \in Routes : t = Setup(v) => RoomInv(v)'
        BY <2>3, <3>1 DEF AwaitInv, RoomInv
      <3>3. admission' = t
        BY <2>3 DEF BeginRelease
      <3> QED
        BY <2>1, <2>3, <3>1, <3>2, <3>3, AloneBudget DEF Held
    <2> QED
      BY <2>1, <2>2, <2>3
  <1>3. CASE Released(t) \/ ReleaseFails(t)
    <2>1. /\ task[t].pc = "releasing" /\ admission = t /\ admission' = Nobody /\ NextRelease(t)
          /\ UNCHANGED <<next_generation, active>>
      BY <1>0, <1>3 DEF Released, ReleaseFails, MutexInv, Held
    <2>2. /\ Only(t)
          /\ task'[t].pc \in {"release", "take_endpoint", "idle", "failed", "lookup", "check_retired"}
      BY <2>1, NextReleaseEffect
    <2>3. AwaitInv(t)' /\ \A v \in Routes : t = Setup(v) => RoomInv(v)'
      BY <2>2 DEF AwaitInv, RoomInv
    <2>4. PICK g : g = task[t].releasing
      OBVIOUS
    <2>5. g \in 1..next_generation /\ release_started[g] /\ \E v \in Routes : entries[v] = g
      BY <1>0, <2>1, <2>4 DEF Typed, TaskInv, TaskOK, EntryInv, AwaitInv
    <2>6. FlagsInv' /\ CountInv'
      <3>1. CASE Released(t)
        <4>1. entries' = RemoveMatchingEntry(RouteOf(t), g) /\ UNCHANGED release_started
          BY <2>4, <3>1 DEF Released
        <4> QED
          BY <1>0, <2>1, <2>5, <4>1, RemovalKeeps
      <3>2. CASE ReleaseFails(t)
        <4>1. release_started' = [release_started EXCEPT ![g] = FALSE] /\ UNCHANGED entries
          BY <2>4, <3>2 DEF ReleaseFails
        <4> QED
          BY <1>0, <2>1, <2>5, <4>1, FailureKeeps
      <3> QED
        BY <1>3, <3>1, <3>2
    <2> QED
      BY <2>1, <2>2, <2>3, <2>6, AloneBudget DEF Held
  <1>4. CASE TakeEndpoint(t)
    BY <1>1, <1>4, TakeEndpointEffect DEF TakeEndpoint, Held
  <1>5. CASE TakeIdentity(t)
    BY <1>1, <1>5, TakeIdentityEffect DEF TakeIdentity, Held
  <1>6. CASE InvalidateAndRelease(t)
    BY <1>1, <1>6, InvalidateEffect DEF InvalidateAndRelease, Held
  <1> QED
    BY <1>2, <1>3, <1>4, <1>5, <1>6 DEF CleanUpStep

-------------------------------------------------------------------------------
(***************************************************************************)
(* Retirement                                                              *)
(***************************************************************************)

\* A setup keeps what RetireInv says: it installs nothing in a retired route.
LEMMA SetupRetires ==
    ASSUME Typed, RetireInv, NEW r \in Routes, SetupStep(r)
    PROVE  RetireInv'
  <1> DEFINE t == Setup(r)
  <1>0. t \in Tasks
    BY TaskNames
  <1>1. ASSUME \A v \in Routes : task'[Retirement(v)] = task[Retirement(v)],
               \A v \in Routes : v # r => task'[Setup(v)] = task[Setup(v)],
               UNCHANGED <<retired, endpoint, identity_lease>>,
               retired[r] /\ identity_lease[r] # 0 /\ SetupWillTake(r) => SetupWillTake(r)'
        PROVE  RetireInv'
    BY <1>1 DEF RetireInv, SetupWillTake
  <1>2. ASSUME Only(t)
        PROVE  /\ \A v \in Routes : task'[Retirement(v)] = task[Retirement(v)]
               /\ \A v \in Routes : v # r => task'[Setup(v)] = task[Setup(v)]
    BY <1>2, TaskNames DEF Only
  <1>3. ASSUME Finish(r), UNCHANGED <<next_generation, retired, endpoint, identity_lease>>, ~SetupWillTake(r)
        PROVE  RetireInv'
    <2>1. /\ \A v \in Routes : task'[Retirement(v)] = task[Retirement(v)]
          /\ \A v \in Routes : v # r => task'[Setup(v)] = task[Setup(v)]
      BY <1>3, FinishEffect, TaskNames
    <2> QED
      BY <1>1, <1>3, <2>1
  <1>4. ASSUME Only(t), UNCHANGED <<retired, endpoint, identity_lease>>,
               ~SetupWillTake(r) \/ SetupWillTake(r)'
        PROVE  RetireInv'
    BY <1>1, <1>2, <1>4
  <1>5. CASE Enter(r)
    <2>1. UNCHANGED <<next_generation, retired, endpoint, identity_lease>> /\ ~SetupWillTake(r)
      BY <1>5 DEF Enter, SetupWillTake, budgetVars, routeVars
    <2> QED
      BY <1>3, <1>4, <1>5, <2>1, EnterEffect
  <1>6. CASE Reserve(r)
    <2>1. UNCHANGED <<retired, endpoint, identity_lease>> /\ ~SetupWillTake(r)
      BY <1>6 DEF Reserve, SetupWillTake, routeVars
    <2> QED
      BY <1>4, <1>6, <2>1, ReserveEffect
  <1>7. CASE Grant(r)
    <2>1. UNCHANGED <<retired, endpoint, identity_lease>> /\ ~SetupWillTake(r)
      BY <1>7 DEF Grant, SetupWillTake, routeVars
    <2> QED
      BY <1>4, <1>7, <2>1, GrantEffect
  <1>8. CASE Evict(r)
    <2>1. UNCHANGED <<retired, endpoint, identity_lease>> /\ ~SetupWillTake(r)
      BY <1>8 DEF Evict, SetupWillTake, routeVars
    <2> QED
      BY <1>4, <1>8, <2>1, EvictEffect
  <1>9. CASE Evicted(r)
    <2>1. UNCHANGED <<retired, endpoint, identity_lease>> /\ ~SetupWillTake(r)
      BY <1>9 DEF Evicted, SetupWillTake, routeVars
    <2> QED
      BY <1>4, <1>9, <2>1, EvictedEffect
  <1>10. CASE EvictionFails(r) \/ SetupFails(r)
    <2>1. /\ UNCHANGED <<next_generation, retired, endpoint, identity_lease>>
          /\ task' = [task EXCEPT ![t] = CleanUp("failed")]
      BY <1>10 DEF EvictionFails, SetupFails, routeVars
    <2>2. Only(t) /\ SetupWillTake(r)'
      BY <1>0, <2>1, CleanUpEffect DEF SetupWillTake
    <2> QED
      BY <1>4, <2>1, <2>2
  <1>11. CASE SetIdentityLease(r)
    <2>1. /\ UNCHANGED <<retired, endpoint>> /\ identity_lease' = [identity_lease EXCEPT ![r] = task[t].lease]
      BY <1>11 DEF SetIdentityLease
    <2>2. Only(t) /\ SetupWillTake(r)'
      BY <1>11, SetIdentityEffect DEF SetupWillTake
    <2>3. \A v \in Routes : v # r => identity_lease'[v] = identity_lease[v]
      BY <2>1 DEF Typed, TypeInv
    <2> QED
      BY <1>2, <2>1, <2>2, <2>3 DEF RetireInv, SetupWillTake
  <1>12. CASE TicketIssued(r)
    <2>1. /\ UNCHANGED <<next_generation, retired, endpoint, identity_lease>> /\ Goto(t, "check_retired")
      BY <1>12 DEF TicketIssued, routeVars, budgetVars
    <2>2. Only(t) /\ SetupWillTake(r)'
      BY <1>0, <2>1, GotoEffect DEF SetupWillTake
    <2> QED
      BY <1>4, <2>1, <2>2
  <1>13. ASSUME Only(t), UNCHANGED <<retired, endpoint>>, identity_lease' = [identity_lease EXCEPT ![r] = 0]
         PROVE  RetireInv'
    <2>1. identity_lease'[r] = 0 /\ \A v \in Routes : v # r => identity_lease'[v] = identity_lease[v]
      BY <1>13 DEF Typed, TypeInv
    <2> QED
      BY <1>2, <1>13, <2>1 DEF RetireInv, SetupWillTake
  <1>14. CASE TicketUnavailable(r)
    BY <1>13, <1>14, TicketUnavailableEffect DEF TicketUnavailable
  <1>15. CASE CheckRetired(r)
    <2>1. UNCHANGED <<retired, endpoint, identity_lease>>
      BY <1>15 DEF CheckRetired, routeVars
    <2>2. Only(t) /\ SetupWillTake(r)'
      BY <1>15, CheckRetiredEffect DEF SetupWillTake
    <2> QED
      BY <1>4, <2>1, <2>2
  <1>16. CASE Install(r)
    <2>1. UNCHANGED retired /\ Only(t)
      BY <1>16, InstallEffect DEF Install
    <2>2. CASE UNCHANGED endpoint /\ identity_lease' = [identity_lease EXCEPT ![r] = 0]
      BY <1>13, <2>1, <2>2
    <2>3. CASE ~retired[r] /\ UNCHANGED identity_lease /\ endpoint' = [endpoint EXCEPT ![r] = TRUE]
      <3>1. \A v \in Routes : v # r => endpoint'[v] = endpoint[v]
        BY <2>3 DEF Typed, TypeInv
      <3> QED
        BY <1>2, <2>1, <2>3, <3>1 DEF RetireInv, SetupWillTake
    <2> QED
      BY <1>16, <2>2, <2>3, InstallEffect
  <1>17. CASE Connect(r) \/ SetupFailed(r)
    <2>1. Finish(r) /\ UNCHANGED <<next_generation, retired, endpoint, identity_lease>> /\ ~SetupWillTake(r)
      BY <1>17 DEF Connect, SetupFailed, SetupWillTake, routeVars, budgetVars
    <2> QED
      BY <1>3, <2>1
  <1> QED
    BY <1>5, <1>6, <1>7, <1>8, <1>9, <1>10, <1>11, <1>12, <1>14, <1>15, <1>16, <1>17 DEF SetupStep

\* A retirement that begins will look at the endpoint and at the identity.
LEMMA OtherRetires ==
    ASSUME Typed, RetireInv, NEW r \in Routes, CallerStep(r) \/ RouteStep(r)
    PROVE  RetireInv'
  <1>0. Caller(r) \in Tasks /\ Retirement(r) \in Tasks
    BY TaskNames
  <1>1. ASSUME Only(Caller(r)), UNCHANGED <<retired, endpoint, identity_lease>> PROVE RetireInv'
    <2>1. \A v \in Routes : task'[Retirement(v)] = task[Retirement(v)] /\ task'[Setup(v)] = task[Setup(v)]
      BY <1>1, TaskNames DEF Only
    <2> QED
      BY <1>1, <2>1 DEF RetireInv, SetupWillTake
  <1>2. CASE Call(r)
    BY <1>1, <1>2, CallEffect DEF Call, routeVars
  <1>3. CASE Lookup(r)
    <2>1. UNCHANGED <<retired, endpoint, identity_lease>>
      BY <1>3 DEF Lookup
    <2>2. /\ \A v \in Routes : task'[Retirement(v)] = task[Retirement(v)]
          /\ \A v \in Routes : task'[Setup(v)] = task[Setup(v)] \/ ~SetupWillTake(v)
      BY <1>3, LookupEffect, TaskNames DEF SetupWillTake
    <2> QED
      BY <2>1, <2>2 DEF RetireInv, SetupWillTake
  <1>4. CASE CancelCaller(r)
    <2>1. /\ UNCHANGED <<next_generation, retired, endpoint, identity_lease>>
          /\ task' = [task EXCEPT ![Caller(r)] = IdleTask]
      BY <1>4 DEF CancelCaller, routeVars
    <2> QED
      BY <1>0, <1>1, <2>1, IdleEffect
  <1>5. CASE Retire(r)
    <2>1. /\ UNCHANGED <<next_generation, endpoint, identity_lease>>
          /\ retired' = [retired EXCEPT ![r] = TRUE]
          /\ task' = [task EXCEPT ![Retirement(r)] = CleanUp("idle")]
      BY <1>5 DEF Retire, budgetVars
    <2>2. Only(Retirement(r)) /\ task'[Retirement(r)].pc = "take_endpoint"
      BY <1>0, <2>1, CleanUpEffect
    <2>3. retired'[r] /\ \A v \in Routes : v # r => retired'[v] = retired[v]
      BY <2>1 DEF Typed, TypeInv
    <2>4. /\ \A v \in Routes : v # r => task'[Retirement(v)] = task[Retirement(v)]
          /\ \A v \in Routes : task'[Setup(v)] = task[Setup(v)]
      BY <2>2, TaskNames DEF Only
    <2> QED
      BY <2>1, <2>2, <2>3, <2>4 DEF RetireInv, SetupWillTake
  <1>6. CASE RefreshDue(r) \/ Refresh(r) \/ Invalidate(r) \/ Expire(r)
    <2>1. UNCHANGED <<retired, endpoint, identity_lease, task>>
      BY <1>6 DEF RefreshDue, Refresh, Invalidate, Expire, routeVars
    <2> QED
      BY <2>1 DEF RetireInv, SetupWillTake
  <1> QED
    BY <1>2, <1>3, <1>4, <1>5, <1>6 DEF CallerStep, RouteStep

\* A clean-up empties what it takes.
LEMMA CleanUpRetires ==
    ASSUME Typed, RetireInv, NEW t \in Tasks, CleanUpStep(t)
    PROVE  RetireInv'
  <1> DEFINE r == RouteOf(t)
  <1>0. r \in Routes
    BY TaskNames
  <1>1. ASSUME Only(t), UNCHANGED <<retired, endpoint, identity_lease>>,
               task[t].pc \in {"release", "releasing", "invalidate"},
               task[t].pc # "invalidate" /\ task[t].then = "take_endpoint" =>
                  \/ task'[t].pc = "take_endpoint"
                  \/ task'[t].pc \in {"release", "releasing"} /\ task'[t].then = "take_endpoint"
        PROVE  RetireInv'
    <2>1. ASSUME NEW v \in Routes
          PROVE  /\ task'[Retirement(v)] = task[Retirement(v)] \/ Retirement(v) = t
                 /\ SetupWillTake(v) => SetupWillTake(v)'
      BY <1>1, TaskNames DEF Only, SetupWillTake
    <2>2. ASSUME NEW v \in Routes, Retirement(v) = t
          PROVE  task[Retirement(v)].pc \notin {"idle", "take_endpoint", "take_identity"}
      BY <1>1, <2>2
    <2> QED
      BY <1>1, <2>1, <2>2 DEF RetireInv
  <1>2. CASE ReleaseNow(t)
    <2>1. UNCHANGED <<retired, endpoint, identity_lease>>
      BY <1>2 DEF ReleaseNow, routeVars
    <2>2. /\ Only(t) /\ task[t].pc = "release"
          /\ task[t].then = "take_endpoint" =>
                \/ task'[t].pc = "take_endpoint"
                \/ task'[t].pc \in {"release", "releasing"} /\ task'[t].then = "take_endpoint"
      BY <1>2, ReleaseNowEffect
    <2> QED
      BY <1>1, <2>1, <2>2
  <1>3. CASE Released(t) \/ ReleaseFails(t)
    <2>1. /\ UNCHANGED <<next_generation, retired, endpoint, identity_lease>>
          /\ task[t].pc = "releasing" /\ NextRelease(t)
      BY <1>3 DEF Released, ReleaseFails, routeVars
    <2> QED
      BY <1>1, <2>1, NextReleaseEffect
  <1>4. CASE TakeEndpoint(t)
    <2>1. /\ UNCHANGED <<retired, identity_lease>> /\ endpoint' = [endpoint EXCEPT ![r] = FALSE]
          /\ task[t].pc = "take_endpoint"
      BY <1>4 DEF TakeEndpoint
    <2>2. Only(t) /\ task'[t].pc = "take_identity"
      BY <1>4, TakeEndpointEffect
    <2>3. endpoint'[r] = FALSE /\ \A v \in Routes : v # r => endpoint'[v] = endpoint[v]
      BY <1>0, <2>1 DEF Typed, TypeInv
    <2>4. ASSUME NEW v \in Routes, v # r
          PROVE  task'[Retirement(v)] = task[Retirement(v)] /\ task'[Setup(v)] = task[Setup(v)]
      BY <2>2, <2>4, TaskNames DEF Only
    <2>5. /\ task'[Retirement(r)] = task[Retirement(r)] \/ Retirement(r) = t
          /\ SetupWillTake(r) => SetupWillTake(r)'
      BY <1>0, <2>1, <2>2, TaskNames DEF Only, SetupWillTake
    <2> QED
      BY <1>0, <2>1, <2>2, <2>3, <2>4, <2>5 DEF RetireInv, SetupWillTake
  <1>5. CASE TakeIdentity(t)
    <2>1. /\ UNCHANGED <<retired, endpoint>> /\ identity_lease' = [identity_lease EXCEPT ![r] = 0]
          /\ task[t].pc = "take_identity"
      BY <1>5 DEF TakeIdentity
    <2>2. Only(t) /\ task'[t].pc = "invalidate"
      BY <1>5, TakeIdentityEffect
    <2>3. identity_lease'[r] = 0 /\ \A v \in Routes : v # r => identity_lease'[v] = identity_lease[v]
      BY <1>0, <2>1 DEF Typed, TypeInv
    <2>4. ASSUME NEW v \in Routes, v # r
          PROVE  task'[Retirement(v)] = task[Retirement(v)] /\ task'[Setup(v)] = task[Setup(v)]
      BY <2>2, <2>4, TaskNames DEF Only
    <2>5. task'[Retirement(r)] = task[Retirement(r)] \/ Retirement(r) = t
      BY <1>0, <2>2, TaskNames DEF Only
    <2> QED
      BY <1>0, <2>1, <2>2, <2>3, <2>4, <2>5 DEF RetireInv, SetupWillTake
  <1>6. CASE InvalidateAndRelease(t)
    <2>1. UNCHANGED <<retired, endpoint, identity_lease>> /\ task[t].pc = "invalidate"
      BY <1>6 DEF InvalidateAndRelease
    <2> QED
      BY <1>1, <1>6, <2>1, InvalidateEffect
  <1> QED
    BY <1>2, <1>3, <1>4, <1>5, <1>6 DEF CleanUpStep

-------------------------------------------------------------------------------
(***************************************************************************)
(* Who has the handles                                                     *)
(***************************************************************************)

\* The tasks of a route are its setup, its caller and its retirement.
LEMMA RouteNames ==
    /\ \A r \in Routes : RouteOf(Setup(r)) = r /\ RouteOf(Caller(r)) = r /\ RouteOf(Retirement(r)) = r
    /\ \A t \in Tasks : \A r \in Routes : RouteOf(t) # r => t # Setup(r)
  BY DEF Tasks, Kinds, Setup, Caller, Retirement, RouteOf

\* The fields of the records that tasks are set to.
LEMMA Fields ==
    /\ IdleTask.pc = "idle" /\ IdleTask.lease = 0 /\ IdleTask.todo = <<>> /\ IdleTask.answered = FALSE
    /\ \A x : /\ [IdleTask EXCEPT !.pc = x].pc = x /\ [IdleTask EXCEPT !.pc = x].lease = 0
              /\ [IdleTask EXCEPT !.pc = x].todo = <<>>
    /\ \A x : /\ CleanUp(x).pc = "take_endpoint" /\ CleanUp(x).lease = 0 /\ CleanUp(x).todo = <<>>
              /\ CleanUp(x).then = x
    /\ \A g, x : LET w == [IdleTask EXCEPT !.pc = "release", !.todo = <<g>>, !.then = x]
                 IN  w.pc = "release" /\ w.lease = 0 /\ w.todo = <<g>> /\ w.then = x
  BY DEF IdleTask, CleanUp

\* The sets of handles that the lists stand for.
LEMMA TodoSets ==
    ASSUME NEW t \in Tasks
    PROVE  /\ task[t].todo = <<>> => Todo(t) = {}
           /\ \A g : task[t].todo = <<g>> => Todo(t) = {g}
           /\ \A g, h : task[t].todo = <<g, h>> => Todo(t) = {g, h}
  <1>1. task[t].todo = <<>> => Todo(t) = {}
    BY DEF Todo
  <1>2. ASSUME NEW g, task[t].todo = <<g>> PROVE Todo(t) = {g}
    <2>1. DOMAIN task[t].todo = {1} /\ task[t].todo[1] = g
      BY <1>2
    <2> QED
      BY <2>1 DEF Todo
  <1>3. ASSUME NEW g, NEW h, task[t].todo = <<g, h>> PROVE Todo(t) = {g, h}
    <2>1. DOMAIN task[t].todo = {1, 2} /\ task[t].todo[1] = g /\ task[t].todo[2] = h
      BY <1>3
    <2> QED
      BY <2>1 DEF Todo
  <1> QED
    BY <1>1, <1>2, <1>3

\* The same after a step.
LEMMA TodoSetsNext ==
    ASSUME NEW t \in Tasks
    PROVE  /\ task'[t].todo = <<>> => Todo(t)' = {}
           /\ \A g : task'[t].todo = <<g>> => Todo(t)' = {g}
           /\ \A g, h : task'[t].todo = <<g, h>> => Todo(t)' = {g, h}
           /\ task'[t].todo = task[t].todo => Todo(t)' = Todo(t)
  <1>1. task'[t].todo = <<>> => Todo(t)' = {}
    BY DEF Todo
  <1>2. ASSUME NEW g, task'[t].todo = <<g>> PROVE Todo(t)' = {g}
    <2>1. DOMAIN task'[t].todo = {1} /\ task'[t].todo[1] = g
      BY <1>2
    <2> QED
      BY <2>1 DEF Todo
  <1>3. ASSUME NEW g, NEW h, task'[t].todo = <<g, h>> PROVE Todo(t)' = {g, h}
    <2>1. DOMAIN task'[t].todo = {1, 2} /\ task'[t].todo[1] = g /\ task'[t].todo[2] = h
      BY <1>3
    <2> QED
      BY <2>1 DEF Todo
  <1>4. task'[t].todo = task[t].todo => Todo(t)' = Todo(t)
    BY DEF Todo
  <1> QED
    BY <1>1, <1>2, <1>3, <1>4

\* One task moves, and the handles it no longer has are in a slot, abandoned, or
\* without an entry.
LEMMA HandsStay ==
    ASSUME HandInv, NEW t \in Tasks, Only(t),
           \A v \in Routes : entries'[v] \in {0, entries[v]},
           abandoned \subseteq abandoned',
           UNCHANGED <<identity_lease, endpoint_lease>>,
           Todo(t)' \subseteq Todo(t), task'[t].lease \in {0, task[t].lease},
           \A g \in Todo(t) \ Todo(t)' : g \in abandoned' \/ entries'[RouteOf(t)] # g
              \/ g \in {identity_lease[RouteOf(t)], endpoint_lease[RouteOf(t)]},
           t = Setup(RouteOf(t)) /\ task[t].pc = "set_identity" =>
              task[t].lease \in abandoned' \cup {identity_lease[RouteOf(t)], endpoint_lease[RouteOf(t)]}
    PROVE  KeptInv' /\ OwnerInv'
  <1> DEFINE r == RouteOf(t)
  <1>0. r \in Routes /\ \A v \in Routes : Setup(v) \in Tasks /\ RouteOf(Setup(v)) = v
    BY TaskNames, RouteNames
  <1>1. \A s \in Tasks : s # t => Todo(s)' = Todo(s) /\ task'[s] = task[s]
    BY DEF Only, Todo
  <1>2. OwnerInv'
    BY <1>0, <1>1 DEF HandInv, OwnerInv
  <1>3. ASSUME NEW v \in Routes
        PROVE  \/ entries'[v] \in abandoned' \cup {0, identity_lease'[v], endpoint_lease'[v]}
               \/ \E s \in Tasks : RouteOf(s) = v /\ entries'[v] \in Todo(s)'
               \/ task'[Setup(v)].pc = "set_identity" /\ task'[Setup(v)].lease = entries'[v]
    <2>1. CASE entries'[v] = 0
      BY <2>1
    <2>2. CASE entries'[v] = entries[v] /\ entries[v] \in abandoned \cup {0, identity_lease[v], endpoint_lease[v]}
      BY <2>2
    <2>3. ASSUME NEW s \in Tasks, RouteOf(s) = v, entries[v] \in Todo(s), entries'[v] = entries[v]
          PROVE  \/ entries'[v] \in abandoned' \cup {0, identity_lease'[v], endpoint_lease'[v]}
                 \/ \E x \in Tasks : RouteOf(x) = v /\ entries'[v] \in Todo(x)'
      BY <1>1, <2>3
    <2>4. CASE entries'[v] = entries[v] /\ task[Setup(v)].pc = "set_identity" /\ task[Setup(v)].lease = entries[v]
      <3>1. CASE Setup(v) = t
        BY <1>0, <2>4, <3>1
      <3>2. CASE Setup(v) # t
        BY <1>0, <1>1, <2>4, <3>2
      <3> QED
        BY <3>1, <3>2
    <2> QED
      BY <2>1, <2>2, <2>3, <2>4 DEF HandInv, KeptInv
  <1>4. KeptInv'
    BY <1>3 DEF KeptInv
  <1> QED
    BY <1>2, <1>4

\* One task moves, and it does not touch the slots.
LEMMA SlotsStay ==
    ASSUME HandInv, NEW t \in Tasks, Only(t),
           \A v \in Routes : entries'[v] \in {0, entries[v]},
           UNCHANGED <<identity_lease, endpoint_lease, endpoint>>,
           \A r \in Routes : t = Setup(r) => SlotOK(r)'
    PROVE  SlotInv'
  <1> SUFFICES ASSUME NEW r \in Routes, t # Setup(r) PROVE SlotOK(r)'
    BY DEF SlotInv
  <1>1. task'[Setup(r)] = task[Setup(r)]
    BY TaskNames DEF Only
  <1> QED
    BY <1>1 DEF HandInv, SlotInv, SlotOK, GoesOnWithout

\* One task moves and its list fits its place.
LEMMA ListsStay ==
    ASSUME HandInv, NEW t \in Tasks, Only(t), ListOK(task'[t])
    PROVE  ListInv'
  BY DEF HandInv, ListInv, Only

\* A step of a setup leaves every handle with somebody.
LEMMA SetupHands ==
    ASSUME Typed, BudgetInv, HandInv, NEW r \in Routes, SetupStep(r)
    PROVE  HandInv'
  <1> DEFINE t == Setup(r) u == task[t]
  <1>0. /\ t \in Tasks /\ RouteOf(t) = r /\ \A v \in Routes : t = Setup(v) => v = r
        /\ u \in Task /\ task = [s \in Tasks |-> task[s]] /\ FlagsInv /\ TypeInv
        /\ u.todo \in TodoLists(next_generation) /\ next_generation \in Generations
    BY TaskNames DEF Typed, TypeInv, TaskInv, TaskOK, BudgetInv, EntryInv
  <1>a. SlotOK(r) /\ ListOK(u) /\ OwnerInv /\ abandoned \subseteq Generations /\ KeptInv
    BY <1>0 DEF HandInv, SlotInv, ListInv
  \* Nothing but the place of the task changes.
  <1>1. ASSUME Only(t), UNCHANGED <<identity_lease, endpoint_lease, endpoint, abandoned>>,
               \A v \in Routes : entries'[v] \in {0, entries[v]},
               u.todo = <<>>, task'[t].todo = <<>>, task'[t].lease \in {0, u.lease},
               u.pc # "set_identity", SlotOK(r)',
               task'[t].pc \notin {"set_identity", "take_identity", "invalidate", "release", "releasing"},
               task'[t].pc = "take_endpoint" => task'[t].then = "failed"
        PROVE  HandInv'
    <2>1. Todo(t) = {} /\ Todo(t)' = {}
      BY <1>0, <1>1, TodoSets, TodoSetsNext
    <2>2. KeptInv' /\ OwnerInv'
      BY <1>0, <1>1, <2>1, HandsStay
    <2>3. SlotInv'
      BY <1>0, <1>1, SlotsStay
    <2>4. ListInv'
      BY <1>0, <1>1, ListsStay DEF ListOK
    <2> QED
      BY <1>1, <1>a, <2>2, <2>3, <2>4 DEF HandInv
  <1>2. ASSUME Finish(r), UNCHANGED <<identity_lease, endpoint_lease, endpoint, abandoned, entries>>,
               u.todo = <<>>, u.pc # "set_identity"
        PROVE  HandInv'
    <2>1. /\ task'[t] = IdleTask
          /\ \A s \in Tasks : s \notin {t, Caller(r)} => task'[s] = task[s]
          /\ task'[Caller(r)] = IF task[Caller(r)].pc = "waiting" THEN IdleTask ELSE task[Caller(r)]
      BY <1>0, <1>2, TaskNames DEF Finish
    <2>2. \A s \in Tasks : \/ task'[s] = task[s]
                           \/ task'[s] = IdleTask /\ task[s].todo = <<>> /\ task[s].pc # "set_identity"
      BY <1>2, <2>1 DEF HandInv, ListInv, ListOK
    <2>3. \A s \in Tasks : Todo(s)' = Todo(s)
      BY <2>2, Fields, TodoSets, TodoSetsNext DEF Todo
    <2>4. ListInv'
      BY <2>2, Fields DEF HandInv, ListInv, ListOK
    <2>5. SlotInv'
      BY <1>2, <2>2, Fields, TaskNames DEF HandInv, SlotInv, SlotOK, GoesOnWithout
    <2>6. OwnerInv'
      BY <1>2, <2>2, <2>3, Fields DEF HandInv, OwnerInv
    <2>7. KeptInv'
      BY <1>2, <2>2, <2>3, Fields, TaskNames DEF HandInv, KeptInv
    <2> QED
      BY <1>2, <1>a, <2>4, <2>5, <2>6, <2>7 DEF HandInv
  <1>3. CASE Enter(r)
    <2>1. /\ u.pc = "enter" /\ u.todo = <<>>
          /\ UNCHANGED <<identity_lease, endpoint_lease, endpoint, abandoned, entries>>
      BY <1>3, <1>a DEF Enter, budgetVars, routeVars, historyVars, ListOK
    <2>2. CASE Finish(r)
      BY <1>2, <2>1, <2>2
    <2>3. CASE task' = [task EXCEPT ![t] = CleanUp("failed")]
      <3>1. Only(t) /\ task'[t] = CleanUp("failed")
        BY <1>0, <2>3 DEF Only
      <3>2. SlotOK(r)'
        BY <1>a, <2>1, <3>1, Fields DEF SlotOK, GoesOnWithout
      <3> QED
        BY <1>1, <2>1, <3>1, <3>2, Fields
    <2>4. CASE task' = [task EXCEPT ![t].pc = "connect"]
      <3>1. Only(t) /\ task'[t].pc = "connect" /\ task'[t].lease = u.lease /\ task'[t].todo = u.todo
        BY <1>0, <2>4 DEF Only, Task
      <3>2. SlotOK(r)'
        BY <1>a, <2>1, <3>1 DEF SlotOK, GoesOnWithout
      <3> QED
        BY <1>1, <2>1, <3>1, <3>2
    <2>5. CASE /\ ~endpoint[r]
               /\ task' = [task EXCEPT ![t] = [@ EXCEPT !.pc = "ticket", !.lease = identity_lease[r]]]
      <3>1. Only(t) /\ task'[t].pc = "ticket" /\ task'[t].lease = identity_lease[r] /\ task'[t].todo = <<>>
        BY <1>0, <2>1, <2>5 DEF Only, Task
      <3>2. SlotOK(r)'
        BY <1>a, <2>1, <2>5, <3>1 DEF SlotOK, GoesOnWithout
      <3>3. \A s \in Tasks : Todo(s)' = Todo(s) /\ (s # t => task'[s] = task[s])
        BY <1>0, <2>1, <3>1, TodoSetsNext DEF Only
      <3>4. OwnerInv'
        BY <1>0, <1>a, <2>1, <3>1, <3>3 DEF OwnerInv
      <3>5. KeptInv'
        BY <1>0, <1>a, <2>1, <3>1, <3>3, TaskNames DEF KeptInv
      <3>6. SlotInv' /\ ListInv'
        BY <1>0, <2>1, <3>1, <3>2, SlotsStay, ListsStay DEF ListOK
      <3> QED
        BY <1>a, <2>1, <3>4, <3>5, <3>6 DEF HandInv
    <2>6. CASE ~endpoint[r] /\ Goto(t, "reserve")
      <3>1. Only(t) /\ task'[t].pc = "reserve" /\ task'[t].lease = u.lease /\ task'[t].todo = u.todo
        BY <1>0, <2>6 DEF Only, Task, Goto
      <3>2. SlotOK(r)'
        BY <1>a, <2>1, <2>6, <3>1 DEF SlotOK, GoesOnWithout
      <3> QED
        BY <1>1, <2>1, <3>1, <3>2
    <2> QED
      BY <1>3, <2>2, <2>3, <2>4, <2>5, <2>6 DEF Enter
  \* The setup has got the lease g, the entry of its route.
  <1>4. ASSUME NEW g \in Generations \ {0}, Only(t), task'[t].pc = "set_identity", task'[t].lease = g, task'[t].todo = <<>>,
               u.pc \in {"reserve", "evict"},
               entries' = [entries EXCEPT ![r] = g],
               \A v \in Routes : v # r => entries[v] # g,
               UNCHANGED <<identity_lease, endpoint_lease, endpoint, abandoned>>,
               g = entries[r] \/ g > next_generation
        PROVE  HandInv'
    <2>1. entries'[r] = g /\ \A v \in Routes : v # r => entries'[v] = entries[v]
      BY <1>0, <1>4 DEF TypeInv
    <2>2. \A s \in Tasks : Todo(s)' = Todo(s) /\ (s # t => task'[s] = task[s])
      BY <1>0, <1>4, <1>a, TodoSets, TodoSetsNext DEF Only, ListOK, Todo
    <2>3. ASSUME NEW s \in Tasks, g > next_generation
          PROVE  g # task[s].lease /\ g \notin Todo(s)
      <3>1. task[s].lease \in 0..next_generation /\ task[s].todo \in TodoLists(next_generation)
        BY DEF Typed, TaskInv, TaskOK
      <3>2. \A i \in DOMAIN task[s].todo : task[s].todo[i] \in 1..next_generation
        BY <1>0, <3>1, Lists
      <3>3. next_generation \in Nat /\ g \in Nat
        BY <1>0, <1>4, OriginsAssumption DEF Generations
      <3> QED
        BY <2>3, <3>1, <3>2, <3>3 DEF Todo
    <2>4. ASSUME NEW v \in Routes, g > next_generation
          PROVE  g \notin {identity_lease[v], endpoint_lease[v]}
      <3>1. identity_lease[v] \in 0..next_generation /\ endpoint_lease[v] \in 0..next_generation
        BY DEF Typed, GenerationInv
      <3>2. next_generation \in Nat /\ g \in Nat
        BY <1>0, <1>4, OriginsAssumption DEF Generations
      <3> QED
        BY <2>4, <3>1, <3>2
    <2>5. OwnerInv'
      <3>1. ASSUME NEW v \in Routes, entries'[v] # 0, NEW x \in Routes, x # v
            PROVE  entries'[v] \notin {identity_lease'[x], endpoint_lease'[x]}
        BY <1>4, <1>a, <2>1, <2>4, <3>1 DEF OwnerInv
      <3>2. ASSUME NEW v \in Routes, entries'[v] # 0, NEW s \in Tasks, RouteOf(s) # v
            PROVE  entries'[v] # task'[s].lease /\ entries'[v] \notin Todo(s)'
        <4>1. CASE v = r
          <5>1. s # t
            BY <1>0, <3>2, <4>1
          <5> QED
            BY <1>4, <1>a, <2>1, <2>2, <2>3, <3>2, <4>1, <5>1 DEF OwnerInv
        <4>2. CASE v # r
          BY <1>0, <1>4, <1>a, <2>1, <2>2, <3>2, <4>2 DEF OwnerInv
        <4> QED
          BY <4>1, <4>2
      <3> QED
        BY <3>1, <3>2 DEF OwnerInv
    <2>6. KeptInv'
      <3>1. \A v \in Routes : v # r => task'[Setup(v)] = task[Setup(v)]
        BY <2>2, TaskNames
      <3> QED
        BY <1>4, <1>a, <2>1, <2>2, <3>1 DEF KeptInv
    <2>7. ListInv'
      BY <1>0, <1>4, ListsStay DEF ListOK
    <2>8. SlotInv'
      <3>1. \A v \in Routes : v # r => task'[Setup(v)] = task[Setup(v)]
        BY <2>2, TaskNames
      <3>2. ~endpoint[r]
        BY <1>4, <1>a DEF SlotOK
      <3>3. SlotOK(r)'
        BY <1>4, <1>a, <2>1, <3>2 DEF SlotOK, GoesOnWithout
      <3> QED
        BY <1>4, <2>1, <3>1, <3>3 DEF HandInv, SlotInv, SlotOK, GoesOnWithout
    <2> QED
      BY <1>4, <1>a, <2>5, <2>6, <2>7, <2>8 DEF HandInv
  \* The lease leaves the slot of the identity, for the task to release it.
  <1>5. ASSUME Only(t), identity_lease' = [identity_lease EXCEPT ![r] = 0],
               UNCHANGED <<entries, endpoint_lease, endpoint, abandoned>>,
               u.todo = <<>>, u.pc # "set_identity", task'[t].pc # "set_identity", task'[t].lease = 0,
               Todo(t)' \subseteq {identity_lease[r], u.lease} \ {0},
               identity_lease[r] \in Todo(t)' \cup {0}, ListOK(task'[t]), SlotOK(r)'
        PROVE  HandInv'
    <2>1. identity_lease'[r] = 0 /\ \A v \in Routes : v # r => identity_lease'[v] = identity_lease[v]
      BY <1>0, <1>5 DEF TypeInv
    <2>2. Todo(t) = {} /\ \A s \in Tasks : s # t => Todo(s)' = Todo(s) /\ task'[s] = task[s]
      BY <1>0, <1>5, TodoSets DEF Only, Todo
    <2>3. \A v \in Routes : v # r => task'[Setup(v)] = task[Setup(v)]
      BY <1>5, TaskNames DEF Only
    <2>4. OwnerInv'
      <3>1. ASSUME NEW v \in Routes, entries'[v] # 0, NEW x \in Routes, x # v
            PROVE  entries'[v] \notin {identity_lease'[x], endpoint_lease'[x]}
        BY <1>5, <1>a, <2>1, <3>1 DEF OwnerInv
      <3>2. ASSUME NEW v \in Routes, entries'[v] # 0, NEW s \in Tasks, RouteOf(s) # v
            PROVE  entries'[v] # task'[s].lease /\ entries'[v] \notin Todo(s)'
        BY <1>0, <1>5, <1>a, <2>2, <3>2 DEF OwnerInv
      <3> QED
        BY <3>1, <3>2 DEF OwnerInv
    <2>5. KeptInv'
      <3>1. ASSUME NEW v \in Routes, v # r
            PROVE  \/ entries'[v] \in abandoned' \cup {0, identity_lease'[v], endpoint_lease'[v]}
                   \/ \E s \in Tasks : RouteOf(s) = v /\ entries'[v] \in Todo(s)'
                   \/ task'[Setup(v)].pc = "set_identity" /\ task'[Setup(v)].lease = entries'[v]
        BY <1>0, <1>5, <1>a, <2>1, <2>2, <2>3, <3>1 DEF KeptInv
      <3>2. \/ entries'[r] \in abandoned' \cup {0, identity_lease'[r], endpoint_lease'[r]}
            \/ \E s \in Tasks : RouteOf(s) = r /\ entries'[r] \in Todo(s)'
        <4>1. CASE entries[r] \in abandoned \cup {0, endpoint_lease[r]}
          BY <1>5, <4>1
        <4>2. CASE entries[r] = identity_lease[r]
          BY <1>0, <1>5, <4>2
        <4>3. CASE \E s \in Tasks : RouteOf(s) = r /\ entries[r] \in Todo(s)
          BY <1>5, <2>2, <4>3
        <4> QED
          BY <1>5, <1>a, <4>1, <4>2, <4>3 DEF KeptInv
      <3> QED
        BY <3>1, <3>2 DEF KeptInv
    <2>6. ListInv'
      BY <1>0, <1>5, ListsStay
    <2>7. SlotInv'
      BY <1>5, <2>1, <2>3 DEF HandInv, SlotInv, SlotOK, GoesOnWithout
    <2> QED
      BY <1>5, <1>a, <2>4, <2>5, <2>6, <2>7 DEF HandInv
  \* A release begins.
  <1>6. ASSUME NEW v \in Routes, NEW g, BeginRelease(t, v, g, "evicting"), u.pc \in {"reserve", "evict"},
               UNCHANGED <<entries, identity_lease, endpoint_lease, endpoint>>
        PROVE  HandInv'
    <2>1. UNCHANGED abandoned
      BY <1>6 DEF BeginRelease
    <2>2. PICK ok : task' = [task EXCEPT ![t] = [@ EXCEPT !.pc = "evicting", !.releasing = g, !.answered = ok]]
      BY <1>6 DEF BeginRelease
    <2>3. /\ Only(t) /\ task'[t].pc = "evicting" /\ task'[t].lease = u.lease /\ task'[t].todo = u.todo
      BY <1>0, <2>2 DEF Only, Task
    <2>4. u.todo = <<>> /\ SlotOK(r)'
      BY <1>6, <1>a, <2>3 DEF SlotOK, ListOK, GoesOnWithout
    <2> QED
      BY <1>1, <1>6, <2>1, <2>3, <2>4
  <1>7. CASE Reserve(r)
    <2>1. u.pc = "reserve" /\ u.todo = <<>> /\ UNCHANGED <<identity_lease, endpoint_lease, endpoint>>
      BY <1>7, <1>a DEF Reserve, routeVars, ListOK
    <2>2. PICK g : g = entries[r]
      OBVIOUS
    <2>3. CASE /\ g # 0 /\ UNCHANGED <<budgetVars, historyVars>>
               /\ task' = [task EXCEPT ![t] = [@ EXCEPT !.pc = "set_identity", !.lease = g]]
      <3>1. Only(t) /\ task'[t].pc = "set_identity" /\ task'[t].lease = g /\ task'[t].todo = <<>>
        BY <1>0, <2>1, <2>3 DEF Only, Task
      <3>2. g \in Generations \ {0} /\ entries' = [entries EXCEPT ![r] = g] /\ \A v \in Routes : v # r => entries[v] # g
        BY <1>0, <2>2, <2>3 DEF TypeInv, FlagsInv, budgetVars
      <3>3. UNCHANGED abandoned
        BY <2>3 DEF historyVars
      <3> QED
        BY <1>4, <2>1, <2>2, <3>1, <3>2, <3>3
    <2>4. CASE /\ Goto(t, "evict") /\ UNCHANGED historyVars
               /\ entries' = RemoveMatchingEntry(r, g) \/ UNCHANGED entries
      <3>1. Only(t) /\ task'[t].pc = "evict" /\ task'[t].lease = u.lease /\ task'[t].todo = u.todo
        BY <1>0, <2>4 DEF Only, Task, Goto
      <3>2. \A v \in Routes : entries'[v] \in {0, entries[v]}
        BY <1>0, <2>4 DEF RemoveMatchingEntry, TypeInv
      <3>3. SlotOK(r)'
        BY <1>a, <2>1, <3>1 DEF SlotOK, GoesOnWithout
      <3> QED
        BY <1>1, <2>1, <2>4, <3>1, <3>2, <3>3 DEF historyVars
    <2>5. CASE BeginRelease(t, r, g, "evicting") /\ UNCHANGED <<entries, next_generation>>
      BY <1>6, <2>1, <2>5
    <2> QED
      BY <1>7, <2>2, <2>3, <2>4, <2>5 DEF Reserve
  <1>8. CASE Grant(r)
    <2>1. PICK g : g = next_generation + 1
      OBVIOUS
    <2>2. /\ u.pc = "evict" /\ u.todo = <<>> /\ entries' = [entries EXCEPT ![r] = g]
          /\ task' = [task EXCEPT ![t] = [@ EXCEPT !.pc = "set_identity", !.lease = g]]
          /\ UNCHANGED <<identity_lease, endpoint_lease, endpoint, abandoned>>
      BY <1>8, <1>a, <2>1 DEF Grant, routeVars, historyVars, ListOK
    <2>3. g \in Generations /\ g # 0 /\ g > next_generation /\ next_generation \in Nat
      BY <1>8, <2>1, GrantEffect
    <2>4. \A v \in Routes : entries[v] # g
      BY <2>3 DEF Typed, GenerationInv
    <2>5. Only(t) /\ task'[t].pc = "set_identity" /\ task'[t].lease = g /\ task'[t].todo = <<>>
      BY <1>0, <2>2 DEF Only, Task
    <2> QED
      BY <1>4, <2>2, <2>3, <2>4, <2>5
  <1>9. CASE Evict(r)
    <2>1. u.pc = "evict" /\ u.todo = <<>> /\ UNCHANGED <<identity_lease, endpoint_lease, endpoint>>
      BY <1>9, <1>a DEF Evict, routeVars, ListOK
    <2>2. PICK v \in Evictable(r) :
             \/ entries' = RemoveMatchingEntry(v, entries[v]) /\ UNCHANGED <<historyVars, task>>
             \/ BeginRelease(t, v, entries[v], "evicting") /\ UNCHANGED entries
      BY <1>9 DEF Evict
    <2>3. v \in Routes
      BY <2>2 DEF Evictable, Entries
    <2>4. CASE entries' = RemoveMatchingEntry(v, entries[v]) /\ UNCHANGED <<historyVars, task>>
      <3>1. \A x \in Routes : entries'[x] \in {0, entries[x]}
        BY <1>0, <2>3, <2>4 DEF RemoveMatchingEntry, TypeInv
      <3>2. SlotOK(r)'
        BY <1>a, <2>1, <2>4 DEF SlotOK, GoesOnWithout
      <3> QED
        BY <1>1, <2>1, <2>4, <3>1, <3>2 DEF historyVars, Only
    <2>5. CASE BeginRelease(t, v, entries[v], "evicting") /\ UNCHANGED entries
      BY <1>6, <2>1, <2>3, <2>5
    <2> QED
      BY <2>2, <2>4, <2>5
  <1>10. CASE Evicted(r)
    <2>1. /\ u.pc = "evicting" /\ u.todo = <<>>
          /\ UNCHANGED <<identity_lease, endpoint_lease, endpoint, abandoned>>
          /\ \E v \in Victims(t) : entries' = RemoveMatchingEntry(v, u.releasing)
          /\ task' = [task EXCEPT ![t] = [@ EXCEPT !.pc = "evict", !.releasing = 0, !.answered = FALSE]]
      BY <1>10, <1>a DEF Evicted, routeVars, historyVars, ListOK
    <2>2. \A x \in Routes : entries'[x] \in {0, entries[x]}
      BY <1>0, <2>1 DEF RemoveMatchingEntry, TypeInv, Victims
    <2>3. Only(t) /\ task'[t].pc = "evict" /\ task'[t].lease = u.lease /\ task'[t].todo = u.todo
      BY <1>0, <2>1 DEF Only, Task
    <2>4. SlotOK(r)'
      BY <1>a, <2>1, <2>3 DEF SlotOK, GoesOnWithout
    <2> QED
      BY <1>1, <2>1, <2>2, <2>3, <2>4
  <1>11. CASE EvictionFails(r)
    <2>1. /\ u.pc = "evicting" /\ u.todo = <<>>
          /\ UNCHANGED <<identity_lease, endpoint_lease, endpoint, abandoned, entries>>
          /\ task' = [task EXCEPT ![t] = CleanUp("failed")]
      BY <1>11, <1>a DEF EvictionFails, routeVars, historyVars, ListOK
    <2>2. Only(t) /\ task'[t] = CleanUp("failed")
      BY <1>0, <2>1 DEF Only
    <2>3. SlotOK(r)'
      BY <1>a, <2>1, <2>2, Fields DEF SlotOK, GoesOnWithout
    <2> QED
      BY <1>1, <2>1, <2>2, <2>3, Fields
  <1>12. CASE SetIdentityLease(r)
    <2>1. /\ u.pc = "set_identity" /\ u.todo = <<>> /\ identity_lease' = [identity_lease EXCEPT ![r] = u.lease]
          /\ UNCHANGED <<entries, endpoint_lease, endpoint, abandoned>> /\ Goto(t, "ticket")
      BY <1>12, <1>a DEF SetIdentityLease, budgetVars, historyVars, ListOK
    <2>2. identity_lease'[r] = u.lease /\ \A v \in Routes : v # r => identity_lease'[v] = identity_lease[v]
      BY <1>0, <2>1 DEF TypeInv
    <2>3. Only(t) /\ task'[t].pc = "ticket" /\ task'[t].lease = u.lease /\ task'[t].todo = u.todo
      BY <1>0, <2>1 DEF Only, Task, Goto
    <2>4. \A s \in Tasks : Todo(s)' = Todo(s) /\ (s # t => task'[s] = task[s])
      BY <1>0, <2>3, TodoSetsNext DEF Only
    <2>5. \A v \in Routes : v # r => task'[Setup(v)] = task[Setup(v)]
      BY <2>3, TaskNames DEF Only
    <2>6. OwnerInv'
      <3>1. ASSUME NEW v \in Routes, entries'[v] # 0, NEW x \in Routes, x # v
            PROVE  entries'[v] \notin {identity_lease'[x], endpoint_lease'[x]}
        BY <1>0, <1>a, <2>1, <2>2, <3>1 DEF OwnerInv
      <3>2. ASSUME NEW v \in Routes, entries'[v] # 0, NEW s \in Tasks, RouteOf(s) # v
            PROVE  entries'[v] # task'[s].lease /\ entries'[v] \notin Todo(s)'
        BY <1>0, <1>a, <2>1, <2>3, <2>4, <3>2 DEF OwnerInv
      <3> QED
        BY <3>1, <3>2 DEF OwnerInv
    <2>7. KeptInv'
      <3>1. entries'[r] \in {0, identity_lease'[r]}
        BY <1>a, <2>1, <2>2 DEF SlotOK
      <3> QED
        BY <1>a, <2>1, <2>2, <2>4, <2>5, <3>1 DEF KeptInv
    <2>8. ListInv'
      BY <1>0, <2>1, <2>3, ListsStay DEF ListOK
    <2>9. SlotInv'
      <3>1. SlotOK(r)'
        BY <1>a, <2>1, <2>2, <2>3 DEF SlotOK, GoesOnWithout
      <3> QED
        BY <2>1, <2>2, <2>5, <3>1 DEF HandInv, SlotInv, SlotOK, GoesOnWithout
    <2> QED
      BY <1>a, <2>1, <2>6, <2>7, <2>8, <2>9 DEF HandInv
  <1>13. CASE TicketIssued(r)
    <2>1. /\ u.pc = "ticket" /\ u.todo = <<>> /\ Goto(t, "check_retired")
          /\ UNCHANGED <<identity_lease, endpoint_lease, endpoint, abandoned, entries>>
      BY <1>13, <1>a DEF TicketIssued, IssueAt, budgetVars, routeVars, ListOK
    <2>2. Only(t) /\ task'[t].pc = "check_retired" /\ task'[t].lease = u.lease /\ task'[t].todo = u.todo
      BY <1>0, <2>1 DEF Only, Task, Goto
    <2>3. SlotOK(r)'
      BY <1>a, <2>1, <2>2 DEF SlotOK, GoesOnWithout
    <2> QED
      BY <1>1, <2>1, <2>2, <2>3
  <1>14. CASE TicketUnavailable(r)
    <2>1. /\ u.pc = "ticket" /\ u.todo = <<>> /\ identity_lease' = [identity_lease EXCEPT ![r] = 0]
          /\ UNCHANGED <<endpoint_lease, endpoint, abandoned, entries>>
          /\ task' = [task EXCEPT ![t] = [@ EXCEPT !.pc = "release", !.lease = 0, !.todo = <<u.lease>>,
                                                    !.then = "check_retired"]]
      BY <1>14, <1>a DEF TicketUnavailable, budgetVars, historyVars, ListOK
    <2>2. /\ Only(t) /\ task'[t].pc = "release" /\ task'[t].lease = 0 /\ task'[t].todo = <<u.lease>>
          /\ task'[t].then = "check_retired"
      BY <1>0, <2>1 DEF Only, Task
    <2>3. Todo(t)' = {u.lease} /\ identity_lease'[r] = 0 /\ u.lease # 0 /\ identity_lease[r] \in {0, u.lease}
      <3>1. TaskOK(u, next_generation)
        BY <1>0 DEF Typed, TaskInv
      <3> QED
        BY <1>0, <1>a, <2>1, <2>2, <3>1, TodoSetsNext DEF TypeInv, TaskOK, SlotOK
    <2>4. SlotOK(r)'
      BY <1>a, <2>1, <2>2, <2>3 DEF SlotOK, GoesOnWithout
    <2> QED
      BY <1>5, <2>1, <2>2, <2>3, <2>4 DEF ListOK
  <1>15. CASE CheckRetired(r)
    <2>1. /\ u.pc = "check_retired" /\ u.todo = <<>>
          /\ UNCHANGED <<identity_lease, endpoint_lease, endpoint, abandoned, entries>>
      BY <1>15, <1>a DEF CheckRetired, budgetVars, routeVars, historyVars, ListOK
    <2>2. CASE task' = [task EXCEPT ![t] = CleanUp("failed")]
      <3>1. Only(t) /\ task'[t] = CleanUp("failed")
        BY <1>0, <2>2 DEF Only
      <3>2. SlotOK(r)'
        BY <1>a, <2>1, <3>1, Fields DEF SlotOK, GoesOnWithout
      <3> QED
        BY <1>1, <2>1, <3>1, <3>2, Fields
    <2>3. CASE Goto(t, "install")
      <3>1. Only(t) /\ task'[t].pc = "install" /\ task'[t].lease = u.lease /\ task'[t].todo = u.todo
        BY <1>0, <2>3 DEF Only, Task, Goto
      <3>2. SlotOK(r)'
        BY <1>a, <2>1, <3>1 DEF SlotOK, GoesOnWithout
      <3> QED
        BY <1>1, <2>1, <3>1, <3>2
    <2>4. CASE /\ u.lease # 0
               /\ task' = [task EXCEPT ![t] = [IdleTask EXCEPT !.pc = "release", !.todo = <<u.lease>>,
                                                               !.then = "take_endpoint"]]
      <3>1. /\ Only(t) /\ task'[t].pc = "release" /\ task'[t].lease = 0 /\ task'[t].todo = <<u.lease>>
            /\ task'[t].then = "take_endpoint"
        BY <1>0, <2>4 DEF Only, IdleTask
      <3>2. Todo(t)' = {u.lease} /\ Todo(t) = {}
        BY <1>0, <2>1, <3>1, TodoSets, TodoSetsNext
      <3>3. \A s \in Tasks : s # t => Todo(s)' = Todo(s) /\ task'[s] = task[s]
        BY <3>1 DEF Only, Todo
      <3>4. \A v \in Routes : v # r => task'[Setup(v)] = task[Setup(v)]
        BY <3>1, TaskNames DEF Only
      <3>5. OwnerInv'
        BY <1>0, <1>a, <2>1, <3>1, <3>2, <3>3 DEF OwnerInv
      <3>6. KeptInv'
        <4>1. ASSUME NEW v \in Routes
              PROVE  \/ entries'[v] \in abandoned' \cup {0, identity_lease'[v], endpoint_lease'[v]}
                     \/ \E s \in Tasks : RouteOf(s) = v /\ entries'[v] \in Todo(s)'
                     \/ task'[Setup(v)].pc = "set_identity" /\ task'[Setup(v)].lease = entries'[v]
          <5>1. CASE entries[v] \in abandoned \cup {0, identity_lease[v], endpoint_lease[v]}
            BY <2>1, <5>1
          <5>2. CASE \E s \in Tasks : RouteOf(s) = v /\ entries[v] \in Todo(s)
            BY <2>1, <3>2, <3>3, <5>2
          <5>3. CASE task[Setup(v)].pc = "set_identity" /\ task[Setup(v)].lease = entries[v]
            BY <2>1, <3>4, <5>3
          <5> QED
            BY <1>a, <5>1, <5>2, <5>3 DEF KeptInv
        <4> QED
          BY <4>1 DEF KeptInv
      <3>7. SlotOK(r)' /\ ListOK(task'[t])
        BY <1>a, <2>1, <3>1 DEF SlotOK, GoesOnWithout, ListOK
      <3>8. SlotInv' /\ ListInv'
        BY <1>0, <2>1, <3>1, <3>7, SlotsStay, ListsStay
      <3> QED
        BY <1>a, <2>1, <3>5, <3>6, <3>8 DEF HandInv
    <2> QED
      BY <1>15, <2>2, <2>3, <2>4 DEF CheckRetired
  <1>16. CASE Install(r)
    <2>1. /\ u.pc = "install" /\ u.todo = <<>> /\ UNCHANGED <<abandoned, entries>>
      BY <1>16, <1>a DEF Install, budgetVars, historyVars, ListOK
    <2>2. CASE /\ identity_lease' = [identity_lease EXCEPT ![r] = 0] /\ UNCHANGED <<endpoint, endpoint_lease>>
               /\ identity_lease[r] = 0 /\ task' = [task EXCEPT ![t] = CleanUp("failed")]
      <3>1. Only(t) /\ task'[t] = CleanUp("failed") /\ identity_lease'[r] = 0
        BY <1>0, <2>2 DEF Only, TypeInv
      <3>2. Todo(t)' = {}
        BY <1>0, <3>1, Fields, TodoSetsNext
      <3>3. SlotOK(r)' /\ ListOK(task'[t])
        BY <1>a, <2>1, <2>2, <3>1, Fields DEF SlotOK, GoesOnWithout, ListOK
      <3> QED
        BY <1>5, <2>1, <2>2, <3>1, <3>2, <3>3, Fields
    <2>3. CASE /\ identity_lease' = [identity_lease EXCEPT ![r] = 0] /\ UNCHANGED <<endpoint, endpoint_lease>>
               /\ identity_lease[r] # 0
               /\ task' = [task EXCEPT ![t] = [IdleTask EXCEPT !.pc = "release", !.todo = <<identity_lease[r]>>,
                                                               !.then = "take_endpoint"]]
      <3>1. /\ Only(t) /\ task'[t].pc = "release" /\ task'[t].lease = 0 /\ task'[t].todo = <<identity_lease[r]>>
            /\ task'[t].then = "take_endpoint" /\ identity_lease'[r] = 0
        BY <1>0, <2>3 DEF Only, TypeInv, IdleTask
      <3>2. Todo(t)' = {identity_lease[r]}
        BY <1>0, <3>1, TodoSetsNext
      <3>3. SlotOK(r)' /\ ListOK(task'[t])
        BY <1>a, <2>1, <2>3, <3>1 DEF SlotOK, GoesOnWithout, ListOK
      <3> QED
        BY <1>5, <2>1, <2>3, <3>1, <3>2, <3>3
    <2>4. CASE /\ endpoint' = [endpoint EXCEPT ![r] = TRUE] /\ UNCHANGED identity_lease
               /\ endpoint_lease' = [endpoint_lease EXCEPT ![r] = u.lease] /\ Goto(t, "connect")
      <3>1. /\ Only(t) /\ task'[t].pc = "connect" /\ task'[t].lease = u.lease /\ task'[t].todo = u.todo
            /\ endpoint'[r] /\ endpoint_lease'[r] = u.lease /\ endpoint_lease[r] = 0
        BY <1>0, <1>a, <2>1, <2>4 DEF Only, Task, Goto, TypeInv, SlotOK
      <3>2. \A v \in Routes : v # r => endpoint'[v] = endpoint[v] /\ endpoint_lease'[v] = endpoint_lease[v]
        BY <1>0, <2>4 DEF TypeInv
      <3>3. \A s \in Tasks : Todo(s)' = Todo(s) /\ (s # t => task'[s] = task[s])
        BY <1>0, <3>1, TodoSetsNext DEF Only
      <3>4. \A v \in Routes : v # r => task'[Setup(v)] = task[Setup(v)]
        BY <3>1, TaskNames DEF Only
      <3>5. OwnerInv'
        <4>1. ASSUME NEW v \in Routes, entries'[v] # 0, NEW x \in Routes, x # v
              PROVE  entries'[v] \notin {identity_lease'[x], endpoint_lease'[x]}
          BY <1>0, <1>a, <2>1, <2>4, <3>1, <3>2, <4>1 DEF OwnerInv
        <4>2. ASSUME NEW v \in Routes, entries'[v] # 0, NEW s \in Tasks, RouteOf(s) # v
              PROVE  entries'[v] # task'[s].lease /\ entries'[v] \notin Todo(s)'
          BY <1>0, <1>a, <2>1, <3>1, <3>3, <4>2 DEF OwnerInv
        <4> QED
          BY <4>1, <4>2 DEF OwnerInv
      <3>6. KeptInv'
        BY <1>a, <2>1, <2>4, <3>1, <3>2, <3>3, <3>4 DEF KeptInv
      <3>7. ListInv'
        BY <1>0, <2>1, <3>1, ListsStay DEF ListOK
      <3>8. SlotInv'
        <4>1. SlotOK(r)'
          BY <3>1 DEF SlotOK, GoesOnWithout
        <4> QED
          BY <2>1, <2>4, <3>2, <3>4, <4>1 DEF HandInv, SlotInv, SlotOK, GoesOnWithout
      <3> QED
        BY <1>a, <2>1, <3>5, <3>6, <3>7, <3>8 DEF HandInv
    <2> QED
      BY <1>16, <2>2, <2>3, <2>4 DEF Install
  <1>17. CASE Connect(r) \/ SetupFailed(r)
    <2>1. /\ Finish(r) /\ u.pc \in {"connect", "failed"} /\ u.todo = <<>>
          /\ UNCHANGED <<identity_lease, endpoint_lease, endpoint, abandoned, entries>>
      BY <1>17, <1>a DEF Connect, SetupFailed, budgetVars, routeVars, historyVars, ListOK
    <2> QED
      BY <1>2, <2>1
  <1>18. CASE SetupFails(r)
    <2>1. /\ task' = [task EXCEPT ![t] = CleanUp("failed")] /\ Dropped(t)
          /\ UNCHANGED <<identity_lease, endpoint_lease, endpoint, entries>>
      BY <1>18 DEF SetupFails, routeVars
    <2>2. Only(t) /\ task'[t] = CleanUp("failed")
      BY <1>0, <2>1 DEF Only
    <2>3. abandoned' = abandoned \cup (({u.lease} \cup Todo(t)) \ {0, identity_lease[r], endpoint_lease[r]})
      BY <1>0, <2>1 DEF Dropped, Todo
    <2>4. Todo(t)' = {} /\ 0 \notin Todo(t) /\ Todo(t) \subseteq Generations /\ u.lease \in Generations
      <3>1. \A i \in DOMAIN u.todo : u.todo[i] \in 1..next_generation
        BY <1>0, Lists
      <3>2. 1..next_generation \subseteq Generations \ {0}
        BY <1>0, OriginsAssumption DEF Generations
      <3> QED
        BY <1>0, <2>2, <3>1, <3>2, Fields, TodoSetsNext DEF Todo, Task
    <2>5. u.pc = "set_identity" => u.lease # 0
      BY <1>0 DEF Typed, TaskInv, TaskOK
    <2>6. SlotOK(r)' /\ ListOK(task'[t])
      BY <1>a, <2>1, <2>2, Fields DEF SlotOK, GoesOnWithout, ListOK
    <2>7. KeptInv' /\ OwnerInv'
      <3>1. abandoned \subseteq abandoned'
        BY <2>3
      <3>2. \A v \in Routes : entries'[v] \in {0, entries[v]}
        BY <2>1
      <3>3. \A g \in Todo(t) : g \in abandoned' \/ g \in {identity_lease[r], endpoint_lease[r]}
        BY <2>3, <2>4
      <3>4. u.pc = "set_identity" => u.lease \in abandoned' \cup {identity_lease[r], endpoint_lease[r]}
        BY <2>3, <2>5
      <3>5. task'[t].lease = 0 /\ Todo(t)' \subseteq Todo(t)
        BY <2>2, <2>4, Fields
      <3> QED
        BY <1>0, <2>1, <2>2, <3>1, <3>2, <3>3, <3>4, <3>5, HandsStay
    <2>8. SlotInv' /\ ListInv'
      BY <1>0, <2>1, <2>2, <2>6, SlotsStay, ListsStay
    <2>9. abandoned' \subseteq Generations
      BY <1>a, <2>3, <2>4
    <2> QED
      BY <2>7, <2>8, <2>9 DEF HandInv
  <1> QED
    BY <1>3, <1>7, <1>8, <1>9, <1>10, <1>11, <1>12, <1>13, <1>14, <1>15, <1>16, <1>17, <1>18 DEF SetupStep

\* A caller that is dropped abandons what it has taken; a retirement begins with
\* nothing.
LEMMA OtherHands ==
    ASSUME Typed, HandInv, NEW r \in Routes, CallerStep(r) \/ RouteStep(r),
           ~retired[r] => task[Retirement(r)].pc = "idle"
    PROVE  HandInv'
  <1> DEFINE c == Caller(r) x == Retirement(r) t == Setup(r)
  <1>0. /\ c \in Tasks /\ x \in Tasks /\ t \in Tasks /\ c # t /\ x # t
        /\ RouteOf(c) = r /\ RouteOf(x) = r /\ RouteOf(t) = r
        /\ \A v \in Routes : c # Setup(v) /\ x # Setup(v) /\ (t = Setup(v) => v = r)
        /\ task = [s \in Tasks |-> task[s]] /\ TypeInv
        /\ \A s \in Tasks : ListOK(task[s]) /\ task[s] \in Task
        /\ abandoned \subseteq Generations
    BY TaskNames, RouteNames DEF Typed, TaskInv, TaskOK, HandInv, ListInv
  \* A task that has nothing goes on with nothing.
  <1>1. ASSUME NEW s \in {c, x}, Only(s), task[s].todo = <<>>, task'[s].todo = <<>>,
               task'[s].lease \in {0, task[s].lease},
               task'[s].pc \notin {"take_identity", "invalidate", "release", "releasing"},
               task'[s].pc = "take_endpoint" => task'[s].then \in {"idle", "lookup"},
               UNCHANGED <<identity_lease, endpoint_lease, endpoint, abandoned, entries>>
        PROVE  HandInv'
    <2>1. Todo(s) = {} /\ Todo(s)' = {}
      BY <1>0, <1>1, TodoSets, TodoSetsNext
    <2>2. KeptInv' /\ OwnerInv'
      BY <1>0, <1>1, <2>1, HandsStay
    <2>3. SlotInv' /\ ListInv'
      BY <1>0, <1>1, SlotsStay, ListsStay DEF ListOK
    <2> QED
      BY <1>0, <1>1, <2>2, <2>3 DEF HandInv
  <1>2. CASE Call(r)
    <2>1. /\ task[c].pc = "idle" /\ task[c].todo = <<>>
          /\ UNCHANGED <<identity_lease, endpoint_lease, endpoint, abandoned, entries>>
          /\ \/ task' = [task EXCEPT ![c] = CleanUp("lookup")]
             \/ task' = [task EXCEPT ![c] = [IdleTask EXCEPT !.pc = "lookup"]]
      BY <1>0, <1>2 DEF Call, budgetVars, routeVars, historyVars, ListOK
    <2>2. Only(c) /\ task'[c] \in {CleanUp("lookup"), [IdleTask EXCEPT !.pc = "lookup"]}
      BY <1>0, <2>1 DEF Only
    <2>3. /\ task'[c].todo = <<>> /\ task'[c].lease = 0 /\ task'[c].pc \in {"take_endpoint", "lookup"}
          /\ task'[c].pc = "take_endpoint" => task'[c].then = "lookup"
      BY <2>2 DEF IdleTask, CleanUp
    <2> QED
      BY <1>1, <2>1, <2>2, <2>3
  <1>3. CASE Lookup(r)
    <2>1. /\ task[c].pc = "lookup" /\ task[c].todo = <<>>
          /\ UNCHANGED <<identity_lease, endpoint_lease, endpoint, abandoned, entries>>
      BY <1>0, <1>3 DEF Lookup, budgetVars, historyVars, ListOK
    <2>2. CASE task' = [task EXCEPT ![c] = IdleTask]
      <3>1. Only(c) /\ task'[c] = IdleTask
        BY <1>0, <2>2 DEF Only
      <3> QED
        BY <1>1, <2>1, <3>1, Fields
    <2>3. CASE Goto(c, "waiting")
      <3>1. Only(c) /\ task'[c].pc = "waiting" /\ task'[c].todo = task[c].todo /\ task'[c].lease = task[c].lease
        BY <1>0, <2>3 DEF Only, Goto, Task
      <3> QED
        BY <1>1, <2>1, <3>1
    <2>4. CASE /\ task[t].pc = "idle"
               /\ task' = [task EXCEPT ![c].pc = "waiting", ![t] = [IdleTask EXCEPT !.pc = "enter"]]
      <3>1. /\ \A s \in Tasks : s \notin {c, t} => task'[s] = task[s]
            /\ task'[c] = [task[c] EXCEPT !.pc = "waiting"]
            /\ task'[t] = [IdleTask EXCEPT !.pc = "enter"]
        BY <1>0, <2>4
      <3>2. /\ task'[c].pc = "waiting" /\ task'[c].todo = <<>> /\ task'[c].lease = task[c].lease
            /\ task'[t].pc = "enter" /\ task'[t].todo = <<>> /\ task'[t].lease = 0
            /\ task[t].todo = <<>> /\ task[c].todo = <<>>
        <4>1. task'[c].pc = "waiting" /\ task'[c].todo = task[c].todo /\ task'[c].lease = task[c].lease
          BY <1>0, <3>1 DEF Task
        <4>2. task'[t].pc = "enter" /\ task'[t].todo = <<>> /\ task'[t].lease = 0
          BY <3>1, Fields
        <4>3. task[t].todo = <<>> /\ task[c].todo = <<>>
          BY <1>0, <2>1, <2>4 DEF ListOK
        <4> QED
          BY <4>1, <4>2, <4>3
      <3>a. ASSUME NEW s \in Tasks
            PROVE  task'[s].todo = task[s].todo /\ task'[s].lease \in {0, task[s].lease}
        BY <3>1, <3>2
      <3>3. \A s \in Tasks : Todo(s)' = Todo(s)
        BY <3>a, TodoSetsNext
      <3>4. \A v \in Routes : v # r => task'[Setup(v)] = task[Setup(v)]
        BY <1>0, <3>1, TaskNames
      <3>5. ListInv'
        BY <1>0, <3>1, <3>2 DEF ListInv, ListOK
      <3>6. SlotInv'
        BY <2>1, <3>2, <3>4 DEF HandInv, SlotInv, SlotOK, GoesOnWithout
      <3>7. OwnerInv'
        BY <2>1, <3>3, <3>a DEF HandInv, OwnerInv
      <3>8. KeptInv'
        BY <2>1, <2>4, <3>3, <3>4 DEF HandInv, KeptInv
      <3> QED
        BY <1>0, <2>1, <3>5, <3>6, <3>7, <3>8 DEF HandInv
    <2> QED
      BY <1>3, <2>2, <2>3, <2>4 DEF Lookup
  <1>4. CASE CancelCaller(r)
    <2>1. /\ task' = [task EXCEPT ![c] = IdleTask] /\ Dropped(c)
          /\ UNCHANGED <<identity_lease, endpoint_lease, endpoint, entries>>
      BY <1>4 DEF CancelCaller, routeVars
    <2>2. Only(c) /\ task'[c] = IdleTask
      BY <1>0, <2>1 DEF Only
    <2>3. abandoned' = abandoned \cup (({task[c].lease} \cup Todo(c)) \ {0, identity_lease[r], endpoint_lease[r]})
      BY <1>0, <2>1 DEF Dropped, Todo
    <2>4. Todo(c)' = {} /\ 0 \notin Todo(c) /\ Todo(c) \subseteq Generations /\ task[c].lease \in Generations
      <3>0. task[c].todo \in TodoLists(next_generation) /\ next_generation \in Generations
        BY <1>0 DEF Typed, TaskInv, TaskOK, TypeInv
      <3>1. \A i \in DOMAIN task[c].todo : task[c].todo[i] \in 1..next_generation
        BY <3>0, Lists
      <3>2. 1..next_generation \subseteq Generations \ {0}
        BY <3>0, OriginsAssumption DEF Generations
      <3> QED
        BY <1>0, <2>2, <3>1, <3>2, Fields, TodoSetsNext DEF Todo, Task
    <2>5. KeptInv' /\ OwnerInv'
      <3>1. abandoned \subseteq abandoned' /\ \A v \in Routes : entries'[v] \in {0, entries[v]}
        BY <2>1, <2>3
      <3>2. \A g \in Todo(c) : g \in abandoned' \/ g \in {identity_lease[r], endpoint_lease[r]}
        BY <2>3, <2>4
      <3>3. task'[c].lease = 0 /\ Todo(c)' \subseteq Todo(c) /\ c # Setup(RouteOf(c))
        BY <1>0, <2>2, <2>4, Fields
      <3> QED
        BY <1>0, <2>1, <2>2, <3>1, <3>2, <3>3, HandsStay
    <2>6. SlotInv' /\ ListInv'
      BY <1>0, <2>1, <2>2, Fields, SlotsStay, ListsStay DEF ListOK
    <2>7. abandoned' \subseteq Generations
      BY <1>0, <2>3, <2>4
    <2> QED
      BY <2>5, <2>6, <2>7 DEF HandInv
  <1>5. CASE Retire(r)
    <2>1. /\ task[x].pc = "idle" /\ task[x].todo = <<>> /\ task' = [task EXCEPT ![x] = CleanUp("idle")]
          /\ UNCHANGED <<identity_lease, endpoint_lease, endpoint, abandoned, entries>>
      BY <1>0, <1>5 DEF Retire, budgetVars, historyVars, ListOK
    <2>2. Only(x) /\ task'[x] = CleanUp("idle")
      BY <1>0, <2>1 DEF Only
    <2> QED
      BY <1>1, <2>1, <2>2, Fields
  <1>6. CASE RefreshDue(r) \/ Refresh(r) \/ Invalidate(r) \/ Expire(r)
    <2>1. UNCHANGED <<identity_lease, endpoint_lease, endpoint, abandoned, entries, task>>
      BY <1>6 DEF RefreshDue, Refresh, IssueAt, Invalidate, Expire, routeVars, budgetVars, historyVars
    <2> QED
      BY <2>1 DEF HandInv, ListInv, ListOK, SlotInv, SlotOK, GoesOnWithout, KeptInv, OwnerInv, Todo
  <1> QED
    BY <1>2, <1>3, <1>4, <1>5, <1>6 DEF CallerStep, RouteStep

\* A release is over: the head of the list is gone, with its entry or abandoned.
LEMMA NextReleaseHands ==
    ASSUME Typed, HandInv, NEW t \in Tasks, task[t].pc \in {"release", "releasing"}, NextRelease(t),
           \A v \in Routes : entries'[v] \in {0, entries[v]},
           abandoned \subseteq abandoned', abandoned' \subseteq Generations,
           Head(task[t].todo) \in abandoned' \/ entries'[RouteOf(t)] # Head(task[t].todo),
           UNCHANGED <<identity_lease, endpoint_lease, endpoint>>
    PROVE  HandInv'
  <1> DEFINE u == task[t] rest == Tail(u.todo)
  <1>0. /\ u \in Task /\ task = [s \in Tasks |-> task[s]] /\ u.todo \in TodoLists(next_generation) /\ u.todo # <<>>
        /\ u.then \in {"idle", "failed", "lookup", "check_retired", "take_endpoint"}
    BY DEF Typed, TaskInv, TaskOK, Task
  <1>1. \/ \E g : u.todo = <<g>> /\ rest = <<>> /\ Head(u.todo) = g
        \/ \E g, h : u.todo = <<g, h>> /\ rest = <<h>> /\ Head(u.todo) = g
    <2>1. ASSUME NEW g \in 1..next_generation, u.todo = <<g>> PROVE rest = <<>> /\ Head(u.todo) = g
      BY <2>1
    <2>2. ASSUME NEW g \in 1..next_generation, NEW h \in 1..next_generation, u.todo = <<g, h>>
          PROVE  rest = <<h>> /\ Head(u.todo) = g
      BY <2>2
    <2> QED
      BY <1>0, <2>1, <2>2 DEF TodoLists
  <1>2. /\ Only(t) /\ task'[t].todo = rest
        /\ rest # <<>> => task'[t].pc = "release" /\ task'[t].lease = u.lease /\ task'[t].then = u.then
        /\ rest = <<>> => task'[t].pc \in {u.then, "take_endpoint"} /\ task'[t].lease = 0
        /\ task'[t].pc = "take_endpoint" => task'[t].then = "failed"
    <2>1. CASE rest # <<>>
      <3>1. task' = [task EXCEPT ![t] = [u EXCEPT !.pc = "release", !.todo = rest, !.releasing = 0, !.answered = FALSE]]
        BY <1>0, <2>1 DEF NextRelease
      <3> QED
        BY <1>0, <2>1, <3>1 DEF Only, Task
    <2>2. CASE rest = <<>> /\ u.then = "take_endpoint"
      <3>1. task' = [task EXCEPT ![t] = CleanUp("failed")]
        BY <1>0, <2>2 DEF NextRelease
      <3> QED
        BY <1>0, <2>2, <3>1, Fields DEF Only
    <2>3. CASE rest = <<>> /\ u.then # "take_endpoint"
      <3>1. task' = [task EXCEPT ![t] = [IdleTask EXCEPT !.pc = u.then]]
        BY <1>0, <2>3 DEF NextRelease
      <3> QED
        BY <1>0, <2>3, <3>1, Fields DEF Only
    <2> QED
      BY <2>1, <2>2, <2>3
  <1>3. Todo(t)' \subseteq Todo(t) /\ \A g \in Todo(t) \ Todo(t)' : g = Head(u.todo)
    <2>1. ASSUME NEW g, u.todo = <<g>>, rest = <<>>, Head(u.todo) = g PROVE Todo(t) = {g} /\ Todo(t)' = {}
      BY <1>2, <2>1, TodoSets, TodoSetsNext
    <2>2. ASSUME NEW g, NEW h, u.todo = <<g, h>>, rest = <<h>>, Head(u.todo) = g
          PROVE  Todo(t) = {g, h} /\ Todo(t)' = {h}
      BY <1>2, <2>2, TodoSets, TodoSetsNext
    <2> QED
      BY <1>1, <2>1, <2>2
  <1>4. KeptInv' /\ OwnerInv'
    BY <1>2, <1>3, HandsStay
  <1>5. ListInv'
    BY <1>0, <1>2, ListsStay DEF ListOK
  <1>6. SlotInv'
    <2>1. ASSUME NEW r \in Routes, t = Setup(r) PROVE SlotOK(r)'
      BY <1>0, <1>2, <2>1 DEF HandInv, SlotInv, SlotOK, GoesOnWithout
    <2> QED
      BY <1>2, <2>1, SlotsStay
  <1> QED
    BY <1>4, <1>5, <1>6 DEF HandInv

\* A clean-up takes handles out of the slots and lets go of them one by one.
LEMMA CleanUpHands ==
    ASSUME Typed, BudgetInv, HandInv, NEW t \in Tasks, CleanUpStep(t)
    PROVE  HandInv'
  <1> DEFINE r == RouteOf(t) u == task[t]
  <1>0. /\ r \in Routes /\ u \in Task /\ task = [s \in Tasks |-> task[s]] /\ TypeInv /\ ListOK(u)
        /\ u.todo \in TodoLists(next_generation) /\ next_generation \in Generations
        /\ abandoned \subseteq Generations
        /\ \A v \in Routes : t = Setup(v) => v = r
    BY TaskNames, RouteNames DEF Typed, TypeInv, TaskInv, TaskOK, HandInv, ListInv
  <1>1. CASE ReleaseNow(t)
    <2>1. u.pc = "release" /\ UNCHANGED <<identity_lease, endpoint_lease, endpoint>>
      BY <1>1 DEF ReleaseNow, routeVars
    <2>2. CASE entries' = RemoveMatchingEntry(r, Head(u.todo)) /\ NextRelease(t) /\ UNCHANGED historyVars
      <3>1. /\ \A v \in Routes : entries'[v] \in {0, entries[v]}
            /\ entries'[r] = 0 \/ entries'[r] # Head(u.todo)
        BY <1>0, <2>2, EntryRemoval
      <3>2. u.todo # <<>>
        BY <2>1 DEF Typed, TaskInv, TaskOK
      <3>3. Head(u.todo) # 0
        BY <1>0, <3>2, Lists, OriginsAssumption DEF Generations
      <3> QED
        BY <1>0, <2>1, <2>2, <3>1, <3>3, NextReleaseHands DEF historyVars
    <2>3. CASE BeginRelease(t, r, Head(u.todo), "releasing") /\ UNCHANGED entries
      <3>1. UNCHANGED abandoned
        BY <2>3 DEF BeginRelease
      <3>2. PICK ok : task' = [task EXCEPT ![t] = [@ EXCEPT !.pc = "releasing", !.releasing = Head(u.todo), !.answered = ok]]
        BY <2>3 DEF BeginRelease
      <3>3. PICK g : g = Head(u.todo)
        OBVIOUS
      <3>4. /\ Only(t) /\ task'[t].pc = "releasing" /\ task'[t].lease = u.lease /\ task'[t].todo = u.todo
            /\ task'[t].releasing = g /\ task'[t].then = u.then
        BY <1>0, <3>2, <3>3 DEF Only, Task
      <3>5. Todo(t)' = Todo(t)
        BY <3>4, TodoSetsNext
      <3>6. KeptInv' /\ OwnerInv'
        BY <2>1, <2>3, <3>1, <3>4, <3>5, HandsStay
      <3>7. ListInv'
        BY <3>3, <3>4, ListsStay DEF ListOK
      <3>8. ASSUME NEW v \in Routes, t = Setup(v) PROVE SlotOK(v)'
        BY <2>1, <2>3, <3>4, <3>8 DEF HandInv, SlotInv, SlotOK, GoesOnWithout
      <3>9. SlotInv'
        BY <2>1, <2>3, <3>4, <3>8, SlotsStay
      <3> QED
        BY <1>0, <3>1, <3>6, <3>7, <3>9 DEF HandInv
    <2> QED
      BY <1>1, <2>2, <2>3 DEF ReleaseNow
  <1>2. CASE Released(t)
    <2>1. /\ u.pc = "releasing" /\ NextRelease(t) /\ entries' = RemoveMatchingEntry(r, Head(u.todo))
          /\ UNCHANGED <<identity_lease, endpoint_lease, endpoint, abandoned>>
      BY <1>0, <1>2 DEF Released, routeVars, historyVars, ListOK
    <2>2. u.todo # <<>>
      BY <2>1 DEF Typed, TaskInv, TaskOK
    <2>3. Head(u.todo) # 0
      BY <1>0, <2>2, Lists, OriginsAssumption DEF Generations
    <2>4. /\ \A v \in Routes : entries'[v] \in {0, entries[v]}
          /\ entries'[r] = 0 \/ entries'[r] # Head(u.todo)
      BY <1>0, <2>1, EntryRemoval
    <2> QED
      BY <1>0, <2>1, <2>3, <2>4, NextReleaseHands
  <1>3. CASE ReleaseFails(t)
    <2>1. /\ u.pc = "releasing" /\ NextRelease(t) /\ u.releasing = Head(u.todo)
          /\ abandoned' = abandoned \cup {u.releasing}
          /\ UNCHANGED <<entries, identity_lease, endpoint_lease, endpoint>>
      BY <1>0, <1>3 DEF ReleaseFails, routeVars, ListOK
    <2>2. u.releasing \in Generations
      BY <1>0 DEF Task
    <2> QED
      BY <1>0, <2>1, <2>2, NextReleaseHands
  <1>4. CASE TakeEndpoint(t)
    <2>1. PICK g : g = endpoint_lease[r]
      OBVIOUS
    <2>2. /\ u.pc = "take_endpoint" /\ u.todo = <<>> /\ UNCHANGED <<entries, identity_lease, abandoned>>
          /\ endpoint' = [endpoint EXCEPT ![r] = FALSE]
          /\ endpoint_lease' = [endpoint_lease EXCEPT ![r] = 0]
          /\ task' = [task EXCEPT ![t] = [@ EXCEPT !.pc = "take_identity",
                                                   !.todo = IF g = 0 THEN <<>> ELSE <<g>>]]
      BY <1>0, <1>4, <2>1 DEF TakeEndpoint, budgetVars, historyVars, ListOK
    <2>3. /\ Only(t) /\ task'[t].pc = "take_identity" /\ task'[t].lease = u.lease /\ task'[t].then = u.then
          /\ task'[t].todo = IF g = 0 THEN <<>> ELSE <<g>>
      BY <1>0, <2>2 DEF Only, Task
    <2>4. Todo(t) = {} /\ Todo(t)' = {g} \ {0}
      BY <2>2, <2>3, TodoSets, TodoSetsNext
    <2>5. /\ endpoint_lease'[r] = 0 /\ ~endpoint'[r]
          /\ \A v \in Routes : v # r => endpoint'[v] = endpoint[v] /\ endpoint_lease'[v] = endpoint_lease[v]
      BY <1>0, <2>2 DEF TypeInv
    <2>6. \A s \in Tasks : s # t => Todo(s)' = Todo(s) /\ task'[s] = task[s]
      BY <2>3 DEF Only, Todo
    <2>7. \A v \in Routes : task'[Setup(v)].pc = "set_identity" => task'[Setup(v)] = task[Setup(v)]
      BY <2>3, <2>6, TaskNames
    <2>8. OwnerInv'
      <3>1. ASSUME NEW v \in Routes, entries'[v] # 0, NEW x \in Routes, x # v
            PROVE  entries'[v] \notin {identity_lease'[x], endpoint_lease'[x]}
        BY <1>0, <2>2, <2>5, <3>1 DEF HandInv, OwnerInv
      <3>2. ASSUME NEW v \in Routes, entries'[v] # 0, NEW s \in Tasks, RouteOf(s) # v
            PROVE  entries'[v] # task'[s].lease /\ entries'[v] \notin Todo(s)'
        BY <1>0, <2>1, <2>2, <2>3, <2>4, <2>6, <3>2 DEF HandInv, OwnerInv
      <3> QED
        BY <3>1, <3>2 DEF OwnerInv
    <2>9. KeptInv'
      <3>1. ASSUME NEW v \in Routes
            PROVE  \/ entries'[v] \in abandoned' \cup {0, identity_lease'[v], endpoint_lease'[v]}
                   \/ \E s \in Tasks : RouteOf(s) = v /\ entries'[v] \in Todo(s)'
                   \/ task'[Setup(v)].pc = "set_identity" /\ task'[Setup(v)].lease = entries'[v]
        <4>1. CASE entries[v] \in abandoned \cup {0, identity_lease[v]}
          BY <2>2, <4>1
        <4>2. CASE entries[v] = endpoint_lease[v]
          BY <2>1, <2>2, <2>4, <2>5, <4>2
        <4>3. CASE \E s \in Tasks : RouteOf(s) = v /\ entries[v] \in Todo(s)
          BY <2>2, <2>4, <2>6, <4>3
        <4>4. CASE task[Setup(v)].pc = "set_identity" /\ task[Setup(v)].lease = entries[v]
          BY <2>2, <2>6, <4>4, TaskNames
        <4> QED
          BY <4>1, <4>2, <4>3, <4>4 DEF HandInv, KeptInv
      <3> QED
        BY <3>1 DEF KeptInv
    <2>10. ListInv'
      BY <1>0, <2>2, <2>3, ListsStay DEF ListOK
    <2>11. SlotInv'
      <3>1. ASSUME NEW v \in Routes PROVE SlotOK(v)'
        <4>1. task'[Setup(v)] = task[Setup(v)] \/ (t = Setup(v) /\ v = r)
          BY <1>0, <2>6, TaskNames
        <4>2. SlotOK(v)
          BY DEF HandInv, SlotInv
        <4> QED
          BY <2>2, <2>3, <2>5, <4>1, <4>2 DEF SlotOK, GoesOnWithout
      <3> QED
        BY <3>1 DEF SlotInv
    <2> QED
      BY <1>0, <2>2, <2>8, <2>9, <2>10, <2>11 DEF HandInv
  <1>5. CASE TakeIdentity(t)
    <2>1. PICK g : g = identity_lease[r]
      OBVIOUS
    <2>2. /\ u.pc = "take_identity" /\ UNCHANGED <<entries, endpoint_lease, endpoint, abandoned>>
          /\ identity_lease' = [identity_lease EXCEPT ![r] = 0]
          /\ task' = [task EXCEPT ![t] = [@ EXCEPT !.pc = "invalidate",
                        !.todo = IF g = 0 \/ u.todo = <<g>> THEN u.todo ELSE <<g>> \o u.todo]]
      BY <1>0, <1>5, <2>1 DEF TakeIdentity, budgetVars, historyVars
    <2>3. /\ Only(t) /\ task'[t].pc = "invalidate" /\ task'[t].lease = u.lease /\ task'[t].then = u.then
          /\ task'[t].todo = IF g = 0 \/ u.todo = <<g>> THEN u.todo ELSE <<g>> \o u.todo
      BY <1>0, <2>2 DEF Only, Task
    <2>4. Todo(t)' = Todo(t) \cup ({g} \ {0})
      <3>1. u.todo = <<>> \/ \E h \in 1..next_generation : u.todo = <<h>>
        BY <2>2 DEF Typed, TaskInv, TaskOK
      <3>2. CASE g = 0
        BY <2>3, <3>2, TodoSetsNext
      <3>3. CASE g # 0 /\ u.todo = <<>>
        <4>1. task'[t].todo = <<g>>
          BY <2>3, <3>3
        <4> QED
          BY <3>3, <4>1, TodoSets, TodoSetsNext
      <3>4. ASSUME g # 0, NEW h \in 1..next_generation, u.todo = <<h>> PROVE Todo(t)' = Todo(t) \cup ({g} \ {0})
        <4>1. CASE g = h
          BY <2>3, <3>4, <4>1, TodoSets, TodoSetsNext
        <4>2. CASE g # h
          <5>1. g \in 1..next_generation
            BY <1>0, <2>1, <3>4 DEF Typed, GenerationInv
          <5>2. u.todo # <<g>>
            BY <3>4, <4>2
          <5>3. task'[t].todo = <<g>> \o <<h>>
            BY <2>3, <3>4, <5>2
          <5>4. <<g>> \o <<h>> = <<g, h>>
            BY <1>0, <3>4, <5>1, Pair
          <5> QED
            BY <3>4, <5>3, <5>4, TodoSets, TodoSetsNext
        <4> QED
          BY <4>1, <4>2
      <3> QED
        BY <3>1, <3>2, <3>3, <3>4
    <2>5. identity_lease'[r] = 0 /\ \A v \in Routes : v # r => identity_lease'[v] = identity_lease[v]
      BY <1>0, <2>2 DEF TypeInv
    <2>6. \A s \in Tasks : s # t => Todo(s)' = Todo(s) /\ task'[s] = task[s]
      BY <2>3 DEF Only, Todo
    <2>7. OwnerInv'
      <3>1. ASSUME NEW v \in Routes, entries'[v] # 0, NEW x \in Routes, x # v
            PROVE  entries'[v] \notin {identity_lease'[x], endpoint_lease'[x]}
        BY <1>0, <2>2, <2>5, <3>1 DEF HandInv, OwnerInv
      <3>2. ASSUME NEW v \in Routes, entries'[v] # 0, NEW s \in Tasks, RouteOf(s) # v
            PROVE  entries'[v] # task'[s].lease /\ entries'[v] \notin Todo(s)'
        BY <1>0, <2>1, <2>2, <2>3, <2>4, <2>6, <3>2 DEF HandInv, OwnerInv
      <3> QED
        BY <3>1, <3>2 DEF OwnerInv
    <2>8. KeptInv'
      <3>1. ASSUME NEW v \in Routes
            PROVE  \/ entries'[v] \in abandoned' \cup {0, identity_lease'[v], endpoint_lease'[v]}
                   \/ \E s \in Tasks : RouteOf(s) = v /\ entries'[v] \in Todo(s)'
                   \/ task'[Setup(v)].pc = "set_identity" /\ task'[Setup(v)].lease = entries'[v]
        <4>1. CASE entries[v] \in abandoned \cup {0, endpoint_lease[v]}
          BY <2>2, <4>1
        <4>2. CASE entries[v] = identity_lease[v] /\ entries[v] # 0
          BY <2>1, <2>2, <2>4, <2>5, <4>2
        <4>3. CASE \E s \in Tasks : RouteOf(s) = v /\ entries[v] \in Todo(s)
          BY <2>2, <2>4, <2>6, <4>3
        <4>4. CASE task[Setup(v)].pc = "set_identity" /\ task[Setup(v)].lease = entries[v]
          BY <2>2, <2>6, <4>4, TaskNames
        <4> QED
          BY <4>1, <4>2, <4>3, <4>4 DEF HandInv, KeptInv
      <3> QED
        BY <3>1 DEF KeptInv
    <2>9. ListInv'
      BY <1>0, <2>2, <2>3, ListsStay DEF ListOK
    <2>10. SlotInv'
      <3>1. ASSUME NEW v \in Routes PROVE SlotOK(v)'
        <4>1. task'[Setup(v)] = task[Setup(v)] \/ (t = Setup(v) /\ v = r)
          BY <1>0, <2>6, TaskNames
        <4>2. SlotOK(v)
          BY DEF HandInv, SlotInv
        <4> QED
          BY <2>2, <2>3, <2>5, <4>1, <4>2 DEF SlotOK, GoesOnWithout
      <3> QED
        BY <3>1 DEF SlotInv
    <2> QED
      BY <1>0, <2>2, <2>7, <2>8, <2>9, <2>10 DEF HandInv
  <1>6. CASE InvalidateAndRelease(t)
    <2>1. /\ u.pc = "invalidate" /\ UNCHANGED <<entries, identity_lease, endpoint_lease, endpoint, abandoned>>
          /\ task' = [task EXCEPT ![t] = IF u.todo = <<>> THEN [IdleTask EXCEPT !.pc = u.then]
                                         ELSE [u EXCEPT !.pc = "release"]]
      BY <1>6 DEF InvalidateAndRelease, budgetVars, historyVars
    <2>2. /\ Only(t) /\ task'[t].todo = u.todo /\ task'[t].lease \in {0, u.lease}
          /\ u.todo = <<>> => task'[t].pc = u.then /\ task'[t].lease = 0
          /\ u.todo # <<>> => task'[t].pc = "release" /\ task'[t].then = u.then
      <3>1. CASE u.todo = <<>>
        BY <1>0, <2>1, <3>1, Fields DEF Only
      <3>2. CASE u.todo # <<>>
        BY <1>0, <2>1, <3>2 DEF Only, Task
      <3> QED
        BY <3>1, <3>2
    <2>3. Todo(t)' = Todo(t)
      BY <2>2, TodoSetsNext
    <2>4. KeptInv' /\ OwnerInv'
      BY <2>1, <2>2, <2>3, HandsStay
    <2>a. u.then \in {"idle", "failed", "lookup"}
      BY <1>0, <2>1 DEF ListOK
    <2>5. ListInv'
      BY <2>2, <2>a, ListsStay DEF ListOK
    <2>6. ASSUME NEW v \in Routes, t = Setup(v) PROVE SlotOK(v)'
      BY <2>1, <2>2, <2>6, <2>a DEF HandInv, SlotInv, SlotOK, GoesOnWithout
    <2>7. SlotInv'
      BY <2>1, <2>2, <2>6, SlotsStay
    <2> QED
      BY <1>0, <2>1, <2>4, <2>5, <2>7 DEF HandInv
  <1> QED
    BY <1>1, <1>2, <1>3, <1>4, <1>5, <1>6 DEF CleanUpStep

-------------------------------------------------------------------------------
(***************************************************************************)
(* What the services serve                                                 *)
(***************************************************************************)

\* No release is awaited that did not reach every origin.
Settled == \A t \in Tasks : task[t].pc \in {"evicting", "releasing"} => task[t].answered

\* The budget and the services stay as they are, and so do the releases.
LEMMA QuietStray ==
    ASSUME StrayInv, UNCHANGED <<served, astray, entries, release_started, active>>, Quiet
    PROVE  StrayInv'
  BY DEF StrayInv, Quiet, Held

\* Only entries go whose release was begun, when no release is awaited.
LEMMA SettledStray ==
    ASSUME StrayInv, Settled, UNCHANGED <<served, astray>>, ~active'[0],
           \A r \in Routes : ~release_started[entries[r]] =>
              entries'[r] = entries[r] /\ ~release_started'[entries'[r]]
    PROVE  StrayInv'
  BY DEF StrayInv, Settled

\* Nobody but t can be inside a section of the mutex.
LEMMA SettledAlone ==
    ASSUME MutexInv, NEW t \in Tasks, admission \in {Nobody, t},
           task[t].pc \in {"evicting", "releasing"} => task[t].answered
    PROVE  Settled
  BY TaskNames DEF Settled, MutexInv, Held

\* The release of the entry g of the route r begins.
LEMMA BeginStray ==
    ASSUME Typed, BudgetInv, StrayInv, NEW t \in Tasks, NEW r \in Routes, NEW g \in 1..next_generation,
           entries[r] = g, BeginRelease(t, r, g, "evicting") \/ BeginRelease(t, r, g, "releasing"),
           UNCHANGED entries, Settled
    PROVE  StrayInv'
  <1>1. PICK where \in {"evicting", "releasing"}, arrived \in SUBSET OriginsOf[r], ok \in BOOLEAN :
          /\ ok => arrived = OriginsOf[r]
          /\ served' = [o \in Origins |-> IF o \in arrived THEN served[o] \ {r} ELSE served[o]]
          /\ astray' = IF arrived = OriginsOf[r] THEN astray \ {r} ELSE astray
          /\ task' = [task EXCEPT ![t] = [@ EXCEPT !.pc = where, !.releasing = g, !.answered = ok]]
    BY DEF BeginRelease
  <1>2. /\ release_started' = [release_started EXCEPT ![g] = TRUE] /\ active' = [active EXCEPT ![g] = FALSE]
    BY DEF BeginRelease
  <1>3. /\ task'[t].pc = where /\ task'[t].releasing = g /\ task'[t].answered = ok
    BY <1>1 DEF Typed, TaskInv, TaskOK, Task
  <1>4. ~active'[0] /\ astray' \subseteq Routes
    BY <1>1, <1>2 DEF StrayInv, Typed, TypeInv
  <1>5. ASSUME NEW o \in Origins, NEW v \in served'[o]
        PROVE  v \in served[o] /\ v \in Routes /\ o \in OriginsOf[v]
    BY <1>1, <1>5 DEF StrayInv
  <1>6. ASSUME NEW o \in Origins, NEW v \in served'[o], v \notin astray', v # r
        PROVE  entries'[v] # 0 /\ ~release_started'[entries'[v]]
    <2>1. v \in served[o] \ astray /\ v \in Routes
      BY <1>1, <1>5, <1>6
    <2>2. entries[v] # 0 /\ ~release_started[entries[v]] /\ entries[v] # g
      BY <1>6, <2>1 DEF StrayInv, Settled, BudgetInv, EntryInv, FlagsInv
    <2> QED
      BY <1>2, <2>1, <2>2 DEF Typed, TypeInv
  <1>7. ASSUME NEW o \in Origins, r \in served'[o], r \notin astray'
        PROVE  entries'[r] = g /\ g # 0 /\ ~ok
    BY <1>1, <1>5, <1>7
  <1>8. ASSUME NEW o \in Origins, NEW v \in served'[o] \ astray'
        PROVE  /\ entries'[v] # 0
               /\ release_started'[entries'[v]] =>
                     \E s \in Tasks : /\ task'[s].pc \in {"evicting", "releasing"}
                                      /\ task'[s].releasing = entries'[v] /\ ~task'[s].answered
    <2>1. CASE v # r
      BY <1>6, <1>8, <2>1
    <2>2. CASE v = r
      BY <1>3, <1>7, <1>8, <2>2
    <2> QED
      BY <2>1, <2>2
  <1> QED
    BY <1>4, <1>5, <1>8 DEF StrayInv

\* An origin did not answer: the release may be tried again.
LEMMA FailureStray ==
    ASSUME Typed, BudgetInv, StrayInv, NEW t \in Tasks, task[t].pc \in {"evicting", "releasing"},
           release_started' = [release_started EXCEPT ![task[t].releasing] = FALSE],
           UNCHANGED <<served, astray, entries, active>>
    PROVE  StrayInv'
  <1>1. task[t].releasing \in Generations
    BY DEF Typed, TaskInv, TaskOK, Task
  <1>2. \A s \in Tasks : task[s].pc \in {"evicting", "releasing"} => s = t
    BY DEF BudgetInv, MutexInv, Held
  <1>3. ASSUME NEW o \in Origins, NEW r \in served[o] \ astray
        PROVE  entries[r] # 0 /\ ~release_started'[entries[r]]
    <2>1. r \in Routes /\ entries[r] # 0 /\ entries[r] \in Generations
      BY <1>3 DEF StrayInv, Typed, TypeInv
    <2>2. release_started[entries[r]] => task[t].releasing = entries[r]
      BY <1>2, <1>3 DEF StrayInv
    <2> QED
      BY <1>1, <2>1, <2>2 DEF Typed, TypeInv
  <1> QED
    BY <1>3 DEF StrayInv

\* A future is dropped: what it was releasing goes astray.
LEMMA DroppedStray ==
    ASSUME Typed, BudgetInv, StrayInv, NEW t \in Tasks, Only(t), Dropped(t),
           UNCHANGED <<served, entries, release_started, active>>
    PROVE  StrayInv'
  <1>1. astray \subseteq astray' /\ astray' \subseteq Routes
    BY DEF Dropped, Victims, StrayInv
  <1>2. ASSUME NEW o \in Origins, NEW r \in served[o] \ astray', release_started[entries[r]]
        PROVE  \E s \in Tasks : /\ task'[s].pc \in {"evicting", "releasing"}
                                /\ task'[s].releasing = entries[r] /\ ~task'[s].answered
    <2>1. PICK s \in Tasks : /\ task[s].pc \in {"evicting", "releasing"}
                             /\ task[s].releasing = entries[r] /\ ~task[s].answered
      BY <1>1, <1>2 DEF StrayInv
    <2>2. s # t
      <3>1. r \in Routes /\ entries[r] # 0
        BY <1>1, <1>2 DEF StrayInv
      <3> QED
        BY <1>2, <2>1, <3>1 DEF Dropped, Victims
    <2> QED
      BY <2>1, <2>2 DEF Only
  <1> QED
    BY <1>1, <1>2 DEF StrayInv

\* Tickets are issued for the handle g of the route r.
LEMMA IssueStray ==
    ASSUME Typed, BudgetInv, HandInv, StrayInv, NEW r \in Routes, NEW g \in Generations,
           g = endpoint_lease[r] \/ g = task[Setup(r)].lease,
           NEW origins \in SUBSET OriginsOf[r], IssueAt(r, g, origins),
           UNCHANGED <<entries, release_started, active>>, Quiet
    PROVE  StrayInv'
  <1>1. /\ served' = [o \in Origins |-> IF o \in origins THEN served[o] \union {r} ELSE served[o]]
        /\ astray' = IF active[g] \/ origins = {} THEN astray ELSE astray \union {r}
    BY DEF IssueAt
  <1>2. astray' \subseteq Routes /\ astray \subseteq astray'
    BY <1>1 DEF StrayInv
  <1>3. ASSUME NEW o \in Origins, NEW v \in served'[o]
        PROVE  v \in Routes /\ o \in OriginsOf[v] /\ (v \in served[o] \/ (v = r /\ origins # {}))
    BY <1>1, <1>3 DEF StrayInv
  <1>4. active[g] => entries[r] = g /\ g # 0 /\ ~release_started[g]
    <2> SUFFICES ASSUME active[g] PROVE entries[r] = g /\ g # 0 /\ ~release_started[g]
      OBVIOUS
    <2>1. g # 0 /\ ~release_started[g] /\ g \in 1..next_generation
      BY OriginsAssumption DEF StrayInv, BudgetInv, EntryInv, FlagsInv, Generations, Typed, TypeInv
    <2>2. PICK v \in Routes : entries[v] = g
      BY <2>1 DEF BudgetInv, EntryInv, CountInv, HeldLeasesAreCounted
    <2>3. v = r
      BY <2>1, <2>2, TaskNames, RouteNames DEF HandInv, OwnerInv
    <2> QED
      BY <2>1, <2>2, <2>3
  <1>5. ASSUME NEW o \in Origins, NEW v \in served'[o] \ astray'
        PROVE  /\ entries'[v] # 0
               /\ release_started'[entries'[v]] =>
                     \E s \in Tasks : /\ task'[s].pc \in {"evicting", "releasing"}
                                      /\ task'[s].releasing = entries'[v] /\ ~task'[s].answered
    <2>1. CASE v \in served[o]
      BY <1>2, <1>5, <2>1 DEF StrayInv, Quiet, Held
    <2>2. CASE v = r /\ origins # {}
      BY <1>1, <1>4, <1>5, <2>2
    <2> QED
      BY <1>3, <1>5, <2>1, <2>2
  <1> QED
    BY <1>2, <1>3, <1>5 DEF StrayInv

\* The releases stay as they are when one task moves outside the mutex.
LEMMA OneStray ==
    ASSUME StrayInv, NEW t \in Tasks, Only(t), task[t].pc \notin Held, task'[t].pc \notin Held,
           UNCHANGED <<budgetVars, served, historyVars>>
    PROVE  StrayInv'
  BY QuietOne, QuietStray DEF budgetVars, historyVars

\* A setup asks for tickets only for the entry of its route, or they go astray.
LEMMA SetupStray ==
    ASSUME Typed, BudgetInv, HandInv, StrayInv, NEW r \in Routes, SetupStep(r)
    PROVE  StrayInv'
  <1> DEFINE t == Setup(r) u == task[t]
  <1>0. /\ t \in Tasks /\ u \in Task /\ task = [s \in Tasks |-> task[s]] /\ TypeInv /\ FlagsInv /\ MutexInv
        /\ TaskOK(u, next_generation)
        /\ ~active[0]
    BY TaskNames DEF Typed, TaskInv, TaskOK, BudgetInv, EntryInv, StrayInv
  <1>1. ASSUME Finish(r), UNCHANGED <<budgetVars, served, historyVars>>, u.pc \notin Held PROVE StrayInv'
    <2>1. Quiet
      BY <1>1, FinishEffect DEF Quiet, Held, budgetVars
    <2> QED
      BY <1>1, <2>1, QuietStray DEF budgetVars, historyVars
  <1>2. CASE Enter(r)
    <2>1. UNCHANGED <<budgetVars, served, historyVars>> /\ u.pc \notin Held
      BY <1>2 DEF Enter, Held
    <2> QED
      BY <1>0, <1>1, <1>2, <2>1, EnterEffect, OneStray DEF Held
  <1>3. CASE Reserve(r)
    <2>1. u.pc = "reserve" /\ admission = Nobody
      BY <1>3 DEF Reserve
    <2>2. Settled
      BY <1>0, <2>1, SettledAlone
    <2>3. PICK g : g = entries[r]
      OBVIOUS
    <2>4. CASE UNCHANGED <<budgetVars, served, historyVars>>
      BY <1>0, <2>2, <2>4, SettledStray DEF budgetVars, historyVars
    <2>5. CASE /\ UNCHANGED <<active, release_started, served, historyVars>>
               /\ \/ UNCHANGED entries
                  \/ release_started[g] /\ entries' = RemoveMatchingEntry(r, g)
      <3>1. \A v \in Routes : ~release_started[entries[v]] =>
               entries'[v] = entries[v] /\ ~release_started'[entries'[v]]
        BY <1>0, <2>3, <2>5 DEF RemoveMatchingEntry, TypeInv
      <3> QED
        BY <1>0, <2>2, <2>5, <3>1, SettledStray DEF historyVars
    <2>6. CASE g # 0 /\ BeginRelease(t, r, g, "evicting") /\ UNCHANGED entries
      <3>1. g \in 1..next_generation
        BY <2>3, <2>6, <1>0, OriginsAssumption DEF Typed, GenerationInv, TypeInv, Generations
      <3> QED
        BY <1>0, <2>2, <2>3, <2>6, <3>1, BeginStray
    <2> QED
      BY <1>3, <2>3, <2>4, <2>5, <2>6 DEF Reserve
  <1>4. CASE Grant(r)
    <2>1. PICK g : g = next_generation + 1
      OBVIOUS
    <2>2. /\ u.pc = "evict" /\ entries' = [entries EXCEPT ![r] = g] /\ active' = [active EXCEPT ![g] = TRUE]
          /\ UNCHANGED <<release_started, served, astray>>
      BY <1>4, <2>1 DEF Grant, historyVars
    <2>3. g \in Generations /\ g # 0 /\ ~release_started[g]
      BY <1>0, <1>4, <2>1, GrantEffect DEF FlagsInv
    <2>4. admission = t /\ entries[r] = 0
      BY <1>0, <2>2 DEF MutexInv, Held, BudgetInv, EntryInv, RoomInv
    <2>5. Settled
      BY <1>0, <2>2, <2>4, SettledAlone
    <2>6. \A v \in Routes : entries'[v] = IF v = r THEN g ELSE entries[v]
      BY <1>0, <2>2 DEF TypeInv
    <2>7. ~active'[0]
      BY <1>0, <2>2, <2>3 DEF TypeInv
    <2>8. ASSUME NEW o \in Origins, NEW v \in served[o] \ astray
          PROVE  v # r /\ entries[v] # 0 /\ ~release_started[entries[v]]
      BY <2>4, <2>5, <2>8 DEF StrayInv, Settled
    <2> QED
      BY <2>2, <2>6, <2>7, <2>8 DEF StrayInv
  <1>5. CASE Evict(r)
    <2>1. u.pc = "evict" /\ admission = t
      BY <1>0, <1>5 DEF Evict, MutexInv, Held
    <2>2. Settled
      BY <1>0, <2>1, SettledAlone
    <2>3. PICK v \in Evictable(r) :
             \/ /\ release_started[entries[v]] /\ entries' = RemoveMatchingEntry(v, entries[v])
                /\ UNCHANGED <<active, release_started, served, historyVars>>
             \/ BeginRelease(t, v, entries[v], "evicting") /\ UNCHANGED entries
      BY <1>5 DEF Evict
    <2>4. v \in Routes /\ entries[v] # 0
      BY <2>3 DEF Evictable, Entries
    <2>5. CASE /\ release_started[entries[v]] /\ entries' = RemoveMatchingEntry(v, entries[v])
               /\ UNCHANGED <<active, release_started, served, historyVars>>
      <3>1. \A x \in Routes : ~release_started[entries[x]] =>
               entries'[x] = entries[x] /\ ~release_started'[entries'[x]]
        BY <1>0, <2>4, <2>5 DEF RemoveMatchingEntry, TypeInv
      <3> QED
        BY <1>0, <2>2, <2>5, <3>1, SettledStray DEF historyVars
    <2>6. CASE BeginRelease(t, v, entries[v], "evicting") /\ UNCHANGED entries
      <3>1. entries[v] \in 1..next_generation
        BY <1>0, <2>4, OriginsAssumption DEF Typed, GenerationInv, TypeInv, Generations
      <3> QED
        BY <1>0, <2>2, <2>4, <2>6, <3>1, BeginStray
    <2> QED
      BY <2>3, <2>5, <2>6
  <1>6. CASE Evicted(r)
    <2>1. /\ u.pc = "evicting" /\ u.answered /\ UNCHANGED <<active, release_started, served, astray>>
          /\ \E v \in Victims(t) : entries' = RemoveMatchingEntry(v, u.releasing)
      BY <1>6 DEF Evicted, historyVars
    <2>2. admission = t /\ release_started[u.releasing]
      BY <1>0, <2>1 DEF MutexInv, Held, BudgetInv, EntryInv, AwaitInv
    <2>3. Settled
      BY <1>0, <2>1, <2>2, SettledAlone
    <2>4. \A x \in Routes : ~release_started[entries[x]] =>
             entries'[x] = entries[x] /\ ~release_started'[entries'[x]]
      BY <1>0, <2>1, <2>2 DEF RemoveMatchingEntry, TypeInv, Victims
    <2> QED
      BY <1>0, <2>1, <2>3, <2>4, SettledStray
  <1>7. CASE EvictionFails(r)
    <2>1. /\ u.pc = "evicting" /\ UNCHANGED <<served, astray, entries, active>>
          /\ release_started' = [release_started EXCEPT ![u.releasing] = FALSE]
      BY <1>7 DEF EvictionFails, historyVars
    <2> QED
      BY <1>0, <2>1, FailureStray
  <1>8. CASE SetIdentityLease(r)
    BY <1>0, <1>8, SetIdentityEffect, OneStray DEF SetIdentityLease, Held
  <1>9. CASE TicketIssued(r)
    <2>1. PICK origins \in SUBSET {o \in OriginsOf[r] : Issuable(r, o)} : IssueAt(r, u.lease, origins)
      BY <1>9 DEF TicketIssued
    <2>2. /\ u.pc = "ticket" /\ Goto(t, "check_retired")
          /\ UNCHANGED <<entries, release_started, active, next_generation>>
      BY <1>9 DEF TicketIssued, budgetVars
    <2>3. Quiet
      BY <1>0, <2>2, GotoEffect, QuietOne DEF Held
    <2>4. u.lease \in Generations /\ origins \in SUBSET OriginsOf[r]
      BY <1>0, <2>1 DEF Task
    <2> QED
      BY <2>1, <2>2, <2>3, <2>4, IssueStray
  <1>10. CASE TicketUnavailable(r)
    BY <1>0, <1>10, TicketUnavailableEffect, OneStray DEF TicketUnavailable, Held
  <1>11. CASE CheckRetired(r)
    BY <1>0, <1>11, CheckRetiredEffect, OneStray DEF CheckRetired, Held
  <1>12. CASE Install(r)
    BY <1>0, <1>12, InstallEffect, OneStray DEF Install, Held
  <1>13. CASE Connect(r) \/ SetupFailed(r)
    BY <1>1, <1>13 DEF Connect, SetupFailed, Held
  <1>14. CASE SetupFails(r)
    <2>1. /\ task' = [task EXCEPT ![t] = CleanUp("failed")] /\ Dropped(t)
          /\ UNCHANGED <<served, entries, release_started, active>>
      BY <1>14 DEF SetupFails
    <2>2. Only(t)
      BY <1>0, <2>1 DEF Only
    <2> QED
      BY <1>0, <2>1, <2>2, DroppedStray
  <1> QED
    BY <1>2, <1>3, <1>4, <1>5, <1>6, <1>7, <1>8, <1>9, <1>10, <1>11, <1>12, <1>13, <1>14 DEF SetupStep

\* Callers do not touch the services; a refresh asks for tickets like a setup.
LEMMA OtherStray ==
    ASSUME Typed, BudgetInv, HandInv, StrayInv, NEW r \in Routes, CallerStep(r) \/ RouteStep(r),
           ~retired[r] => task[Retirement(r)].pc = "idle"
    PROVE  StrayInv'
  <1>0. Caller(r) \in Tasks /\ Retirement(r) \in Tasks /\ task = [s \in Tasks |-> task[s]]
    BY TaskNames DEF Typed, TaskInv
  <1>1. CASE Call(r)
    BY <1>0, <1>1, CallEffect, OneStray DEF Call, Held
  <1>2. CASE Lookup(r)
    <2>1. UNCHANGED <<budgetVars, served, historyVars>> /\ task[Caller(r)].pc \notin Held
      BY <1>2 DEF Lookup, Held
    <2>2. Quiet
      BY <1>2, <2>1, LookupEffect DEF Quiet, Held
    <2> QED
      BY <2>1, <2>2, QuietStray DEF budgetVars, historyVars
  <1>3. CASE CancelCaller(r)
    <2>1. /\ task' = [task EXCEPT ![Caller(r)] = IdleTask] /\ Dropped(Caller(r))
          /\ UNCHANGED <<served, entries, release_started, active>>
      BY <1>3 DEF CancelCaller
    <2>2. Only(Caller(r))
      BY <1>0, <2>1 DEF Only
    <2> QED
      BY <1>0, <2>1, <2>2, DroppedStray
  <1>4. CASE Retire(r)
    <2>1. /\ UNCHANGED <<budgetVars, served, historyVars, next_generation>> /\ task[Retirement(r)].pc = "idle"
          /\ task' = [task EXCEPT ![Retirement(r)] = CleanUp("idle")]
      BY <1>4 DEF Retire, budgetVars
    <2>2. Only(Retirement(r)) /\ task'[Retirement(r)].pc = "take_endpoint"
      BY <1>0, <2>1, CleanUpEffect
    <2> QED
      BY <1>0, <2>1, <2>2, OneStray DEF Held
  <1>5. CASE RefreshDue(r) \/ Invalidate(r)
    <2>1. UNCHANGED <<budgetVars, served, historyVars, task>>
      BY <1>5 DEF RefreshDue, Invalidate
    <2> QED
      BY <2>1, QuietStray DEF Quiet, budgetVars, historyVars
  <1>6. CASE Refresh(r)
    <2>1. PICK origins \in SUBSET {o \in OriginsOf[r] : Issuable(r, o)} : IssueAt(r, endpoint_lease[r], origins)
      BY <1>6 DEF Refresh
    <2>2. UNCHANGED <<entries, release_started, active, task>>
      BY <1>6 DEF Refresh, budgetVars
    <2>3. endpoint_lease[r] \in Generations /\ Quiet
      BY <2>2 DEF Typed, TypeInv, Quiet
    <2> QED
      BY <2>1, <2>2, <2>3, IssueStray
  <1>7. CASE Expire(r)
    <2>1. UNCHANGED <<entries, release_started, active, task, astray>>
      BY <1>7 DEF Expire, budgetVars, historyVars
    <2>2. \A o \in Origins : served'[o] \subseteq served[o]
      BY <1>7 DEF Expire, Typed, TypeInv
    <2> QED
      BY <2>1, <2>2 DEF StrayInv
  <1> QED
    BY <1>1, <1>2, <1>3, <1>4, <1>5, <1>6, <1>7 DEF CallerStep, RouteStep

\* An entry goes only when the release of its handle is over.
LEMMA CleanUpStray ==
    ASSUME Typed, BudgetInv, HandInv, StrayInv, NEW t \in Tasks, CleanUpStep(t)
    PROVE  StrayInv'
  <1> DEFINE r == RouteOf(t) u == task[t]
  <1>0. /\ r \in Routes /\ TypeInv /\ FlagsInv /\ MutexInv /\ ~active[0] /\ ListOK(u)
        /\ u.todo \in TodoLists(next_generation) /\ next_generation \in Generations
        /\ TaskOK(u, next_generation)
    BY TaskNames DEF Typed, TypeInv, TaskInv, TaskOK, BudgetInv, EntryInv, StrayInv, HandInv, ListInv
  <1>1. CASE ReleaseNow(t)
    <2>1. u.pc = "release" /\ admission = Nobody
      BY <1>1 DEF ReleaseNow
    <2>2. Settled
      BY <2>1, <1>0, SettledAlone
    <2>3. PICK g : g = Head(u.todo)
      OBVIOUS
    <2>4. g \in 1..next_generation /\ g \in Todo(t)
      <3>1. u.todo # <<>> /\ u.todo \in Seq(Generations)
        BY <1>0, <2>1, Lists DEF TaskOK
      <3>2. 1 \in DOMAIN u.todo /\ u.todo[1] = g
        BY <2>3, <3>1
      <3> QED
        BY <1>0, <2>3, <3>1, <3>2, Lists DEF Todo
    <2>5. CASE /\ release_started[g] /\ active' = [active EXCEPT ![g] = FALSE]
               /\ entries' = RemoveMatchingEntry(r, g) /\ UNCHANGED <<release_started, served, historyVars>>
      <3>1. \A x \in Routes : ~release_started[entries[x]] =>
               entries'[x] = entries[x] /\ ~release_started'[entries'[x]]
        BY <1>0, <2>5 DEF RemoveMatchingEntry, TypeInv
      <3>2. ~active'[0]
        BY <1>0, <2>5 DEF TypeInv
      <3> QED
        BY <2>2, <2>5, <3>1, <3>2, SettledStray DEF historyVars
    <2>6. CASE BeginRelease(t, r, g, "releasing") /\ UNCHANGED entries
      <3>1. ~release_started[g]
        BY <2>6 DEF BeginRelease
      <3>2. PICK v \in Routes : entries[v] = g
        BY <2>4, <3>1 DEF BudgetInv, EntryInv, CountInv, HeldLeasesAreCounted
      <3>3. v = r
        BY <1>0, <2>4, <3>2 DEF HandInv, OwnerInv
      <3> QED
        BY <1>0, <2>2, <2>4, <2>6, <3>2, <3>3, BeginStray
    <2> QED
      BY <1>1, <2>3, <2>5, <2>6 DEF ReleaseNow
  <1>2. CASE Released(t)
    <2>1. /\ u.pc = "releasing" /\ u.answered /\ UNCHANGED <<active, release_started, served, astray>>
          /\ entries' = RemoveMatchingEntry(r, u.releasing)
      BY <1>2 DEF Released, historyVars
    <2>2. admission = t /\ release_started[u.releasing]
      BY <1>0, <2>1 DEF MutexInv, Held, BudgetInv, EntryInv, AwaitInv
    <2>3. Settled
      BY <1>0, <2>1, <2>2, SettledAlone
    <2>4. \A x \in Routes : ~release_started[entries[x]] =>
             entries'[x] = entries[x] /\ ~release_started'[entries'[x]]
      BY <1>0, <2>1, <2>2 DEF RemoveMatchingEntry, TypeInv
    <2> QED
      BY <1>0, <2>1, <2>3, <2>4, SettledStray
  <1>3. CASE ReleaseFails(t)
    <2>1. /\ u.pc = "releasing" /\ UNCHANGED <<served, astray, entries, active>>
          /\ release_started' = [release_started EXCEPT ![u.releasing] = FALSE]
      BY <1>3 DEF ReleaseFails
    <2> QED
      BY <2>1, FailureStray
  <1>4. CASE TakeEndpoint(t)
    BY <1>4, TakeEndpointEffect, OneStray DEF TakeEndpoint, Held
  <1>5. CASE TakeIdentity(t)
    BY <1>5, TakeIdentityEffect, OneStray DEF TakeIdentity, Held
  <1>6. CASE InvalidateAndRelease(t)
    BY <1>6, InvalidateEffect, OneStray DEF InvalidateAndRelease, Held
  <1> QED
    BY <1>1, <1>2, <1>3, <1>4, <1>5, <1>6 DEF CleanUpStep

-------------------------------------------------------------------------------
(***************************************************************************)
(* The invariant                                                           *)
(***************************************************************************)

\* No lease was reserved yet and every task is idle.
LEMMA InitLeases ==
    ASSUME Init
    PROVE  LeaseInv
  <1>0. MaxAttempts \in Nat /\ 0 \in Generations /\ Limit \in Nat
    BY OriginsAssumption, LimitAssumption DEF Generations
  <1>1. TypeInv
    BY <1>0 DEF Init, TypeInv
  <1>2. \A t \in Tasks : task[t] = IdleTask /\ task[t].pc = "idle"
    BY DEF Init, IdleTask
  <1>3. TaskInv
    <2>1. TaskOK(IdleTask, 0)
      BY <1>0, EmptyHands
    <2> QED
      BY <1>2, <2>1 DEF Init, TaskInv
  <1>4. GenerationInv
    <2>1. Preparing = {}
      BY <1>2, TaskNames DEF Preparing, Prep
    <2>2. Cardinality(Preparing) = 0
      BY <2>1, FS_EmptySet
    <2> QED
      BY <1>0, <2>2 DEF Init, GenerationInv
  <1>5. MutexInv
    BY <1>2, TaskNames DEF Init, MutexInv, Held
  <1>6. EntryInv
    <2>1. FlagsInv
      BY <1>0 DEF Init, FlagsInv
    <2>2. ASSUME NEW o \in Origins PROVE Cardinality(Holders(o)) <= Limit
      <3>1. Holders(o) = {}
        BY DEF Init, Holders, Entries
      <3> QED
        BY <1>0, <3>1, FS_EmptySet
    <2>3. CountInv
      BY <2>2 DEF Init, CountInv, HeldLeasesAreCounted
    <2>4. \A t \in Tasks : AwaitInv(t)
      BY <1>2 DEF AwaitInv
    <2>5. \A r \in Routes : RoomInv(r)
      BY <1>2, TaskNames DEF RoomInv
    <2> QED
      BY <2>1, <2>3, <2>4, <2>5 DEF EntryInv
  <1>7. RetireInv
    BY <1>2, TaskNames DEF Init, RetireInv
  <1>8. HandInv
    <2>1. \A t \in Tasks : task[t].todo = <<>>
      BY <1>2 DEF IdleTask
    <2>2. ListInv
      BY <1>2, <2>1 DEF ListInv, ListOK
    <2>3. SlotInv
      BY <1>2, TaskNames DEF Init, SlotInv, SlotOK, GoesOnWithout
    <2> QED
      BY <2>2, <2>3 DEF Init, HandInv, KeptInv, OwnerInv
  <1>9. StrayInv
    BY <1>0 DEF Init, StrayInv
  <1> QED
    BY <1>1, <1>3, <1>4, <1>5, <1>6, <1>7, <1>8, <1>9 DEF LeaseInv

\* Whoever takes the next step, the leases stay consistent.
LEMMA StepLeases ==
    ASSUME LeaseInv, [Next]_vars
    PROVE  LeaseInv'
  <1>0. Typed /\ BudgetInv /\ RetireInv /\ HandInv /\ StrayInv
    BY DEF LeaseInv, Typed, BudgetInv
  <1>1. ASSUME NEW r \in Routes, SetupStep(r) PROVE LeaseInv'
    BY <1>0, <1>1, SetupTypes, SetupGenerations, SetupBudget, SetupRetires, SetupHands, SetupStray
       DEF LeaseInv, BudgetInv
  <1>2. ASSUME NEW r \in Routes, CallerStep(r) \/ RouteStep(r) PROVE LeaseInv'
    <2>1. ~retired[r] => task[Retirement(r)].pc = "idle"
      BY <1>0 DEF RetireInv
    <2> QED
      BY <1>0, <1>2, <2>1, OtherTypes, OtherGenerations, OtherBudget, OtherRetires, OtherHands, OtherStray
         DEF LeaseInv, BudgetInv
  <1>3. ASSUME NEW t \in Tasks, CleanUpStep(t) PROVE LeaseInv'
    BY <1>0, <1>3, CleanUpTypes, CleanUpGenerations, CleanUpBudget, CleanUpRetires, CleanUpHands,
       CleanUpStray
       DEF LeaseInv, BudgetInv
  <1>4. CASE UNCHANGED vars
    <2>1. UNCHANGED <<entries, next_generation, active, release_started, admission, served, attempts,
                      retired, endpoint, endpoint_lease, identity_lease, cached_session, refreshing, task,
                      astray, abandoned>>
      BY <1>4 DEF vars, budgetVars, routeVars, historyVars
    <2>2. TypeInv' /\ TaskInv'
      BY <1>0, <2>1 DEF Typed, TypeInv, TaskInv
    <2>3. GenerationInv'
      BY <1>0, <2>1 DEF Typed, GenerationInv, Preparing
    <2>4. MutexInv' /\ EntryInv'
      BY <1>0, <2>1 DEF BudgetInv, MutexInv, EntryInv, FlagsInv, CountInv, HeldLeasesAreCounted,
                        Holders, Entries, AwaitInv, RoomInv
    <2>5. RetireInv'
      BY <1>0, <2>1 DEF RetireInv, SetupWillTake
    <2>6. HandInv'
      BY <1>0, <2>1 DEF HandInv, ListInv, SlotInv, SlotOK, GoesOnWithout, KeptInv, OwnerInv, Todo
    <2>7. StrayInv'
      BY <1>0, <2>1 DEF StrayInv
    <2> QED
      BY <2>2, <2>3, <2>4, <2>5, <2>6, <2>7 DEF LeaseInv
  <1> QED
    BY <1>1, <1>2, <1>3, <1>4 DEF Next

\* The invariant behind the theorems below: however setups, callers,
\* retirements and refreshes interleave at their awaits, and wherever they are
\* dropped, the budget's state, the mutex and the tasks fit together.
THEOREM LeaseInvariant == Spec => []LeaseInv
  <1>1. Init => LeaseInv
    BY InitLeases
  <1>2. LeaseInv /\ [Next]_vars => LeaseInv'
    BY StepLeases
  <1> QED
    BY <1>1, <1>2, PTL DEF Spec

\* The state of the client's routes and of the relay tickets keeps its types; a
\* clean-up never has more than two handles to release, the endpoint's and the
\* identity's (release_direct_quic_resources), and neither of them is None.
THEOREM LeaseTypesHold == Spec => []TypeOK
  <1>1. LeaseInv => TypeOK
    <2> SUFFICES ASSUME LeaseInv PROVE TypeOK
      OBVIOUS
    <2>1. TypeInv /\ TaskInv /\ next_generation \in Generations
      BY DEF LeaseInv, TypeInv
    <2>2. ASSUME NEW t \in Tasks
          PROVE  /\ task[t].pc \in {"idle", "lookup", "waiting", "enter", "reserve",
                       "evict", "evicting", "set_identity", "ticket", "check_retired",
                       "install", "connect", "take_endpoint", "take_identity",
                       "invalidate", "release", "releasing", "failed"}
                 /\ Len(task[t].todo) <= 2
                 /\ \A i \in DOMAIN task[t].todo : task[t].todo[i] \in 1..MaxAttempts
      <3>1. task[t] \in Task /\ task[t].todo \in TodoLists(next_generation)
        BY <2>1 DEF TaskInv, TaskOK
      <3>2. /\ Len(task[t].todo) <= 2
            /\ \A i \in DOMAIN task[t].todo : task[t].todo[i] \in 1..next_generation
        BY <2>1, <3>1, Lists
      <3>3. 1..next_generation \subseteq 1..MaxAttempts
        BY <2>1, OriginsAssumption DEF Generations
      <3>4. task[t].pc \in {"idle", "lookup", "waiting", "enter", "reserve",
                       "evict", "evicting", "set_identity", "ticket", "check_retired",
                       "install", "connect", "take_endpoint", "take_identity",
                       "invalidate", "release", "releasing", "failed"}
        BY <3>1 DEF Task
      <3> QED
        BY <3>2, <3>3, <3>4
    <2>3. astray \subseteq Routes /\ abandoned \subseteq Generations
      BY DEF LeaseInv, HandInv, StrayInv
    <2> QED
      BY <2>1, <2>2, <2>3 DEF TypeInv, TypeOK
  <1> QED
    BY <1>1, LeaseInvariant, PTL

\* IrohRelayLeaseBudget::reserve and release_now: for any number of routes that
\* share rendezvous services in any way, any limit and any number of setups, the
\* entries of a service never exceed max_per_origin, and the routes that the
\* service serves are among them, also when a setup or a caller is dropped while
\* it awaits the answer to a release; except for the routes that are astray,
\* which a service may serve although the client no longer counts them.
THEOREM BudgetIsKept == Spec => []WithinBudget
  <1>1. LeaseInv => WithinBudget
    <2> SUFFICES ASSUME LeaseInv PROVE WithinBudget
      OBVIOUS
    <2>1. CountInv /\ StrayInv
      BY DEF LeaseInv, EntryInv
    <2>2. ASSUME NEW o \in Origins PROVE served[o] \ astray \subseteq Holders(o)
      BY <2>1 DEF StrayInv, Holders, Entries
    <2> QED
      BY <2>1, <2>2 DEF CountInv, WithinBudget
  <1> QED
    BY <1>1, LeaseInvariant, PTL

\* retire, and the setup that finds its route retired when its ticket has come or
\* its endpoint is to be installed: a retired route at rest has no endpoint, no
\* lease in the slot of its identity, and no entry in the budget unless the
\* handle of that entry was abandoned.
THEOREM RetiredLetGo == Spec => []RetiredRoutesLetGo
  <1>1. LeaseInv => RetiredRoutesLetGo
    <2> SUFFICES ASSUME LeaseInv, NEW r \in Routes, retired[r], \A k \in Kinds : task[<<r, k>>].pc = "idle"
                 PROVE  ~endpoint[r] /\ identity_lease[r] = 0 /\ entries[r] \in abandoned \cup {0}
      BY DEF RetiredRoutesLetGo
    <2>1. task[Setup(r)].pc = "idle" /\ task[Retirement(r)].pc = "idle" /\ task[Caller(r)].pc = "idle"
      BY DEF Kinds, Setup, Retirement, Caller
    <2>2. ~endpoint[r] /\ identity_lease[r] = 0
      BY <2>1 DEF LeaseInv, RetireInv, SetupWillTake
    <2>3. endpoint_lease[r] = 0
      BY <2>2 DEF LeaseInv, HandInv, SlotInv, SlotOK
    <2>4. ASSUME NEW t \in Tasks, RouteOf(t) = r PROVE Todo(t) = {}
      <3>1. t \in {Setup(r), Retirement(r), Caller(r)}
        BY <2>4, TaskNames
      <3>2. task[t].todo = <<>>
        BY <2>1, <3>1 DEF LeaseInv, HandInv, ListInv, ListOK
      <3> QED
        BY <3>2 DEF Todo
    <2> QED
      BY <2>1, <2>2, <2>3, <2>4 DEF LeaseInv, HandInv, KeptInv
  <1> QED
    BY <1>1, LeaseInvariant, PTL

===============================================================================
