------------------------------ MODULE RelayLease ------------------------------
(***************************************************************************)
(* The direct QUIC routes of a client, the budget of endpoint-bound relay  *)
(* leases that they share, and the leases that the rendezvous servers hold *)
(* for the client (crates/client-sdk/src/session_pool.rs and               *)
(* iroh_lease_budget.rs, crates/rendezvous-server/src/iroh_relay.rs).      *)
(*                                                                         *)
(* A route has one key, hence one endpoint id, so leases are named by      *)
(* their route.  Three kinds of tasks work on a route: the detached shared *)
(* setup of its session, a caller that wants a session, and the clean-up   *)
(* that follows its retirement.  A task gives up control where the code    *)
(* awaits; what it does in between is one step.  Setups are dropped by     *)
(* their time limit and callers by whoever owns them, at any await, also   *)
(* while they hold the admission mutex of the budget.                      *)
(*                                                                         *)
(* The order of last accesses only picks the victim of an eviction; every  *)
(* order is possible, since refreshes and callers touch leases at will, so *)
(* the victim is any lease that the code would consider.                   *)
(***************************************************************************)
EXTENDS Naturals, Sequences, FiniteSets

CONSTANTS Routes,        \* the direct QUIC routes of the client
          Origins,       \* rendezvous services
          OriginsOf,     \* rendezvous_origins of a route
          Limit,         \* max_per_origin
          ServerLimit,   \* max_leases_per_client
          MaxAttempts,   \* bound: number of setups, hence of reservations
          MaxDisturbances \* bound: failures, drops, retirements, refreshes, expiries

ASSUME LimitAssumption == Limit \in Nat \ {0} /\ ServerLimit \in Nat \ {0}
ASSUME OriginsAssumption ==
    /\ IsFiniteSet(Routes)
    /\ OriginsOf \in [Routes -> SUBSET Origins]
    /\ MaxAttempts \in Nat /\ MaxDisturbances \in Nat

VARIABLES entries,         \* IrohRelayLeaseBudgetState.entries: generation, or 0
          next_generation, \* of the budget
          active,          \* IrohRelayLeaseHandle.active, per generation
          release_started, \* IrohRelayLeaseHandle.release_started
          admission,       \* the task that holds the admission mutex
          served,          \* TicketLeaseState.leases: the routes an origin serves
          retired,         \* per route
          endpoint,        \* the endpoint slot of a route is occupied
          endpoint_lease,  \* ManagedDirectQuicEndpoint.relay_ticket_lease, or 0
          identity_lease,  \* DirectQuicSetupIdentity.relay_ticket_lease, or 0
          cached_session,  \* the route has a cached session
          refreshing,      \* its refresh task is about to request a ticket
          attempts,        \* the setups begun so far (next_attempt_id)
          task,            \* where each task is
          disturbances     \* counts what MaxDisturbances bounds

\* What the properties remember; no action reads it.
VARIABLES astray,          \* the routes that a service may serve without their entry
          abandoned        \* the handles whose holder was dropped, or failed to release them

budgetVars == <<entries, next_generation, active, release_started, admission>>
routeVars == <<attempts, retired, endpoint, endpoint_lease, identity_lease, cached_session, refreshing>>
historyVars == <<astray, abandoned>>
vars == <<budgetVars, served, historyVars, routeVars, task, disturbances>>

Disturb == disturbances < MaxDisturbances /\ disturbances' = disturbances + 1

Kinds == {"setup", "caller", "retire"}
Tasks == Routes \X Kinds
Nobody == <<"nobody">>

Generations == 0..MaxAttempts   \* 0 is None

Setup(r) == <<r, "setup">>
Caller(r) == <<r, "caller">>
Retirement(r) == <<r, "retire">>

\* lease: the handle a setup works with; todo: the handles it still has to
\* release, after which it goes on at `then`; releasing: the handle whose
\* release it awaits; answered: every origin will say that it is released.
Task == [pc : {"idle", "lookup", "waiting", "enter", "reserve", "evict", "evicting",
               "set_identity", "ticket", "check_retired", "install", "connect",
               "take_endpoint", "take_identity", "invalidate", "release", "releasing", "failed"},
         lease : Generations,
         todo : Seq(Generations),
         then : {"idle", "failed", "lookup", "check_retired", "take_endpoint"},
         releasing : Generations,
         answered : BOOLEAN]

IdleTask == [pc |-> "idle", lease |-> 0, todo |-> <<>>, then |-> "idle",
             releasing |-> 0, answered |-> FALSE]

\* release_direct_quic_resources begins, and the task goes on at `then`.
CleanUp(then) == [IdleTask EXCEPT !.pc = "take_endpoint", !.then = then]

Init ==
    /\ entries = [r \in Routes |-> 0]
    /\ next_generation = 0
    /\ active = [g \in Generations |-> FALSE]
    /\ release_started = [g \in Generations |-> FALSE]
    /\ admission = Nobody
    /\ served = [o \in Origins |-> {}]
    /\ attempts = 0
    /\ retired = [r \in Routes |-> FALSE]
    /\ endpoint = [r \in Routes |-> FALSE]
    /\ endpoint_lease = [r \in Routes |-> 0]
    /\ identity_lease = [r \in Routes |-> 0]
    /\ cached_session = [r \in Routes |-> FALSE]
    /\ refreshing = [r \in Routes |-> FALSE]
    /\ task = [t \in Tasks |-> IdleTask]
    /\ disturbances = 0
    /\ astray = {} /\ abandoned = {}

-------------------------------------------------------------------------------
(***************************************************************************)
(* IrohRelayLeaseBudget                                                    *)
(***************************************************************************)

Entries == {r \in Routes : entries[r] # 0}
Holders(o) == {r \in Entries : o \in OriginsOf[r]}
\* Mutant: the new lease is not counted.
SaturatedOffByOne(r) == {o \in OriginsOf[r] : Cardinality(Holders(o)) > Limit}

Saturated(r) == {o \in OriginsOf[r] : Cardinality(Holders(o)) >= Limit}

\* select_lru_eviction: the leases that may have to make room for r.
Evictable(r) == {v \in Entries \ {r} : OriginsOf[v] \cap Saturated(r) # {}}

\* remove_matching_entry
RemoveMatchingEntry(r, g) ==
    IF entries[r] = g THEN [entries EXCEPT ![r] = 0] ELSE entries

\* The route whose lease a handle of the task t stands for.
Victims(t) == {v \in Routes : task[t].releasing # 0 /\ entries[v] = task[t].releasing}

Goto(t, where) == task' = [task EXCEPT ![t].pc = where]

\* The rest of `todo`, or what comes after it.
NextRelease(t) ==
    LET rest == Tail(task[t].todo) IN
    task' = [task EXCEPT ![t] =
                IF rest # <<>>
                THEN [@ EXCEPT !.pc = "release", !.todo = rest, !.releasing = 0, !.answered = FALSE]
                ELSE IF task[t].then = "take_endpoint"
                     THEN CleanUp("failed")
                     ELSE [IdleTask EXCEPT !.pc = task[t].then]]

\* release_server_once, when no release of g was begun.  The request reaches
\* all the origins of the route and they all answer, or only some of that
\* happens and the call will return an error.
BeginRelease(t, r, g, where) ==
    /\ ~release_started[g]
    /\ release_started' = [release_started EXCEPT ![g] = TRUE]
    /\ active' = [active EXCEPT ![g] = FALSE]
    /\ \E arrived \in SUBSET OriginsOf[r], ok \in BOOLEAN :
          /\ ok => arrived = OriginsOf[r]
          /\ IF ok THEN UNCHANGED disturbances ELSE Disturb
          /\ served' = [o \in Origins |-> IF o \in arrived THEN served[o] \ {r} ELSE served[o]]
          /\ astray' = IF arrived = OriginsOf[r] THEN astray \ {r} ELSE astray
          /\ task' = [task EXCEPT ![t] = [@ EXCEPT !.pc = where, !.releasing = g,
                                                   !.answered = ok]]
    /\ admission' = t
    /\ UNCHANGED abandoned

\* reserve takes the mutex and looks for a lease of the route.
Reserve(r) ==
    LET t == Setup(r) g == entries[r] IN
    /\ task[t].pc = "reserve"
    /\ admission = Nobody
    /\ \/ /\ g # 0 /\ active[g]
          /\ task' = [task EXCEPT ![t] = [@ EXCEPT !.pc = "set_identity", !.lease = g]]
          /\ UNCHANGED <<budgetVars, served, historyVars, disturbances>>
       \/ /\ g # 0 /\ ~active[g] /\ release_started[g]
          /\ entries' = RemoveMatchingEntry(r, g)
          /\ admission' = t
          /\ Goto(t, "evict")
          /\ UNCHANGED <<next_generation, active, release_started, served, historyVars, disturbances>>
       \/ /\ g # 0 /\ ~active[g]
          /\ BeginRelease(t, r, g, "evicting")
          /\ UNCHANGED <<entries, next_generation>>
       \/ /\ g = 0
          /\ admission' = t
          /\ Goto(t, "evict")
          /\ UNCHANGED <<entries, next_generation, active, release_started, served, historyVars, disturbances>>
    /\ UNCHANGED routeVars

\* No origin is saturated: the reservation is entered.
Grant(r) ==
    LET t == Setup(r) g == next_generation + 1 IN
    /\ task[t].pc = "evict"
    /\ Saturated(r) = {}
    /\ next_generation' = g
    /\ entries' = [entries EXCEPT ![r] = g]
    /\ active' = [active EXCEPT ![g] = TRUE]
    /\ admission' = Nobody
    /\ task' = [task EXCEPT ![t] = [@ EXCEPT !.pc = "set_identity", !.lease = g]]
    /\ UNCHANGED <<release_started, served, historyVars, routeVars, disturbances>>

\* Another lease is released first.
Evict(r) ==
    LET t == Setup(r) IN
    /\ task[t].pc = "evict"
    /\ \E v \in Evictable(r) :
          \/ /\ release_started[entries[v]]
             /\ entries' = RemoveMatchingEntry(v, entries[v])
             /\ UNCHANGED <<next_generation, active, release_started, admission, served, historyVars, task, disturbances>>
          \/ /\ BeginRelease(t, v, entries[v], "evicting")
             /\ UNCHANGED <<entries, next_generation>>
    /\ UNCHANGED routeVars

\* Every origin answered: the victim's entry goes.
Evicted(r) ==
    LET t == Setup(r) IN
    /\ task[t].pc = "evicting"
    /\ task[t].answered
    /\ \E v \in Victims(t) : entries' = RemoveMatchingEntry(v, task[t].releasing)
    /\ task' = [task EXCEPT ![t] = [@ EXCEPT !.pc = "evict", !.releasing = 0, !.answered = FALSE]]
    /\ UNCHANGED <<next_generation, active, release_started, admission, served, historyVars, routeVars, disturbances>>

\* An origin did not answer, or with an error: reserve fails, and the release
\* may be tried again.
EvictionFails(r) ==
    LET t == Setup(r) IN
    /\ task[t].pc = "evicting"
    /\ ~task[t].answered
    /\ release_started' = [release_started EXCEPT ![task[t].releasing] = FALSE]
    /\ admission' = Nobody
    /\ task' = [task EXCEPT ![t] = CleanUp("failed")]
    /\ UNCHANGED <<entries, next_generation, active, served, historyVars, routeVars, disturbances>>

-------------------------------------------------------------------------------
(***************************************************************************)
(* release_now, for the handles that a task has to give back               *)
(***************************************************************************)

RouteOf(t) == t[1]

ReleaseNow(t) ==
    LET g == Head(task[t].todo) IN
    /\ task[t].pc = "release"
    /\ admission = Nobody
    /\ \/ /\ release_started[g]
          /\ active' = [active EXCEPT ![g] = FALSE]
          /\ entries' = RemoveMatchingEntry(RouteOf(t), g)
          /\ NextRelease(t)
          /\ UNCHANGED <<next_generation, release_started, admission, served, historyVars, disturbances>>
       \/ /\ BeginRelease(t, RouteOf(t), g, "releasing")
          /\ UNCHANGED <<entries, next_generation>>
    /\ UNCHANGED routeVars

Released(t) ==
    /\ task[t].pc = "releasing"
    /\ task[t].answered
    /\ entries' = RemoveMatchingEntry(RouteOf(t), task[t].releasing)
    /\ admission' = Nobody
    /\ NextRelease(t)
    /\ UNCHANGED <<next_generation, active, release_started, served, historyVars, routeVars, disturbances>>

\* The error is logged; the entry stays, inactive.
ReleaseFails(t) ==
    /\ task[t].pc = "releasing"
    /\ ~task[t].answered
    /\ release_started' = [release_started EXCEPT ![task[t].releasing] = FALSE]
    /\ admission' = Nobody
    /\ NextRelease(t)
    /\ abandoned' = abandoned \union {task[t].releasing}
    /\ UNCHANGED <<entries, next_generation, active, served, astray, routeVars, disturbances>>

-------------------------------------------------------------------------------
(***************************************************************************)
(* release_direct_quic_resources: one lock after the other                 *)
(***************************************************************************)

\* Dropping the endpoint aborts its refresh task.
TakeEndpoint(t) ==
    LET r == RouteOf(t) IN
    /\ task[t].pc = "take_endpoint"
    /\ endpoint' = [endpoint EXCEPT ![r] = FALSE]
    /\ endpoint_lease' = [endpoint_lease EXCEPT ![r] = 0]
    /\ refreshing' = [refreshing EXCEPT ![r] = FALSE]
    /\ task' = [task EXCEPT ![t] = [@ EXCEPT
                   !.pc = "take_identity",
                   !.todo = IF endpoint_lease[r] = 0 THEN <<>> ELSE <<endpoint_lease[r]>>]]
    /\ UNCHANGED <<budgetVars, served, historyVars, attempts, retired, identity_lease, cached_session, disturbances>>

TakeIdentity(t) ==
    LET r == RouteOf(t) g == identity_lease[r] IN
    /\ task[t].pc = "take_identity"
    /\ identity_lease' = [identity_lease EXCEPT ![r] = 0]
    /\ task' = [task EXCEPT ![t] = [@ EXCEPT
                   !.pc = "invalidate",
                   !.todo = IF g = 0 \/ task[t].todo = <<g>> THEN task[t].todo
                            ELSE <<g>> \o task[t].todo]]
    /\ UNCHANGED <<budgetVars, served, historyVars, attempts, retired, endpoint, endpoint_lease,
                   cached_session, refreshing, disturbances>>

InvalidateAndRelease(t) ==
    /\ task[t].pc = "invalidate"
    /\ cached_session' = [cached_session EXCEPT ![RouteOf(t)] = FALSE]
    /\ task' = [task EXCEPT ![t] = IF task[t].todo = <<>>
                                   THEN [IdleTask EXCEPT !.pc = task[t].then]
                                   ELSE [task[t] EXCEPT !.pc = "release"]]
    /\ UNCHANGED <<budgetVars, served, historyVars, attempts, retired, endpoint, endpoint_lease,
                   identity_lease, refreshing, disturbances>>

-------------------------------------------------------------------------------
(***************************************************************************)
(* Callers                                                                 *)
(***************************************************************************)

Revoked(g) == g # 0 /\ ~active[g]

\* ensure_direct_session: refuse a retired route, clear what was revoked.
Call(r) ==
    LET t == Caller(r) IN
    /\ task[t].pc = "idle"
    /\ ~retired[r]
    /\ task' = [task EXCEPT ![t] =
                   IF Revoked(endpoint_lease[r]) \/ Revoked(identity_lease[r])
                   THEN CleanUp("lookup") ELSE [IdleTask EXCEPT !.pc = "lookup"]]
    /\ UNCHANGED <<budgetVars, served, historyVars, routeVars, disturbances>>

Usable(r) == cached_session[r] /\ ~Revoked(identity_lease[r])

\* The cached session is returned, or the caller joins the shared setup,
\* which it starts if there is none.
Lookup(r) ==
    LET t == Caller(r) IN
    /\ task[t].pc = "lookup"
    /\ \/ /\ Usable(r)
          /\ task' = [task EXCEPT ![t] = IdleTask]
          /\ UNCHANGED attempts
       \/ /\ ~Usable(r) /\ task[Setup(r)].pc # "idle"
          /\ Goto(t, "waiting")
          /\ UNCHANGED attempts
       \/ /\ ~Usable(r) /\ task[Setup(r)].pc = "idle"
          /\ attempts < MaxAttempts
          /\ attempts' = attempts + 1
          /\ task' = [task EXCEPT ![t].pc = "waiting",
                                  ![Setup(r)] = [IdleTask EXCEPT !.pc = "enter"]]
    /\ UNCHANGED <<budgetVars, served, historyVars, retired, endpoint, endpoint_lease, identity_lease,
                   cached_session, refreshing, disturbances>>

Unlocked(t) == IF admission = t THEN Nobody ELSE admission

\* The future of t is dropped: it unlocks the mutex, and nothing releases the
\* handles that only t had (their entries keep them alive).  A release that did not reach every origin is not
\* repeated, since release_started stays set.
Dropped(t) ==
    /\ admission' = Unlocked(t)
    /\ abandoned' = abandoned \union
          (({task[t].lease} \union {task[t].todo[i] : i \in DOMAIN task[t].todo})
              \ {0, identity_lease[RouteOf(t)], endpoint_lease[RouteOf(t)]})
    /\ astray' = IF task[t].answered THEN astray ELSE astray \union Victims(t)

\* The caller's future is dropped, at any await.
CancelCaller(r) ==
    LET t == Caller(r) IN
    /\ task[t].pc # "idle"
    /\ Dropped(t)
    /\ task' = [task EXCEPT ![t] = IdleTask]
    /\ Disturb
    /\ UNCHANGED <<entries, next_generation, active, release_started, served, routeVars>>

-------------------------------------------------------------------------------
(***************************************************************************)
(* The shared setup                                                        *)
(***************************************************************************)

\* The shared setup has its result, and the waiting caller gets it.
Finish(r) ==
    task' = [task EXCEPT ![Setup(r)] = IdleTask,
                         ![Caller(r)] = IF @.pc = "waiting" THEN IdleTask ELSE @]

\* Up to the reservation of a lease.
Enter(r) ==
    LET t == Setup(r) IN
    /\ task[t].pc = "enter"
    /\ \/ Usable(r) /\ Finish(r)
       \/ /\ ~Usable(r)
          /\ retired[r] \/ (endpoint[r] /\ Revoked(endpoint_lease[r]))
          /\ task' = [task EXCEPT ![t] = CleanUp("failed")]
       \/ /\ ~Usable(r) /\ ~retired[r] /\ endpoint[r] /\ ~Revoked(endpoint_lease[r])
          /\ task' = [task EXCEPT ![t].pc = "connect"]
       \/ /\ ~Usable(r) /\ ~retired[r] /\ ~endpoint[r]
          /\ identity_lease[r] # 0 /\ active[identity_lease[r]]
          /\ task' = [task EXCEPT ![t] = [@ EXCEPT !.pc = "ticket",
                                                   !.lease = identity_lease[r]]]
       \/ /\ ~Usable(r) /\ ~retired[r] /\ ~endpoint[r]
          /\ identity_lease[r] = 0 \/ Revoked(identity_lease[r])
          /\ Goto(t, "reserve")
    /\ UNCHANGED <<budgetVars, served, historyVars, routeVars, disturbances>>

SetIdentityLease(r) ==
    LET t == Setup(r) IN
    /\ task[t].pc = "set_identity"
    /\ identity_lease' = [identity_lease EXCEPT ![r] = task[t].lease]
    /\ Goto(t, "ticket")
    /\ UNCHANGED <<budgetVars, served, historyVars, attempts, retired, endpoint, endpoint_lease,
                   cached_session, refreshing, disturbances>>

\* issue_or_reuse at the origin o would hand out a ticket.
Issuable(r, o) == r \in served[o] \/ Cardinality(served[o]) < ServerLimit

\* The tickets were asked for on behalf of the handle g, which may have been
\* released in the meantime: nothing looks at it again.
IssueAt(r, g, origins) ==
    /\ served' = [o \in Origins |-> IF o \in origins THEN served[o] \union {r} ELSE served[o]]
    /\ astray' = IF active[g] \/ origins = {} THEN astray ELSE astray \union {r}
    /\ UNCHANGED abandoned

\* The first ticket that arrives is enough.
TicketIssued(r) ==
    LET t == Setup(r) IN
    /\ task[t].pc = "ticket"
    /\ \E origins \in SUBSET {o \in OriginsOf[r] : Issuable(r, o)} :
          origins # {} /\ IssueAt(r, task[t].lease, origins)
    /\ Goto(t, "check_retired")
    /\ UNCHANGED <<budgetVars, routeVars, disturbances>>

\* No origin issued a ticket and none reported backpressure: the reservation
\* is given back and the route goes on without a relay.
TicketUnavailable(r) ==
    LET t == Setup(r) IN
    /\ task[t].pc = "ticket"
    /\ identity_lease' = [identity_lease EXCEPT ![r] = 0]
    /\ task' = [task EXCEPT ![t] = [@ EXCEPT !.pc = "release", !.lease = 0,
                                             !.todo = <<task[t].lease>>,
                                             !.then = "check_retired"]]
    /\ Disturb
    /\ UNCHANGED <<budgetVars, served, historyVars, attempts, retired, endpoint, endpoint_lease,
                   cached_session, refreshing>>

\* Mutant: a setup that goes on without a lease releases one all the same.
CheckRetiredAlwaysReleases(r) ==
    LET t == Setup(r) IN
    /\ task[t].pc = "check_retired"
    /\ task' = [task EXCEPT ![t] = IF retired[r]
                   THEN [IdleTask EXCEPT !.pc = "release", !.todo = <<task[t].lease>>,
                                         !.then = "take_endpoint"]
                   ELSE [task[t] EXCEPT !.pc = "install"]]
    /\ UNCHANGED <<budgetVars, served, historyVars, routeVars, disturbances>>

\* The route may have been retired while the ticket was requested.
CheckRetired(r) ==
    LET t == Setup(r) g == task[t].lease IN
    /\ task[t].pc = "check_retired"
    /\ \/ /\ retired[r] /\ g # 0
          /\ task' = [task EXCEPT ![t] = [IdleTask EXCEPT !.pc = "release", !.todo = <<g>>,
                                                          !.then = "take_endpoint"]]
       \/ /\ retired[r] /\ g = 0
          /\ task' = [task EXCEPT ![t] = CleanUp("failed")]
       \/ /\ ~retired[r]
          /\ Goto(t, "install")
    /\ UNCHANGED <<budgetVars, served, historyVars, routeVars, disturbances>>

\* Mutant: the retirement is not looked at under the slot's lock.
InstallWithoutCheck(r) ==
    LET t == Setup(r) IN
    /\ task[t].pc = "install"
    /\ endpoint' = [endpoint EXCEPT ![r] = TRUE]
    /\ endpoint_lease' = [endpoint_lease EXCEPT ![r] = task[t].lease]
    /\ Goto(t, "connect")
    /\ UNCHANGED <<budgetVars, served, historyVars, attempts, retired, identity_lease, cached_session, refreshing, disturbances>>

\* The endpoint is bound and put into the slot, unless the route was retired.
Install(r) ==
    LET t == Setup(r) g == identity_lease[r] IN
    /\ task[t].pc = "install"
    /\ \/ /\ retired[r]
          /\ identity_lease' = [identity_lease EXCEPT ![r] = 0]
          /\ task' = [task EXCEPT ![t] =
                         IF g = 0 THEN CleanUp("failed")
                         ELSE [IdleTask EXCEPT !.pc = "release", !.todo = <<g>>,
                                               !.then = "take_endpoint"]]
          /\ UNCHANGED <<endpoint, endpoint_lease>>
       \/ /\ ~retired[r]
          /\ endpoint' = [endpoint EXCEPT ![r] = TRUE]
          /\ endpoint_lease' = [endpoint_lease EXCEPT ![r] = task[t].lease]
          /\ Goto(t, "connect")
          /\ UNCHANGED identity_lease
    /\ UNCHANGED <<budgetVars, served, historyVars, attempts, retired, cached_session, refreshing, disturbances>>

\* Connection and handshake succeed and the session is cached.
Connect(r) ==
    /\ task[Setup(r)].pc = "connect"
    /\ cached_session' = [cached_session EXCEPT ![r] = TRUE]
    /\ Finish(r)
    /\ UNCHANGED <<budgetVars, served, historyVars, attempts, retired, endpoint, endpoint_lease,
                   identity_lease, refreshing, disturbances>>

\* The error is sent, after the clean-up.
SetupFailed(r) ==
    /\ task[Setup(r)].pc = "failed"
    /\ Finish(r)
    /\ UNCHANGED <<budgetVars, served, historyVars, routeVars, disturbances>>

\* The part of a setup that runs under the time limit.
Cancellable(t) ==
    \/ task[t].pc \in {"reserve", "evict", "evicting", "set_identity", "ticket",
                       "check_retired", "install", "connect"}
    \/ /\ task[t].pc \in {"release", "releasing"}
       /\ task[t].then \in {"check_retired", "take_endpoint"}

\* The time limit, or any other error: what the setup awaits is dropped, and
\* the route's resources are released.
SetupFails(r) ==
    LET t == Setup(r) IN
    /\ Cancellable(t)
    /\ Dropped(t)
    /\ task' = [task EXCEPT ![t] = CleanUp("failed")]
    /\ Disturb
    /\ UNCHANGED <<entries, next_generation, active, release_started, served, routeVars>>

-------------------------------------------------------------------------------
(***************************************************************************)
(* Retirement, refresh and loss of sessions                                *)
(***************************************************************************)

Retire(r) ==
    /\ ~retired[r]
    /\ retired' = [retired EXCEPT ![r] = TRUE]
    /\ task' = [task EXCEPT ![Retirement(r)] = CleanUp("idle")]
    /\ Disturb
    /\ UNCHANGED <<budgetVars, served, historyVars, attempts, endpoint, endpoint_lease, identity_lease,
                   cached_session, refreshing>>

\* The refresh task finds its lease active and asks for tickets ...
RefreshDue(r) ==
    /\ endpoint[r] /\ endpoint_lease[r] # 0 /\ active[endpoint_lease[r]]
    /\ ~refreshing[r]
    /\ refreshing' = [refreshing EXCEPT ![r] = TRUE]
    /\ Disturb
    /\ UNCHANGED <<budgetVars, served, historyVars, attempts, retired, endpoint, endpoint_lease,
                   identity_lease, cached_session, task>>

\* ... some origins issue one; a rollover replaces the endpoint and drops
\* the session that was made with the old one.
Refresh(r) ==
    /\ refreshing[r]
    /\ refreshing' = [refreshing EXCEPT ![r] = FALSE]
    /\ \E origins \in SUBSET {o \in OriginsOf[r] : Issuable(r, o)} :
          IssueAt(r, endpoint_lease[r], origins)
    /\ cached_session' \in {cached_session, [cached_session EXCEPT ![r] = FALSE]}
    /\ UNCHANGED <<budgetVars, attempts, retired, endpoint, endpoint_lease, identity_lease, task, disturbances>>

\* invalidate, after a request failed.
Invalidate(r) ==
    /\ cached_session[r]
    /\ cached_session' = [cached_session EXCEPT ![r] = FALSE]
    /\ Disturb
    /\ UNCHANGED <<budgetVars, served, historyVars, attempts, retired, endpoint, endpoint_lease,
                   identity_lease, refreshing, task>>

\* prune_expired, when the ticket of a route has run out.
Expire(r) ==
    \E o \in Origins :
        /\ r \in served[o]
        /\ served' = [served EXCEPT ![o] = @ \ {r}]
        /\ Disturb
        /\ UNCHANGED <<budgetVars, historyVars, routeVars, task>>

-------------------------------------------------------------------------------

SetupStep(r) ==
    \/ Enter(r) \/ Reserve(r) \/ Grant(r) \/ Evict(r) \/ Evicted(r) \/ EvictionFails(r)
    \/ SetIdentityLease(r) \/ TicketIssued(r) \/ TicketUnavailable(r) \/ CheckRetired(r)
    \/ Install(r) \/ Connect(r) \/ SetupFails(r) \/ SetupFailed(r)

CallerStep(r) == Call(r) \/ Lookup(r) \/ CancelCaller(r)

CleanUpStep(t) ==
    \/ ReleaseNow(t) \/ Released(t) \/ ReleaseFails(t)
    \/ TakeEndpoint(t) \/ TakeIdentity(t) \/ InvalidateAndRelease(t)

RouteStep(r) ==
    Retire(r) \/ RefreshDue(r) \/ Refresh(r) \/ Invalidate(r) \/ Expire(r)

Next ==
    \/ \E r \in Routes : SetupStep(r) \/ CallerStep(r) \/ RouteStep(r)
    \/ \E t \in Tasks : CleanUpStep(t)

Spec == Init /\ [][Next]_vars

-------------------------------------------------------------------------------
(***************************************************************************)
(* Properties                                                              *)
(***************************************************************************)

TypeOK ==
    /\ entries \in [Routes -> Generations]
    /\ next_generation \in Generations
    /\ active \in [Generations -> BOOLEAN]
    /\ release_started \in [Generations -> BOOLEAN]
    /\ admission \in Tasks \union {Nobody}
    /\ served \in [Origins -> SUBSET Routes]
    /\ attempts \in 0..MaxAttempts
    /\ retired \in [Routes -> BOOLEAN]
    /\ endpoint \in [Routes -> BOOLEAN]
    /\ endpoint_lease \in [Routes -> Generations]
    /\ identity_lease \in [Routes -> Generations]
    /\ cached_session \in [Routes -> BOOLEAN]
    /\ refreshing \in [Routes -> BOOLEAN]
    /\ astray \subseteq Routes /\ abandoned \subseteq Generations
    /\ \A t \in Tasks : /\ task[t].pc \in {"idle", "lookup", "waiting", "enter", "reserve",
                               "evict", "evicting", "set_identity", "ticket", "check_retired",
                               "install", "connect", "take_endpoint", "take_identity",
                               "invalidate", "release", "releasing", "failed"}
                         /\ Len(task[t].todo) <= 2
                         /\ \A i \in DOMAIN task[t].todo : task[t].todo[i] \in 1..MaxAttempts

\* An active handle is the entry of its route, which a late release of an
\* earlier handle of the route does not take away, and so is one whose release
\* failed, for the next reservation to release it again.
HeldLeasesAreCounted ==
    \A g \in 1..next_generation :
        active[g] \/ ~release_started[g] => \E r \in Routes : entries[r] = g

\* Whatever is evicted, dropped half-way or released twice, the client's count
\* of its leases at an origin stays within max_per_origin, also for routes with
\* several origins, and the routes that a rendezvous service serves are among
\* those counted.  The budget does not cover what is astray: a route whose
\* release was dropped before every origin had it (the next reservation only
\* forgets its entry), and one whose ticket arrived after its handle was
\* released, until a later release of the route reaches all its origins.
WithinBudget ==
    /\ \A o \in Origins : /\ Cardinality(Holders(o)) <= Limit
                          /\ served[o] \ astray \subseteq Holders(o)
    /\ HeldLeasesAreCounted

\* A retired route that has come to rest has no endpoint, no lease in the slot
\* of its identity, and no entry in the budget: a setup that was under way when
\* the route was removed gives back whatever it acquired after the clean-up of
\* the retirement.  Only the entry of a handle that was abandoned stays, until
\* an eviction takes it: one that a failed setup or a cancelled caller had in
\* its hands, or whose release an origin did not answer.
RetiredRoutesLetGo ==
    \A r \in Routes :
        retired[r] /\ (\A k \in Kinds : task[<<r, k>>].pc = "idle")
            => ~endpoint[r] /\ identity_lease[r] = 0 /\ entries[r] \in abandoned \union {0}

===============================================================================
