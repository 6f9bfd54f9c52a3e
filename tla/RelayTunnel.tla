------------------------------ MODULE RelayTunnel ------------------------------
(***************************************************************************)
(* Relay tunnels: how a client that cannot reach a node directly is paired *)
(* with it at a rendezvous server.                                         *)
(*                                                                         *)
(* The server keeps tickets (RelayTicketIssueLimiter in                    *)
(* crates/rendezvous-server/src/lib.rs) and two queues per target          *)
(* (RelayTunnelBroker in crates/transport-sdk/src/rendezvous_runtime.rs):  *)
(* sources that wait for the target and targets that wait for a source.    *)
(* The node does not poll: it holds a wake connection, is told when a      *)
(* source queues up, and then accepts sources until none is left           *)
(* (spawn_rendezvous_relay_wake_task in crates/server-node-sdk/src/lib.rs).*)
(*                                                                         *)
(* One client, one target.  A queue entry is the sending half of a oneshot *)
(* channel; the entry of a connection that is gone, or has timed out, is   *)
(* closed and stays in its queue until somebody comes across it.           *)
(***************************************************************************)
EXTENDS Naturals, FiniteSets, SequencesExt

CONSTANTS Sessions,        \* the connections that the client makes, one for each ticket it uses
          Accepts,         \* connections on which the node waits as a target
          MaxAllocations,  \* max_allocations_per_client
          DrainMax,        \* RENDEZVOUS_RELAY_WAKE_DRAIN_MAX_ITERATIONS
          MaxLosses        \* bound: connections of the node that are lost

ASSUME TunnelAssumption ==
    MaxAllocations \in Nat /\ DrainMax \in Nat \ {0} /\ MaxLosses \in Nat

VARIABLES outstanding,       \* RelayTicketIssueState.outstanding: how many tickets
          active,            \* RelayTicketIssueState.active_connections
          pending_sources,   \* pending_sources_by_target
          waiting_targets,   \* waiting_targets_by_key
          source,            \* where the connection of each source is
          target,            \* where each connection of the target is
          notifies,          \* the wake connection that connect_source still has to notify
          wake_channel,      \* wake_channels_by_target: a connection id, or 0
          wakes,             \* the wake connections made so far
          node,              \* the wake task of the node
          losses

ticketVars == <<outstanding, active>>
queueVars == <<pending_sources, waiting_targets, source, target>>
wakeVars == <<wake_channel, wakes>>
tunnelVars == <<ticketVars, queueVars, notifies, wakeVars, node, losses>>

Connections == 1..(MaxLosses + 1)
NoAccept == "no accept"

\* A wake connection: whether the server still serves it, the permit of its
\* Notify, and whether a Wake message is on its way to the node.
Wake == [server : {"none", "serving", "ending", "gone"}, permit : BOOLEAN, message : BOOLEAN]

\* "remove": the wait is over and the entry is still to be removed.
SourcePCs == {"idle", "connecting", "waiting", "remove", "paired", "closed"}
\* "trying": before the first look at the queue; "queueing": between that look
\* and the entry; "robbed": its entry was removed by somebody else.
TargetPCs == {"idle", "trying", "queueing", "waiting", "remove", "robbed",
              "paired", "timed out", "failed"}

\* The node connects its wake channel, drains the queue ("drain", and "accept"
\* while a connection waits), and listens.  cut: the last drain ended early.
\* silent: the connection whose answer it awaits is lost and nothing tells it so.
Node == [pc : {"connect", "drain", "accept", "listen"}, wake : Connections \cup {0},
         accept : Accepts \cup {NoAccept}, drained : 0..(DrainMax - 1), cut : BOOLEAN,
         silent : BOOLEAN]

TunnelInit ==
    /\ outstanding = 0 /\ active = 0
    /\ pending_sources = <<>> /\ waiting_targets = <<>>
    /\ source = [s \in Sessions |-> "idle"]
    /\ target = [a \in Accepts |-> "idle"]
    /\ notifies = [s \in Sessions |-> 0]
    /\ wake_channel = 0
    /\ wakes = [c \in Connections |-> [server |-> "none", permit |-> FALSE, message |-> FALSE]]
    /\ node = [pc |-> "connect", wake |-> 0, accept |-> NoAccept, drained |-> 0, cut |-> FALSE,
               silent |-> FALSE]
    /\ losses = 0

Lose == losses < MaxLosses /\ losses' = losses + 1

-------------------------------------------------------------------------------
(***************************************************************************)
(* Tickets                                                                 *)
(***************************************************************************)

\* Bound: a ticket is asked for only while there is a connection left to use it.
ConnectionLeft == \E s \in Sessions : source[s] = "idle"

Issue ==
    /\ ConnectionLeft
    /\ outstanding + active < MaxAllocations
    /\ outstanding' = outstanding + 1
    /\ UNCHANGED <<active, queueVars, notifies, wakeVars, node, losses>>

\* release, and prune of a ticket that has expired
Discard ==
    /\ outstanding > 0
    /\ outstanding' = outstanding - 1
    /\ UNCHANGED <<active, queueVars, notifies, wakeVars, node, losses>>

\* Mutant: the ticket stays outstanding while its connection lives.
ConsumeKeepsTicket(s) ==
    /\ outstanding > 0 /\ source[s] = "idle"
    /\ active' = active + 1
    /\ source' = [source EXCEPT ![s] = "connecting"]
    /\ UNCHANGED <<outstanding, pending_sources, waiting_targets, target, notifies, wakeVars, node, losses>>

\* consume: a ticket is good for one connection.
Consume(s) ==
    /\ outstanding > 0 /\ source[s] = "idle"
    /\ outstanding' = outstanding - 1
    /\ active' = active + 1
    /\ source' = [source EXCEPT ![s] = "connecting"]
    /\ UNCHANGED <<pending_sources, waiting_targets, target, notifies, wakeVars, node, losses>>

-------------------------------------------------------------------------------
(***************************************************************************)
(* Sources                                                                 *)
(***************************************************************************)

\* The receiving halves that are still there.
LiveTargets == {a \in Accepts : target[a] = "waiting"}
LiveSources == {s \in Sessions : source[s] = "waiting"}

\* The place of the first entry that is not closed, and what is left when it and
\* the closed ones before it are popped: pop_waiting_target, pop_pending_source.
FirstLive(queue, live) ==
    {i \in 1..Len(queue) : queue[i] \in live /\ \A j \in 1..(i - 1) : queue[j] \notin live}
After(queue, i) == SubSeq(queue, i + 1, Len(queue))

\* connect_source pairs with a target that waits,
ConnectToTarget(s) ==
    \E i \in FirstLive(waiting_targets, LiveTargets) :
        /\ source[s] = "connecting"
        /\ source' = [source EXCEPT ![s] = "paired"]
        /\ target' = [target EXCEPT ![waiting_targets[i]] = "paired"]
        /\ waiting_targets' = After(waiting_targets, i)
        /\ UNCHANGED <<ticketVars, pending_sources, notifies, wakeVars, node, losses>>

\* or queues up, and takes the wake registration to notify after it has unlocked.
QueueSource(s) ==
    /\ source[s] = "connecting"
    /\ FirstLive(waiting_targets, LiveTargets) = {}
    /\ source' = [source EXCEPT ![s] = "waiting"]
    /\ pending_sources' = Append(pending_sources, s)
    /\ waiting_targets' = <<>>
    /\ notifies' = [notifies EXCEPT ![s] = wake_channel]
    /\ UNCHANGED <<ticketVars, target, wakeVars, node, losses>>

\* Notify::notify_one, which leaves a permit if nobody listens just now.
NotifyWake(s) ==
    /\ notifies[s] # 0
    /\ wakes' = [wakes EXCEPT ![notifies[s]].permit = TRUE]
    /\ notifies' = [notifies EXCEPT ![s] = 0]
    /\ UNCHANGED <<ticketVars, queueVars, wake_channel, node, losses>>

SourceTimesOut(s) ==
    /\ source[s] = "waiting" /\ notifies[s] = 0
    /\ source' = [source EXCEPT ![s] = "remove"]
    /\ UNCHANGED <<ticketVars, pending_sources, waiting_targets, target, notifies, wakeVars, node, losses>>

\* The connection is over: ActiveRelayConnection is dropped.
Disconnect(s) == source' = [source EXCEPT ![s] = "closed"] /\ active' = active - 1

\* remove_pending_source; a session has at most one entry.
RemoveSource(s) ==
    /\ source[s] = "remove"
    /\ \/ s \notin ToSet(pending_sources) /\ UNCHANGED pending_sources
       \/ \E i \in 1..Len(pending_sources) :
             pending_sources[i] = s /\ pending_sources' = RemoveAt(pending_sources, i)
    /\ Disconnect(s)
    /\ UNCHANGED <<outstanding, waiting_targets, target, notifies, wakeVars, node, losses>>

\* The ticket has expired, the client goes away before it is paired, which drops
\* the future and leaves a closed entry in the queue; or a tunnel ends.
EndSource(s) ==
    /\ source[s] \in {"connecting", "waiting", "remove", "paired"} /\ notifies[s] = 0
    /\ Disconnect(s)
    /\ UNCHANGED <<outstanding, pending_sources, waiting_targets, target, notifies, wakeVars, node, losses>>

-------------------------------------------------------------------------------
(***************************************************************************)
(* Targets                                                                 *)
(***************************************************************************)

\* Mutant: an entry that is closed is looked at and left where it is.
TryPairPeeks(a) ==
    /\ target[a] = "trying"
    /\ IF pending_sources # <<>> /\ Head(pending_sources) \in LiveSources
       THEN /\ source' = [source EXCEPT ![Head(pending_sources)] = "paired"]
            /\ target' = [target EXCEPT ![a] = "paired"]
            /\ pending_sources' = Tail(pending_sources)
       ELSE /\ target' = [target EXCEPT ![a] = "queueing"]
            /\ UNCHANGED <<source, pending_sources>>
    /\ UNCHANGED <<ticketVars, waiting_targets, notifies, wakeVars, node, losses>>

\* try_pair_target, which gives the lock back before the target queues up.
TryPair(a) ==
    LET found == FirstLive(pending_sources, LiveSources)
    IN  /\ target[a] = "trying"
        /\ \/ \E i \in found :
                 /\ source' = [source EXCEPT ![pending_sources[i]] = "paired"]
                 /\ target' = [target EXCEPT ![a] = "paired"]
                 /\ pending_sources' = After(pending_sources, i)
           \/ /\ found = {}
              /\ target' = [target EXCEPT ![a] = "queueing"]
              /\ pending_sources' = <<>>
              /\ UNCHANGED source
        /\ UNCHANGED <<ticketVars, waiting_targets, notifies, wakeVars, node, losses>>

QueueTarget(a) ==
    /\ target[a] = "queueing"
    /\ target' = [target EXCEPT ![a] = "waiting"]
    /\ waiting_targets' = Append(waiting_targets, a)
    /\ UNCHANGED <<ticketVars, pending_sources, source, notifies, wakeVars, node, losses>>

\* The wait times out, or its sender is gone with its entry.
TargetGivesUp(a) ==
    /\ target[a] = "waiting"
    /\ target' = [target EXCEPT ![a] = IF a \in ToSet(waiting_targets) THEN "remove" ELSE "robbed"]
    /\ UNCHANGED <<ticketVars, pending_sources, waiting_targets, source, notifies, wakeVars, node, losses>>

\* remove_waiting_target pops whatever is in front.
RemoveTarget(a) ==
    /\ target[a] \in {"remove", "robbed"}
    /\ waiting_targets' = IF waiting_targets = <<>> THEN <<>> ELSE Tail(waiting_targets)
    /\ target' = [target EXCEPT ![a] = IF target[a] = "remove" THEN "timed out" ELSE "failed"]
    /\ UNCHANGED <<ticketVars, pending_sources, source, notifies, wakeVars, node, losses>>

\* The server ends a connection that the node has given up.
DropTarget(a) ==
    /\ target[a] # "idle" /\ a # node.accept
    /\ target' = [target EXCEPT ![a] = "idle"]
    /\ UNCHANGED <<ticketVars, pending_sources, waiting_targets, source, notifies, wakeVars, node, losses>>

-------------------------------------------------------------------------------
(***************************************************************************)
(* The wake connection, at the server                                      *)
(***************************************************************************)

\* run_relay_wake_websocket
PushWake(c) ==
    /\ wakes[c].server = "serving" /\ wakes[c].permit
    /\ wakes' = [wakes EXCEPT ![c].permit = FALSE, ![c].message = TRUE]
    /\ UNCHANGED <<ticketVars, queueVars, notifies, wake_channel, node, losses>>

\* The connection is closed, fails or is idle for too long, possibly long after
\* the node has another one.
EndWake(c) ==
    /\ wakes[c].server = "serving"
    /\ wakes' = [wakes EXCEPT ![c].server = "ending"]
    /\ IF node.wake = c THEN Lose ELSE UNCHANGED losses
    /\ UNCHANGED <<ticketVars, queueVars, notifies, wake_channel, node>>

\* Mutant: whatever registration there is goes.
UnregisterAny(c) ==
    /\ wakes[c].server = "ending"
    /\ wakes' = [wakes EXCEPT ![c].server = "gone"]
    /\ wake_channel' = 0
    /\ UNCHANGED <<ticketVars, queueVars, notifies, node, losses>>

\* unregister_wake
UnregisterWake(c) ==
    /\ wakes[c].server = "ending"
    /\ wakes' = [wakes EXCEPT ![c].server = "gone"]
    /\ wake_channel' = IF wake_channel = c THEN 0 ELSE wake_channel
    /\ UNCHANGED <<ticketVars, queueVars, notifies, node, losses>>

-------------------------------------------------------------------------------
(***************************************************************************)
(* The node                                                                *)
(***************************************************************************)

Drain == [node EXCEPT !.pc = "drain", !.drained = 0, !.cut = FALSE]

\* connect_relay_wake and register_wake; the queue is drained once the
\* registration stands.  When the node does not get the answer it tries again, or
\* waits for it without a time-out if the connection is lost silently.
ConnectWake ==
    \E c \in Connections :
        /\ node.pc = "connect" /\ ~node.silent
        /\ wakes[c].server = "none" /\ \A d \in Connections : d < c => wakes[d].server # "none"
        /\ wake_channel' = c
        /\ wakes' = [wakes EXCEPT ![c].server = "serving"]
        /\ \/ node' = [Drain EXCEPT !.wake = c] /\ UNCHANGED losses
           \/ Lose /\ node' = [node EXCEPT !.silent = TRUE]
           \/ Lose /\ UNCHANGED node
        /\ UNCHANGED <<ticketVars, queueVars, notifies>>

\* accept_relay_tunnel
StartAccept ==
    \E a \in Accepts :
        /\ node.pc = "drain"
        /\ target[a] = "idle" /\ a \notin ToSet(waiting_targets)
        /\ target' = [target EXCEPT ![a] = "trying"]
        /\ node' = [node EXCEPT !.pc = "accept", !.accept = a]
        /\ UNCHANGED <<ticketVars, pending_sources, waiting_targets, source, notifies, wakeVars, losses>>

Listen(cut) ==
    [node EXCEPT !.pc = "listen", !.accept = NoAccept, !.drained = 0, !.cut = cut, !.silent = FALSE]

\* Mutant: the rounds of a drain are not limited.
AcceptedWithoutLimit ==
    /\ node.pc = "accept" /\ ~node.silent /\ target[node.accept] = "paired"
    /\ target' = [target EXCEPT ![node.accept] = "idle"]
    /\ node' = [node EXCEPT !.pc = "drain", !.accept = NoAccept, !.drained = @ + 1]
    /\ UNCHANGED <<ticketVars, pending_sources, waiting_targets, source, notifies, wakeVars, losses>>

\* A source came: the drain goes on, unless the session cannot be set up or this
\* was the last round.
Accepted ==
    /\ node.pc = "accept" /\ ~node.silent /\ target[node.accept] = "paired"
    /\ target' = [target EXCEPT ![node.accept] = "idle"]
    /\ \/ /\ node.drained + 1 < DrainMax
          /\ node' = [node EXCEPT !.pc = "drain", !.accept = NoAccept, !.drained = @ + 1]
          /\ UNCHANGED losses
       \/ node.drained + 1 = DrainMax /\ node' = Listen(TRUE) /\ UNCHANGED losses
       \/ Lose /\ node' = Listen(TRUE)
    /\ UNCHANGED <<ticketVars, pending_sources, waiting_targets, source, notifies, wakeVars>>

\* An idle time-out ends the drain, and so does an error.
NotAccepted ==
    /\ node.pc = "accept" /\ ~node.silent /\ target[node.accept] \in {"timed out", "failed"}
    /\ target' = [target EXCEPT ![node.accept] = "idle"]
    /\ node' = Listen(target[node.accept] = "failed")
    /\ UNCHANGED <<ticketVars, pending_sources, waiting_targets, source, notifies, wakeVars, losses>>

\* The connection is lost and the node, which has nothing to send on it, does not
\* notice.  Its read has no time-out, and the drain is awaited in a branch of the
\* select, so neither the fallback tick nor the idle time-out runs meanwhile.
SilenceAccept ==
    /\ node.pc = "accept" /\ ~node.silent
    /\ Lose
    /\ node' = [node EXCEPT !.silent = TRUE]
    /\ UNCHANGED <<ticketVars, queueVars, notifies, wakeVars>>

\* The connection breaks, or the system reports a silent one at last; the server
\* does not know yet.
LoseAccept ==
    /\ node.pc = "accept"
    /\ IF node.silent THEN UNCHANGED losses ELSE Lose
    /\ node' = Listen(TRUE)
    /\ UNCHANGED <<ticketVars, queueVars, notifies, wakeVars>>

LoseConnect ==
    /\ node.pc = "connect" /\ node.silent
    /\ node' = [node EXCEPT !.silent = FALSE]
    /\ UNCHANGED <<ticketVars, queueVars, notifies, wakeVars, losses>>

ReceiveWake ==
    /\ node.pc = "listen" /\ wakes[node.wake].message
    /\ wakes' = [wakes EXCEPT ![node.wake].message = FALSE]
    /\ node' = Drain
    /\ UNCHANGED <<ticketVars, queueVars, notifies, wake_channel, losses>>

FallbackTick ==
    /\ node.pc = "listen"
    /\ node' = Drain
    /\ UNCHANGED <<ticketVars, queueVars, notifies, wakeVars, losses>>

\* The node finds its wake connection closed, or idle for too long.
LeaveWake ==
    /\ node.pc = "listen"
    /\ IF wakes[node.wake].server = "serving" THEN Lose ELSE UNCHANGED losses
    /\ node' = [node EXCEPT !.pc = "connect", !.wake = 0]
    /\ UNCHANGED <<ticketVars, queueVars, notifies, wakeVars>>

-------------------------------------------------------------------------------

NodeStep ==
    \/ ConnectWake \/ StartAccept \/ Accepted \/ NotAccepted
    \/ ReceiveWake \/ FallbackTick \/ LeaveWake

TargetStep(a) == TryPair(a) \/ QueueTarget(a) \/ TargetGivesUp(a) \/ RemoveTarget(a)

TunnelNext ==
    \/ \E s \in Sessions :
          \/ Consume(s) \/ ConnectToTarget(s) \/ QueueSource(s) \/ NotifyWake(s)
          \/ SourceTimesOut(s) \/ RemoveSource(s) \/ EndSource(s)
    \/ \E a \in Accepts : TargetStep(a) \/ DropTarget(a)
    \/ \E c \in Connections : PushWake(c) \/ EndWake(c) \/ UnregisterWake(c)
    \/ Issue \/ Discard \/ NodeStep \/ SilenceAccept \/ LoseAccept \/ LoseConnect

TunnelSpec == TunnelInit /\ [][TunnelNext]_tunnelVars

-------------------------------------------------------------------------------
(***************************************************************************)
(* Properties                                                              *)
(***************************************************************************)

\* The queues hold no session and no connection twice, the node waits on a
\* connection that is under way, and a drain has a limited number of rounds.
TunnelTypeOK ==
    /\ outstanding \in Nat /\ active \in Nat
    /\ source \in [Sessions -> SourcePCs] /\ target \in [Accepts -> TargetPCs]
    /\ pending_sources \in Seq(Sessions) /\ waiting_targets \in Seq(Accepts)
    /\ IsInjective(pending_sources) /\ IsInjective(waiting_targets)
    /\ notifies \in [Sessions -> Connections \cup {0}]
    /\ wake_channel \in Connections \cup {0} /\ wakes \in [Connections -> Wake]
    /\ node \in Node /\ losses \in 0..MaxLosses
    /\ node.pc = "accept" => target[node.accept] # "idle"

\* A client never has more tickets and connections together than the limit, and
\* every connection that is still open is counted, however it ends.
TicketsAreBounded ==
    /\ outstanding + active <= MaxAllocations
    /\ active = Cardinality({s \in Sessions : source[s] \notin {"idle", "closed"}})

\* The node's wake connection stands at both ends.
Connected == node.wake # 0 /\ wakes[node.wake].server = "serving"

\* The node has been told, or looks at the queue before it listens again.
WakeOnItsWay ==
    \/ node.pc = "drain"
    \/ node.pc = "accept" /\ target[node.accept] \in {"trying", "paired"}
    \/ wakes[node.wake].permit \/ wakes[node.wake].message
    \/ \E s \in Sessions : notifies[s] = node.wake

\* A source that waits is not overlooked: its entry is in the queue, and a node
\* whose wake connection stands has been told of it, although the registration may
\* be replaced between the entry and the notification, an older connection may end
\* after a newer one was registered, the source may come between a target's look at
\* the queue and its own entry, and one permit stands for many sources.  Only a
\* drain that was cut short leaves sources to the fallback tick.
WaitingSourcesAreKnown ==
    /\ LiveSources \subseteq ToSet(pending_sources)
    /\ LiveSources # {} /\ Connected /\ ~node.cut => WakeOnItsWay

\* Every source that keeps waiting is paired, also behind entries of sources that
\* are gone and after wakes were lost with their connections: the fallback tick
\* and the time-out of an accept bring the node back to the queue.  The exception
\* is a node that waits on a connection which was lost silently: it serves nobody
\* until the system reports the loss, and then again everybody.
SourcesAreServed ==
    \A s \in Sessions :
        source[s] = "waiting" /\ ~node.silent ~> source[s] # "waiting" \/ node.silent

===============================================================================
