--------------------------- MODULE RelayTunnelProofs ---------------------------
(***************************************************************************)
(* Relay tunnels keep their promises for any number of sources, accepts,   *)
(* allocations and lost connections.                                       *)
(*                                                                         *)
(* The three properties are not inductive by themselves.  An entry is made *)
(* once because whoever queues up has no entry yet (QueueInv), and a       *)
(* source that finds the registration of the node's own wake connection    *)
(* tells the node because an older connection never takes the registration *)
(* of a newer one away (NodeInv).                                          *)
(***************************************************************************)
EXTENDS RelayTunnel, FiniteSetTheorems, SequenceTheorems, WellFoundedInduction, TLAPS

\* Sources whose connection is open.
Open == {s \in Sessions : source[s] \notin {"idle", "closed"}}

TicketInv ==
    /\ outstanding \in Nat /\ active \in Nat
    /\ TicketsAreBounded
    /\ IsFiniteSet(Open)

\* Who has not queued up yet has no entry.
QueueInv ==
    /\ source \in [Sessions -> SourcePCs] /\ target \in [Accepts -> TargetPCs]
    /\ pending_sources \in Seq(Sessions) /\ waiting_targets \in Seq(Accepts)
    /\ IsInjective(pending_sources) /\ IsInjective(waiting_targets)
    /\ \A s \in ToSet(pending_sources) : source[s] \notin {"idle", "connecting"}
    /\ \A a \in Accepts : target[a] \in {"trying", "queueing"} => a \notin ToSet(waiting_targets)

\* The registration is that of the node's wake connection, as long as the server
\* serves it.  A drain that goes on has not been cut.
NodeInv ==
    /\ notifies \in [Sessions -> Connections \cup {0}]
    /\ wake_channel \in Connections \cup {0} /\ wakes \in [Connections -> Wake]
    /\ node \in Node /\ losses \in 0..MaxLosses
    /\ node.pc = "accept" => node.accept \in Accepts /\ target[node.accept] # "idle"
    /\ node.pc = "connect" <=> node.wake = 0
    /\ node.cut => node.pc \notin {"drain", "accept"}
    /\ Connected => wake_channel = node.wake

TunnelInv == TicketInv /\ QueueInv /\ NodeInv /\ WaitingSourcesAreKnown

-------------------------------------------------------------------------------
(***************************************************************************)
(* Queues                                                                  *)
(***************************************************************************)

\* A queue nobody is in.
LEMMA EmptyQueue ==
    ASSUME NEW S
    PROVE  <<>> \in Seq(S) /\ IsInjective(<<>>) /\ ToSet(<<>>) = {}
  BY DEF IsInjective, ToSet

\* Somebody who is not in the queue joins it.
LEMMA AppendQueue ==
    ASSUME NEW S, NEW q \in Seq(S), IsInjective(q), NEW x \in S, x \notin ToSet(q)
    PROVE  /\ Append(q, x) \in Seq(S)
           /\ IsInjective(Append(q, x))
           /\ ToSet(Append(q, x)) = ToSet(q) \cup {x}
  BY DEF IsInjective, ToSet

\* The queue behind its i-th entry: what is before it goes with it.
LEMMA PopQueue ==
    ASSUME NEW S, NEW q \in Seq(S), IsInjective(q), NEW i \in 1..Len(q)
    PROVE  /\ After(q, i) \in Seq(S)
           /\ IsInjective(After(q, i))
           /\ ToSet(After(q, i)) = {q[j] : j \in (i + 1)..Len(q)}
           /\ ToSet(After(q, i)) \subseteq ToSet(q)
<1> DEFINE r == After(q, i)
<1>1. /\ r \in Seq(S) /\ Len(r) = Len(q) - i
      /\ \A j \in 1..(Len(q) - i) : r[j] = q[j + i]
  <2>1. Len(q) \in Nat /\ \A j \in (i + 1)..Len(q) : q[j] \in S
    OBVIOUS
  <2>2. /\ r \in Seq(S)
        /\ Len(r) = IF i + 1 <= Len(q) THEN Len(q) - (i + 1) + 1 ELSE 0
        /\ \A j \in 1..(Len(q) - (i + 1) + 1) : r[j] = q[(i + 1) + j - 1]
    BY <2>1, SubSeqProperties DEF After
  <2> QED
    BY <2>1, <2>2
<1> HIDE DEF r
<1>2. DOMAIN r = 1..(Len(q) - i) /\ DOMAIN q = 1..Len(q) /\ Len(q) \in Nat
  BY <1>1
<1>3. IsInjective(r)
  <2>1. SUFFICES ASSUME NEW j \in DOMAIN r, NEW k \in DOMAIN r, r[j] = r[k]
                 PROVE  j = k
    BY DEF IsInjective
  <2>2. j + i \in DOMAIN q /\ k + i \in DOMAIN q /\ q[j + i] = q[k + i]
    BY <1>1, <1>2, <2>1
  <2>3. j + i = k + i
    BY <2>2 DEF IsInjective
  <2> QED
    BY <1>2, <2>3
<1>4. ToSet(r) = {q[j] : j \in (i + 1)..Len(q)}
  <2>1. ASSUME NEW j \in (i + 1)..Len(q) PROVE j - i \in DOMAIN r /\ r[j - i] = q[j]
    BY <1>1, <1>2
  <2>2. ASSUME NEW j \in DOMAIN r PROVE j + i \in (i + 1)..Len(q) /\ r[j] = q[j + i]
    BY <1>1, <1>2
  <2> QED
    BY <2>1, <2>2 DEF ToSet
<1>5. ToSet(r) \subseteq ToSet(q)
  <2>1. \A j \in (i + 1)..Len(q) : j \in DOMAIN q
    BY <1>2
  <2> QED
    BY <1>4, <2>1 DEF ToSet
<1> QED
  BY <1>1, <1>3, <1>4, <1>5 DEF r

\* The first one leaves.
LEMMA TailQueue ==
    ASSUME NEW S, NEW q \in Seq(S), IsInjective(q), q # <<>>
    PROVE  Tail(q) \in Seq(S) /\ IsInjective(Tail(q)) /\ ToSet(Tail(q)) \subseteq ToSet(q)
  BY DEF IsInjective, ToSet

\* The i-th one leaves, and only that one, since nobody is in it twice.
LEMMA CutQueue ==
    ASSUME NEW S, NEW q \in Seq(S), IsInjective(q), NEW i \in 1..Len(q)
    PROVE  /\ RemoveAt(q, i) \in Seq(S)
           /\ IsInjective(RemoveAt(q, i))
           /\ ToSet(RemoveAt(q, i)) = ToSet(q) \ {q[i]}
<1> DEFINE r == RemoveAt(q, i)
           front == SubSeq(q, 1, i - 1)
           back == SubSeq(q, i + 1, Len(q))
<1>1. /\ front \in Seq(S) /\ Len(front) = i - 1
      /\ \A j \in 1..(i - 1) : front[j] = q[j]
  <2>1. i - 1 \in Int /\ \A j \in 1..(i - 1) : q[j] \in S
    OBVIOUS
  <2>2. /\ front \in Seq(S)
        /\ Len(front) = IF 1 <= i - 1 THEN (i - 1) - 1 + 1 ELSE 0
        /\ \A j \in 1..((i - 1) - 1 + 1) : front[j] = q[1 + j - 1]
    BY <2>1, SubSeqProperties
  <2> HIDE DEF front
  <2> QED
    BY <2>2
<1>2. /\ back \in Seq(S) /\ Len(back) = Len(q) - i
      /\ \A j \in 1..(Len(q) - i) : back[j] = q[j + i]
  <2>1. Len(q) \in Nat /\ \A j \in (i + 1)..Len(q) : q[j] \in S
    OBVIOUS
  <2>2. /\ back \in Seq(S)
        /\ Len(back) = IF i + 1 <= Len(q) THEN Len(q) - (i + 1) + 1 ELSE 0
        /\ \A j \in 1..(Len(q) - (i + 1) + 1) : back[j] = q[(i + 1) + j - 1]
    BY <2>1, SubSeqProperties
  <2> HIDE DEF back
  <2> QED
    BY <2>1, <2>2
<1>3. r = front \o back
  BY DEF RemoveAt
<1> HIDE DEF r, front, back
<1>4. /\ r \in Seq(S) /\ Len(r) = Len(q) - 1 /\ DOMAIN r = 1..(Len(q) - 1)
      /\ DOMAIN q = 1..Len(q) /\ Len(q) \in Nat
      /\ \A j \in 1..(Len(q) - 1) : r[j] = q[IF j < i THEN j ELSE j + 1]
  <2>1. /\ r \in Seq(S) /\ Len(r) = Len(front) + Len(back)
        /\ \A j \in 1..(Len(front) + Len(back)) :
              r[j] = IF j <= Len(front) THEN front[j] ELSE back[j - Len(front)]
    BY <1>1, <1>2, <1>3, ConcatProperties
  <2>2. ASSUME NEW j \in 1..(Len(q) - 1) PROVE r[j] = q[IF j < i THEN j ELSE j + 1]
    <3>1. CASE j < i
      <4>1. r[j] = front[j] /\ j \in 1..(i - 1)
        BY <1>1, <1>2, <2>1, <3>1
      <4> QED
        BY <1>1, <3>1, <4>1
    <3>2. CASE ~(j < i)
      <4>1. Len(q) \in Nat /\ Len(front) = i - 1 /\ Len(back) = Len(q) - i
        BY <1>1, <1>2
      <4>2. /\ j \in 1..(Len(front) + Len(back)) /\ ~(j <= Len(front))
            /\ j - Len(front) \in 1..(Len(q) - i) /\ (j - Len(front)) + i = j + 1
        BY <3>2, <4>1
      <4>3. r[j] = back[j - Len(front)]
        BY <2>1, <4>2
      <4>4. back[j - Len(front)] = q[(j - Len(front)) + i]
        BY <1>2, <4>2
      <4> QED
        BY <3>2, <4>2, <4>3, <4>4
    <3> QED
      BY <3>1, <3>2
  <2> QED
    BY <1>1, <1>2, <2>1, <2>2
<1>5. IsInjective(r)
  <2>1. SUFFICES ASSUME NEW j \in DOMAIN r, NEW k \in DOMAIN r, r[j] = r[k]
                 PROVE  j = k
    BY DEF IsInjective
  <2> DEFINE at(n) == IF n < i THEN n ELSE n + 1
  <2>2. at(j) \in DOMAIN q /\ at(k) \in DOMAIN q /\ q[at(j)] = q[at(k)]
    BY <1>4, <2>1
  <2>3. at(j) = at(k)
    BY <2>2 DEF IsInjective
  <2> QED
    BY <1>4, <2>3
<1>6. ToSet(r) = ToSet(q) \ {q[i]}
  <2>1. ASSUME NEW x \in ToSet(r) PROVE x \in ToSet(q) \ {q[i]}
    <3>1. PICK j \in DOMAIN r : x = r[j]
      BY DEF ToSet
    <3> DEFINE k == IF j < i THEN j ELSE j + 1
    <3>2. k \in DOMAIN q /\ k # i /\ x = q[k] /\ i \in DOMAIN q
      BY <1>4, <3>1
    <3> HIDE DEF k
    <3> QED
      BY <3>2 DEF ToSet, IsInjective
  <2>2. ASSUME NEW x \in ToSet(q), x # q[i] PROVE x \in ToSet(r)
    <3>1. PICK k \in DOMAIN q : x = q[k]
      BY DEF ToSet
    <3> DEFINE j == IF k < i THEN k ELSE k - 1
    <3>2. j \in DOMAIN r /\ r[j] = x
      BY <1>4, <2>2, <3>1
    <3> HIDE DEF j
    <3> QED
      BY <3>2 DEF ToSet
  <2> QED
    BY <2>1, <2>2
<1> QED
  BY <1>4, <1>5, <1>6 DEF r

\* A queue in which no entry is the first live one has no live entry at all.
LEMMA FirstLiveExists ==
    ASSUME NEW S, NEW q \in Seq(S), NEW live, FirstLive(q, live) = {}
    PROVE  ToSet(q) \cap live = {}
<1>1. SUFFICES ASSUME NEW x \in ToSet(q), x \in live PROVE FALSE
  OBVIOUS
<1> DEFINE T == {i \in 1..Len(q) : q[i] \in live}
<1>2. T \subseteq Nat /\ T # {}
  BY <1>1 DEF ToSet
<1>3. \E i \in T : \A j \in T : ~(<<j, i>> \in OpToRel(<, Nat))
  <2> HIDE DEF T
  <2> QED
    BY <1>2, NatLessThanWellFounded, WFMin
<1>4. \A i, j \in T : j < i => <<j, i>> \in OpToRel(<, Nat)
  BY <1>2 DEF OpToRel
<1>5. PICK i \in T : \A j \in T : ~(j < i)
  BY <1>3, <1>4
<1>6. i \in FirstLive(q, live)
  BY <1>5 DEF FirstLive
<1> QED
  BY <1>6

-------------------------------------------------------------------------------
(***************************************************************************)
(* Tickets: every step that opens or closes a connection counts it.        *)
(***************************************************************************)

\* No connection is open at first.
LEMMA TicketInit == TunnelInit => TicketInv
<1> SUFFICES ASSUME TunnelInit PROVE TicketInv
  OBVIOUS
<1>1. Open = {} /\ outstanding = 0 /\ active = 0
  BY DEF TunnelInit, Open
<1> QED
  BY <1>1, FS_EmptySet, TunnelAssumption DEF TicketInv, TicketsAreBounded, Open

\* Neither does a step to another open state change the number of open connections,
\* nor one between two states in which the connection is not open.
LEMMA SameTickets ==
    ASSUME TicketInv, UNCHANGED ticketVars, Open' = Open
    PROVE  TicketInv'
  BY DEF TicketInv, TicketsAreBounded, Open, ticketVars

\* A connection that is open stays open.
LEMMA TicketMoves ==
    ASSUME TicketInv, QueueInv, UNCHANGED ticketVars, NEW s \in Sessions, NEW pc,
           source[s] \notin {"idle", "closed"}, pc \notin {"idle", "closed"},
           source' = [source EXCEPT ![s] = pc]
    PROVE  TicketInv'
<1>1. Open' = Open
  BY DEF Open, QueueInv
<1> QED
  BY <1>1, SameTickets

\* consume_ticket opens a connection that was not open.
LEMMA TicketConsume ==
    ASSUME TicketInv, QueueInv, NEW s \in Sessions, Consume(s)
    PROVE  TicketInv'
<1>1. Open' = Open \cup {s} /\ s \notin Open
  BY DEF Consume, Open, QueueInv
<1>2. IsFiniteSet(Open') /\ Cardinality(Open') = Cardinality(Open) + 1
  BY <1>1, FS_AddElement DEF TicketInv
<1> QED
  BY <1>2 DEF TicketInv, TicketsAreBounded, Consume, Open

\* A connection that ends is counted as ended.
LEMMA TicketDisconnect ==
    ASSUME TicketInv, QueueInv, NEW s \in Sessions, source[s] \notin {"idle", "closed"},
           Disconnect(s), UNCHANGED outstanding
    PROVE  TicketInv'
<1>1. Open' = Open \ {s} /\ s \in Open
  BY DEF Disconnect, Open, QueueInv
<1>2. IsFiniteSet(Open') /\ Cardinality(Open') = Cardinality(Open) - 1
  BY <1>1, FS_RemoveElement DEF TicketInv
<1>3. active # 0
  BY <1>1, FS_EmptySet DEF TicketInv, TicketsAreBounded, Open
<1>4. active = Cardinality(Open) /\ active' = active - 1
  BY DEF TicketInv, TicketsAreBounded, Disconnect, Open
<1>5. active' \in Nat /\ outstanding' \in Nat /\ outstanding' + active' <= MaxAllocations
  BY <1>3, <1>4, TunnelAssumption DEF TicketInv, TicketsAreBounded
<1>6. active' = Cardinality(Open')
  BY <1>2, <1>4
<1> QED
  BY <1>2, <1>5, <1>6 DEF TicketInv, TicketsAreBounded, Open

\* active counts the open connections, and every one of them has a ticket.
LEMMA TicketStep ==
    ASSUME TunnelInv, TunnelNext
    PROVE  TicketInv'
<1> USE DEF TunnelInv
<1>1. ASSUME NEW s \in Sessions, Consume(s) PROVE TicketInv'
  BY <1>1, TicketConsume
<1>2. ASSUME NEW s \in Sessions, ConnectToTarget(s) PROVE TicketInv'
  BY <1>2, TicketMoves DEF ConnectToTarget
<1>3. ASSUME NEW s \in Sessions, QueueSource(s) PROVE TicketInv'
  BY <1>3, TicketMoves DEF QueueSource
<1>4. ASSUME NEW s \in Sessions, SourceTimesOut(s) PROVE TicketInv'
  BY <1>4, TicketMoves DEF SourceTimesOut
<1>5. ASSUME NEW s \in Sessions, RemoveSource(s) PROVE TicketInv'
  BY <1>5, TicketDisconnect DEF RemoveSource
<1>6. ASSUME NEW s \in Sessions, EndSource(s) PROVE TicketInv'
  BY <1>6, TicketDisconnect DEF EndSource
<1>7. ASSUME NEW a \in Accepts, TryPair(a) PROVE TicketInv'
  <2> DEFINE found == FirstLive(pending_sources, LiveSources)
  <2>1. CASE UNCHANGED source
    BY <1>7, <2>1, SameTickets DEF TryPair, Open
  <2>2. ASSUME NEW i \in found, source' = [source EXCEPT ![pending_sources[i]] = "paired"]
        PROVE  TicketInv'
    <3>1. pending_sources[i] \in Sessions /\ source[pending_sources[i]] = "waiting"
      BY DEF FirstLive, LiveSources
    <3> QED
      BY <1>7, <2>2, <3>1, TicketMoves DEF TryPair
  <2> QED
    BY <1>7, <2>1, <2>2 DEF TryPair
<1>8. CASE Issue \/ Discard
  <2>1. Open' = Open
    BY <1>8 DEF Issue, Discard, Open, queueVars
  <2> QED
    BY <1>8, <2>1, TunnelAssumption
    DEF TicketInv, TicketsAreBounded, Issue, Discard, Open
<1>9. CASE UNCHANGED <<ticketVars, source>>
  BY <1>9, SameTickets DEF Open
<1>10. ASSUME NEW s \in Sessions, NotifyWake(s) PROVE UNCHANGED <<ticketVars, source>>
  BY <1>10 DEF NotifyWake, queueVars
<1>11. ASSUME NEW a \in Accepts,
              QueueTarget(a) \/ TargetGivesUp(a) \/ RemoveTarget(a) \/ DropTarget(a)
       PROVE  UNCHANGED <<ticketVars, source>>
  BY <1>11 DEF QueueTarget, TargetGivesUp, RemoveTarget, DropTarget
<1>12. ASSUME NEW c \in Connections, PushWake(c) \/ EndWake(c) \/ UnregisterWake(c)
       PROVE  UNCHANGED <<ticketVars, source>>
  BY <1>12 DEF PushWake, EndWake, UnregisterWake, queueVars
<1>13. NodeStep \/ SilenceAccept \/ LoseAccept \/ LoseConnect => UNCHANGED <<ticketVars, source>>
  BY DEF NodeStep, ConnectWake, StartAccept, Accepted, NotAccepted, ReceiveWake,
         FallbackTick, LeaveWake, SilenceAccept, LoseAccept, LoseConnect, queueVars
<1> QED
  BY <1>1, <1>2, <1>3, <1>4, <1>5, <1>6, <1>7, <1>8, <1>9, <1>10, <1>11, <1>12, <1>13
  DEF TunnelNext, TargetStep

-------------------------------------------------------------------------------
(***************************************************************************)
(* Queues: who queues up has no entry yet.                                 *)
(***************************************************************************)

\* Both queues are empty at first.
LEMMA QueueInit == TunnelInit => QueueInv
  BY EmptyQueue DEF TunnelInit, QueueInv, SourcePCs, TargetPCs

\* Whoever is in a queue is in it once, and has queued up.
LEMMA QueueStep ==
    ASSUME TunnelInv, TunnelNext
    PROVE  QueueInv'
<1> USE DEF TunnelInv
<1>1. ASSUME NEW s \in Sessions, Consume(s) PROVE QueueInv'
  BY <1>1 DEF QueueInv, Consume, SourcePCs
<1>2. ASSUME NEW s \in Sessions, ConnectToTarget(s) PROVE QueueInv'
  <2>1. PICK i \in FirstLive(waiting_targets, LiveTargets) :
           /\ source' = [source EXCEPT ![s] = "paired"]
           /\ target' = [target EXCEPT ![waiting_targets[i]] = "paired"]
           /\ waiting_targets' = After(waiting_targets, i)
           /\ UNCHANGED pending_sources
    BY <1>2 DEF ConnectToTarget
  <2>2. i \in 1..Len(waiting_targets)
    BY DEF FirstLive
  <2>3. /\ waiting_targets' \in Seq(Accepts) /\ IsInjective(waiting_targets')
        /\ ToSet(waiting_targets') \subseteq ToSet(waiting_targets)
    BY <2>1, <2>2, PopQueue DEF QueueInv
  <2>4. source' \in [Sessions -> SourcePCs] /\ target' \in [Accepts -> TargetPCs]
    BY <2>1, <2>2 DEF QueueInv, SourcePCs, TargetPCs
  <2>5. \A x \in ToSet(pending_sources)' : source'[x] \notin {"idle", "connecting"}
    BY <2>1 DEF QueueInv
  <2>6. \A a \in Accepts : target'[a] \in {"trying", "queueing"} => a \notin ToSet(waiting_targets)'
    BY <2>1, <2>2, <2>3 DEF QueueInv
  <2> QED
    BY <2>1, <2>3, <2>4, <2>5, <2>6 DEF QueueInv
<1>3. ASSUME NEW s \in Sessions, QueueSource(s) PROVE QueueInv'
  <2>1. s \notin ToSet(pending_sources)
    BY <1>3 DEF QueueInv, QueueSource
  <2>2. /\ pending_sources' \in Seq(Sessions) /\ IsInjective(pending_sources')
        /\ ToSet(pending_sources') = ToSet(pending_sources) \cup {s}
    BY <1>3, <2>1, AppendQueue DEF QueueInv, QueueSource
  <2>3. /\ waiting_targets' \in Seq(Accepts) /\ IsInjective(waiting_targets')
        /\ ToSet(waiting_targets') = {}
    BY <1>3, EmptyQueue DEF QueueSource
  <2> QED
    BY <1>3, <2>2, <2>3 DEF QueueInv, QueueSource, SourcePCs
<1>4. ASSUME NEW s \in Sessions, SourceTimesOut(s) PROVE QueueInv'
  BY <1>4 DEF QueueInv, SourceTimesOut, SourcePCs
<1>5. ASSUME NEW s \in Sessions, RemoveSource(s) PROVE QueueInv'
  <2>1. /\ pending_sources' \in Seq(Sessions) /\ IsInjective(pending_sources')
        /\ ToSet(pending_sources') \subseteq ToSet(pending_sources)
    <3>1. CASE UNCHANGED pending_sources
      BY <3>1 DEF QueueInv
    <3>2. ASSUME NEW i \in 1..Len(pending_sources),
                 pending_sources' = RemoveAt(pending_sources, i)
          PROVE  <2>1
      BY <3>2, CutQueue DEF QueueInv
    <3> QED
      BY <1>5, <3>1, <3>2 DEF RemoveSource
  <2> QED
    BY <1>5, <2>1 DEF QueueInv, RemoveSource, Disconnect, SourcePCs
<1>6. ASSUME NEW s \in Sessions, EndSource(s) PROVE QueueInv'
  BY <1>6 DEF QueueInv, EndSource, Disconnect, SourcePCs
<1>7. ASSUME NEW a \in Accepts, TryPair(a) PROVE QueueInv'
  <2> DEFINE found == FirstLive(pending_sources, LiveSources)
  <2>1. ASSUME NEW i \in found,
               source' = [source EXCEPT ![pending_sources[i]] = "paired"],
               target' = [target EXCEPT ![a] = "paired"],
               pending_sources' = After(pending_sources, i)
        PROVE  QueueInv'
    <3>1. i \in 1..Len(pending_sources)
      BY DEF FirstLive
    <3>2. /\ pending_sources' \in Seq(Sessions) /\ IsInjective(pending_sources')
          /\ ToSet(pending_sources') \subseteq ToSet(pending_sources)
      BY <2>1, <3>1, PopQueue DEF QueueInv
    <3>3. source' \in [Sessions -> SourcePCs] /\ target' \in [Accepts -> TargetPCs]
      BY <2>1, <3>1 DEF QueueInv, SourcePCs, TargetPCs
    <3>4. \A x \in ToSet(pending_sources)' : source'[x] \notin {"idle", "connecting"}
      <4>1. ToSet(pending_sources) \subseteq Sessions
        BY DEF QueueInv, ToSet
      <4> QED
        BY <2>1, <3>2, <4>1 DEF QueueInv
    <3>5. UNCHANGED waiting_targets
      BY <1>7 DEF TryPair
    <3>6. \A x \in Accepts : target'[x] \in {"trying", "queueing"} => x \notin ToSet(waiting_targets)'
      BY <2>1, <3>5 DEF QueueInv
    <3> QED
      BY <3>2, <3>3, <3>4, <3>5, <3>6 DEF QueueInv
  <2>2. CASE target' = [target EXCEPT ![a] = "queueing"] /\ pending_sources' = <<>> /\ UNCHANGED source
    <3>1. /\ pending_sources' \in Seq(Sessions) /\ IsInjective(pending_sources')
          /\ ToSet(pending_sources') = {}
      BY <2>2, EmptyQueue
    <3> QED
      BY <1>7, <2>2, <3>1 DEF QueueInv, TryPair, TargetPCs
  <2> QED
    BY <1>7, <2>1, <2>2 DEF TryPair
<1>8. ASSUME NEW a \in Accepts, QueueTarget(a) PROVE QueueInv'
  <2>1. a \notin ToSet(waiting_targets)
    BY <1>8 DEF QueueInv, QueueTarget
  <2>2. /\ waiting_targets' \in Seq(Accepts) /\ IsInjective(waiting_targets')
        /\ ToSet(waiting_targets') = ToSet(waiting_targets) \cup {a}
    BY <1>8, <2>1, AppendQueue DEF QueueInv, QueueTarget
  <2> QED
    BY <1>8, <2>2 DEF QueueInv, QueueTarget, TargetPCs
<1>9. ASSUME NEW a \in Accepts, RemoveTarget(a) PROVE QueueInv'
  <2>1. /\ waiting_targets' \in Seq(Accepts) /\ IsInjective(waiting_targets')
        /\ ToSet(waiting_targets') \subseteq ToSet(waiting_targets)
    BY <1>9, TailQueue, EmptyQueue DEF QueueInv, RemoveTarget
  <2> QED
    BY <1>9, <2>1 DEF QueueInv, RemoveTarget, TargetPCs
<1>10. ASSUME NEW a \in Accepts, TargetGivesUp(a) \/ DropTarget(a) PROVE QueueInv'
  BY <1>10 DEF QueueInv, TargetGivesUp, DropTarget, TargetPCs
<1>11. CASE StartAccept
  BY <1>11 DEF QueueInv, StartAccept, TargetPCs
<1>12. CASE Accepted \/ NotAccepted
  BY <1>12 DEF QueueInv, Accepted, NotAccepted, TargetPCs
<1>13. CASE UNCHANGED queueVars
  BY <1>13 DEF QueueInv, queueVars
<1>14. ASSUME NEW s \in Sessions, NotifyWake(s) PROVE UNCHANGED queueVars
  BY <1>14 DEF NotifyWake
<1>15. ASSUME NEW c \in Connections, PushWake(c) \/ EndWake(c) \/ UnregisterWake(c)
       PROVE  UNCHANGED queueVars
  BY <1>15 DEF PushWake, EndWake, UnregisterWake
<1>16. ASSUME \/ ConnectWake \/ ReceiveWake \/ FallbackTick \/ LeaveWake
              \/ SilenceAccept \/ LoseAccept \/ LoseConnect \/ Issue \/ Discard
       PROVE  UNCHANGED queueVars
  BY <1>16
  DEF ConnectWake, ReceiveWake, FallbackTick, LeaveWake, SilenceAccept, LoseAccept, LoseConnect,
         Issue, Discard
<1> QED
  BY <1>1, <1>2, <1>3, <1>4, <1>5, <1>6, <1>7, <1>8, <1>9, <1>10, <1>11, <1>12, <1>13,
     <1>14, <1>15, <1>16
  DEF TunnelNext, TargetStep, NodeStep

-------------------------------------------------------------------------------
(***************************************************************************)
(* The node and its wake connections: an older connection that ends leaves *)
(* the registration of a newer one alone.                                  *)
(***************************************************************************)

\* The node has not connected yet.
LEMMA NodeInit == TunnelInit => NodeInv
  BY TunnelAssumption DEF TunnelInit, NodeInv, Node, Wake, Connected, Connections

\* A step that leaves the node and its connections alone may move a target, but
\* not end the connection on which the node waits.
LEMMA NodeWaits ==
    ASSUME NodeInv, UNCHANGED <<wakeVars, node, losses>>,
           notifies' \in [Sessions -> Connections \cup {0}],
           target'[node.accept] # "idle" \/ target'[node.accept] = target[node.accept]
    PROVE  NodeInv'
  BY DEF NodeInv, wakeVars, Connected

\* How the node is left by what it does.
LEMMA DrainIsNode ==
    ASSUME NodeInv
    PROVE  /\ Drain \in Node /\ Drain.pc = "drain" /\ Drain.wake = node.wake /\ ~Drain.cut
           /\ \A c \in Connections : LET n == [Drain EXCEPT !.wake = c]
                                     IN  n \in Node /\ n.pc = "drain" /\ n.wake = c /\ ~n.cut
<1>1. 0 \in 0..(DrainMax - 1)
  BY TunnelAssumption
<1>2. node \in Node
  BY DEF NodeInv
<1> QED
  BY <1>1, <1>2 DEF Drain, Node

\* The node that is listening again.
LEMMA ListenIsNode ==
    ASSUME NodeInv, NEW cut \in BOOLEAN
    PROVE  /\ Listen(cut) \in Node /\ Listen(cut).pc = "listen"
           /\ Listen(cut).wake = node.wake /\ Listen(cut).cut = cut
<1>1. 0 \in 0..(DrainMax - 1)
  BY TunnelAssumption
<1>2. node \in Node
  BY DEF NodeInv
<1> QED
  BY <1>1, <1>2 DEF Listen, Node

\* A lost connection is counted.
LEMMA LoseIsBounded ==
    ASSUME NodeInv, Lose \/ UNCHANGED losses
    PROVE  losses' \in 0..MaxLosses
  BY TunnelAssumption DEF NodeInv, Lose

\* No step leaves the node listening on a connection that the server has forgotten.
LEMMA NodeStepInv ==
    ASSUME TunnelInv, TunnelNext
    PROVE  NodeInv'
<1> USE DEF TunnelInv
<1>1. ASSUME NEW s \in Sessions, ConnectToTarget(s) PROVE NodeInv'
  <2>1. PICK i \in FirstLive(waiting_targets, LiveTargets) :
           target' = [target EXCEPT ![waiting_targets[i]] = "paired"]
    BY <1>1 DEF ConnectToTarget
  <2>2. UNCHANGED <<notifies, wakeVars, node, losses>>
    BY <1>1 DEF ConnectToTarget
  <2>3. node.accept \in Accepts => target'[node.accept] \in {"paired", target[node.accept]}
    BY <2>1 DEF QueueInv
  <2> QED
    BY <2>2, <2>3 DEF NodeInv, wakeVars, Connected
<1>2. ASSUME NEW s \in Sessions, QueueSource(s) PROVE NodeInv'
  <2>1. notifies' \in [Sessions -> Connections \cup {0}]
    BY <1>2 DEF QueueSource, NodeInv
  <2> QED
    BY <1>2, <2>1, NodeWaits DEF QueueSource
<1>3. ASSUME NEW s \in Sessions, NotifyWake(s) PROVE NodeInv'
  <2>1. notifies[s] \in Connections
    BY <1>3 DEF NotifyWake, NodeInv
  <2>2. wakes' \in [Connections -> Wake]
        /\ \A c \in Connections : wakes'[c].server = wakes[c].server
    BY <1>3, <2>1 DEF NotifyWake, NodeInv, Wake
  <2>3. notifies' \in [Sessions -> Connections \cup {0}]
    BY <1>3 DEF NotifyWake, NodeInv
  <2>4. node.wake \in Connections \cup {0}
    BY DEF NodeInv, Node
  <2> QED
    BY <1>3, <2>2, <2>3, <2>4 DEF NotifyWake, NodeInv, Connected, queueVars
<1>4. ASSUME NEW a \in Accepts, TryPair(a) \/ QueueTarget(a) \/ TargetGivesUp(a) \/ RemoveTarget(a)
      PROVE  NodeInv'
  <2>1. UNCHANGED <<notifies, wakeVars, node, losses>>
    BY <1>4 DEF TryPair, QueueTarget, TargetGivesUp, RemoveTarget
  <2>2. \E pc \in TargetPCs \ {"idle"} : target' = [target EXCEPT ![a] = pc]
    BY <1>4 DEF TryPair, QueueTarget, TargetGivesUp, RemoveTarget, TargetPCs
  <2>3. node.accept \in Accepts => target'[node.accept] \in (TargetPCs \ {"idle"}) \cup {target[node.accept]}
    BY <2>2 DEF QueueInv
  <2> QED
    BY <2>1, <2>3 DEF NodeInv, wakeVars, Connected
<1>5. ASSUME NEW a \in Accepts, DropTarget(a) PROVE NodeInv'
  <2>1. node.accept \in Accepts => target'[node.accept] = target[node.accept]
    BY <1>5 DEF DropTarget, QueueInv
  <2> QED
    BY <1>5, <2>1 DEF DropTarget, NodeInv, wakeVars, Connected
<1>6. ASSUME NEW c \in Connections, PushWake(c) PROVE NodeInv'
  <2>1. wakes' \in [Connections -> Wake]
        /\ \A d \in Connections : wakes'[d].server = wakes[d].server
    BY <1>6 DEF PushWake, NodeInv, Wake
  <2>2. node.wake \in Connections \cup {0}
    BY DEF NodeInv, Node
  <2> QED
    BY <1>6, <2>1, <2>2 DEF PushWake, NodeInv, Connected, queueVars
<1>7. ASSUME NEW c \in Connections, EndWake(c) \/ UnregisterWake(c) PROVE NodeInv'
  <2>1. wakes' \in [Connections -> Wake] /\ wakes'[c].server # "serving"
        /\ \A d \in Connections \ {c} : wakes'[d] = wakes[d]
    BY <1>7 DEF EndWake, UnregisterWake, NodeInv, Wake
  <2>2. node.wake \in Connections \cup {0}
    BY DEF NodeInv, Node
  <2>3. Connected' => wake_channel' = node.wake'
    BY <1>7, <2>1, <2>2 DEF EndWake, UnregisterWake, NodeInv, Connected
  <2>4. losses' \in 0..MaxLosses /\ wake_channel' \in Connections \cup {0}
    BY <1>7, TunnelAssumption DEF EndWake, UnregisterWake, NodeInv, Lose
  <2> QED
    BY <1>7, <2>1, <2>3, <2>4 DEF EndWake, UnregisterWake, NodeInv, queueVars
<1>8. CASE ConnectWake
  <2>1. PICK c \in Connections :
           /\ node.pc = "connect"
           /\ wake_channel' = c
           /\ wakes' = [wakes EXCEPT ![c].server = "serving"]
           /\ \/ node' = [Drain EXCEPT !.wake = c] /\ UNCHANGED losses
              \/ Lose /\ node' = [node EXCEPT !.silent = TRUE]
              \/ Lose /\ UNCHANGED node
    BY <1>8 DEF ConnectWake
  <2>2. UNCHANGED <<notifies, target>>
    BY <1>8 DEF ConnectWake, queueVars
  <2>3. wakes' \in [Connections -> Wake]
    BY <2>1 DEF NodeInv, Wake
  <2>4. c # 0 /\ losses' \in 0..MaxLosses
    BY <2>1, TunnelAssumption DEF Connections, NodeInv, Lose
  <2>5. CASE node' = [Drain EXCEPT !.wake = c]
    <3>1. node' \in Node /\ node'.pc = "drain" /\ node'.wake = c /\ ~node'.cut
      BY <2>5, DrainIsNode
    <3> QED
      BY <2>1, <2>2, <2>3, <2>4, <3>1 DEF NodeInv, Connected
  <2>6. CASE UNCHANGED node
    BY <2>1, <2>2, <2>3, <2>4, <2>6 DEF NodeInv, Connected
  <2>7. CASE node' = [node EXCEPT !.silent = TRUE]
    <3>1. node' \in Node /\ node'.pc = "connect" /\ node'.wake = 0 /\ node'.cut = node.cut
      BY <2>1, <2>7 DEF NodeInv, Node
    <3> QED
      BY <2>1, <2>2, <2>3, <2>4, <3>1 DEF NodeInv, Connected
  <2> QED
    BY <2>1, <2>5, <2>6, <2>7
<1>9. CASE StartAccept
  <2>1. PICK a \in Accepts : /\ node.pc = "drain"
                             /\ target' = [target EXCEPT ![a] = "trying"]
                             /\ node' = [node EXCEPT !.pc = "accept", !.accept = a]
    BY <1>9 DEF StartAccept
  <2>2. node' \in Node /\ node'.pc = "accept" /\ node'.accept = a /\ node'.wake = node.wake
        /\ node'.cut = node.cut
    BY <2>1 DEF NodeInv, Node
  <2>3. target'[a] = "trying"
    BY <2>1 DEF QueueInv
  <2> QED
    BY <1>9, <2>1, <2>2, <2>3 DEF StartAccept, NodeInv, Connected, wakeVars
<1>10. CASE Accepted \/ NotAccepted \/ LoseAccept
  <2> DEFINE next == [node EXCEPT !.pc = "drain", !.accept = NoAccept, !.drained = @ + 1]
             goes == /\ node' \in Node /\ node'.pc \in {"drain", "listen"} /\ node'.wake = node.wake
                     /\ node'.pc = "drain" => node'.cut = node.cut
  <2>1. goes
    <3>1. CASE node.drained + 1 < DrainMax /\ node' = next
      <4>1. node.drained + 1 \in 0..(DrainMax - 1)
        BY <3>1, TunnelAssumption DEF NodeInv, Node
      <4> QED
        BY <3>1, <4>1 DEF NodeInv, Node
    <3>2. ASSUME NEW cut \in BOOLEAN, node' = Listen(cut) PROVE goes
      BY <3>2, ListenIsNode
    <3>3. Accepted => (node.drained + 1 < DrainMax /\ node' = next) \/ node' = Listen(TRUE)
      BY DEF Accepted
    <3>4. NotAccepted \/ LoseAccept => \E cut \in BOOLEAN : node' = Listen(cut)
      BY DEF NotAccepted, LoseAccept
    <3> QED
      BY <1>10, <3>1, <3>2, <3>3, <3>4
  <2>2. losses' \in 0..MaxLosses
    BY <1>10, LoseIsBounded DEF Accepted, NotAccepted, LoseAccept
  <2>3. UNCHANGED <<notifies, wakeVars>> /\ node.pc = "accept"
    BY <1>10 DEF Accepted, NotAccepted, LoseAccept
  <2> QED
    BY <2>1, <2>2, <2>3 DEF NodeInv, Connected, wakeVars
<1>11. CASE ReceiveWake \/ FallbackTick
  <2>1. node' \in Node /\ node'.pc = "drain" /\ node'.wake = node.wake /\ ~node'.cut
    BY <1>11, DrainIsNode DEF ReceiveWake, FallbackTick
  <2>2. node.wake \in Connections /\ node.pc # "connect"
    BY <1>11 DEF ReceiveWake, FallbackTick, NodeInv, Node
  <2>3. wakes' \in [Connections -> Wake] /\ wakes'[node.wake].server = wakes[node.wake].server
    <3>1. CASE wakes' = [wakes EXCEPT ![node.wake].message = FALSE]
      BY <2>2, <3>1 DEF NodeInv, Wake
    <3> QED
      BY <1>11, <3>1 DEF ReceiveWake, FallbackTick, wakeVars, NodeInv
  <2> QED
    BY <1>11, <2>1, <2>2, <2>3 DEF ReceiveWake, FallbackTick, NodeInv, Connected, wakeVars
<1>12. CASE LeaveWake
  <2>1. node' \in Node /\ node'.pc = "connect" /\ node'.wake = 0
    BY <1>12 DEF LeaveWake, NodeInv, Node
  <2>2. losses' \in 0..MaxLosses
    BY <1>12, TunnelAssumption DEF LeaveWake, Lose, NodeInv
  <2> QED
    BY <1>12, <2>1, <2>2 DEF LeaveWake, NodeInv, Connected, wakeVars
<1>12a. CASE SilenceAccept \/ LoseConnect
  <2>1. /\ node' \in Node /\ node'.pc = node.pc /\ node'.wake = node.wake
        /\ node'.accept = node.accept /\ node'.cut = node.cut
    BY <1>12a DEF SilenceAccept, LoseConnect, NodeInv, Node
  <2>2. losses' \in 0..MaxLosses
    BY <1>12a, LoseIsBounded DEF SilenceAccept, LoseConnect
  <2> QED
    BY <1>12a, <2>1, <2>2 DEF SilenceAccept, LoseConnect, NodeInv, Connected, wakeVars, queueVars
<1>13. CASE UNCHANGED <<target, notifies, wakeVars, node, losses>>
  BY <1>13 DEF NodeInv, Connected, wakeVars
<1>14. ASSUME NEW s \in Sessions,
              Consume(s) \/ SourceTimesOut(s) \/ RemoveSource(s) \/ EndSource(s)
       PROVE  UNCHANGED <<target, notifies, wakeVars, node, losses>>
  BY <1>14 DEF Consume, SourceTimesOut, RemoveSource, EndSource
<1>15. Issue \/ Discard => UNCHANGED <<target, notifies, wakeVars, node, losses>>
  BY DEF Issue, Discard, queueVars
<1> QED
  BY <1>1, <1>2, <1>3, <1>4, <1>5, <1>6, <1>7, <1>8, <1>9, <1>10, <1>11, <1>12, <1>12a, <1>13,
     <1>14, <1>15
  DEF TunnelNext, TargetStep, NodeStep

-------------------------------------------------------------------------------
(***************************************************************************)
(* Sources that wait are known to a node whose wake connection stands.     *)
(***************************************************************************)

\* Nobody waits at first.
LEMMA KnownInit == TunnelInit => WaitingSourcesAreKnown
  BY DEF TunnelInit, WaitingSourcesAreKnown, LiveSources

\* A step that makes nobody wait and keeps what is on its way keeps the property.
LEMMA KnownStays ==
    ASSUME WaitingSourcesAreKnown,
           LiveSources' \subseteq LiveSources, LiveSources' \subseteq ToSet(pending_sources)',
           (Connected /\ ~node.cut)' => (Connected /\ ~node.cut),
           (Connected /\ ~node.cut)' /\ WakeOnItsWay => WakeOnItsWay'
    PROVE  WaitingSourcesAreKnown'
  BY DEF WaitingSourcesAreKnown

\* A target that moves was not looked for by anybody, unless the node's own accept
\* still has to look at the queue, or has found a source.
LEMMA TargetMoves ==
    ASSUME QueueInv, NodeInv, WakeOnItsWay, NEW a \in Accepts, NEW pc,
           target[a] \notin {"trying", "paired"} \/ pc = "paired" \/ a # node.accept,
           target' = [target EXCEPT ![a] = pc], UNCHANGED <<notifies, wakeVars, node>>
    PROVE  WakeOnItsWay'
<1>1. node.pc = "accept" => node.accept \in Accepts
  BY DEF NodeInv
<1> QED
  BY <1>1 DEF WakeOnItsWay, QueueInv, wakeVars

\* A source that starts to wait wakes the node, and no step of the node, of the
\* server or of the network takes the wake away.
LEMMA KnownStep ==
    ASSUME TunnelInv, TunnelNext
    PROVE  WaitingSourcesAreKnown'
<1> USE DEF TunnelInv
<1> DEFINE nodeVars == <<target, notifies, wakeVars, node>>
<1>0. /\ node.wake \in Connections \cup {0} /\ ToSet(pending_sources) \subseteq Sessions
      /\ LiveSources \subseteq ToSet(pending_sources)
  BY DEF NodeInv, Node, QueueInv, ToSet, WaitingSourcesAreKnown
<1>1. ASSUME UNCHANGED nodeVars, LiveSources' \subseteq LiveSources,
             LiveSources' \subseteq ToSet(pending_sources)'
      PROVE  WaitingSourcesAreKnown'
  BY <1>1, KnownStays DEF Connected, WakeOnItsWay, wakeVars
<1>2. ASSUME NEW s \in Sessions, Consume(s) \/ SourceTimesOut(s) \/ EndSource(s)
      PROVE  WaitingSourcesAreKnown'
  <2>1. LiveSources' \subseteq LiveSources
    BY <1>2 DEF Consume, SourceTimesOut, EndSource, Disconnect, LiveSources, QueueInv
  <2>2. UNCHANGED <<nodeVars, pending_sources>>
    BY <1>2 DEF Consume, SourceTimesOut, EndSource
  <2> QED
    BY <1>0, <1>1, <2>1, <2>2
<1>3. ASSUME NEW s \in Sessions, RemoveSource(s) PROVE WaitingSourcesAreKnown'
  <2>1. LiveSources' \subseteq LiveSources /\ s \notin LiveSources
    BY <1>3 DEF RemoveSource, Disconnect, LiveSources, QueueInv
  <2>2. ToSet(pending_sources) \ {s} \subseteq ToSet(pending_sources)'
    <3>1. ASSUME NEW i \in 1..Len(pending_sources), pending_sources[i] = s,
                 pending_sources' = RemoveAt(pending_sources, i)
          PROVE  <2>2
      BY <3>1, CutQueue DEF QueueInv
    <3> QED
      BY <1>3, <3>1 DEF RemoveSource
  <2>3. UNCHANGED nodeVars
    BY <1>3 DEF RemoveSource
  <2> QED
    BY <1>0, <1>1, <2>1, <2>2, <2>3
<1>4. ASSUME NEW s \in Sessions, ConnectToTarget(s) PROVE WaitingSourcesAreKnown'
  <2>1. PICK i \in FirstLive(waiting_targets, LiveTargets) :
           /\ source' = [source EXCEPT ![s] = "paired"]
           /\ target' = [target EXCEPT ![waiting_targets[i]] = "paired"]
    BY <1>4 DEF ConnectToTarget
  <2>2. UNCHANGED <<pending_sources, notifies, wakeVars, node>>
    BY <1>4 DEF ConnectToTarget
  <2>3. LiveSources' \subseteq LiveSources
    BY <2>1 DEF LiveSources, QueueInv
  <2>4. waiting_targets[i] \in Accepts
    BY DEF FirstLive, QueueInv
  <2>5. WakeOnItsWay => WakeOnItsWay'
    BY <2>1, <2>2, <2>4, TargetMoves
  <2> QED
    BY <1>0, <2>2, <2>3, <2>5, KnownStays DEF Connected, wakeVars
<1>5. ASSUME NEW s \in Sessions, QueueSource(s) PROVE WaitingSourcesAreKnown'
  <2>1. LiveSources' = LiveSources \cup {s}
    BY <1>5 DEF QueueSource, LiveSources, QueueInv
  <2>2. s \notin ToSet(pending_sources)
    BY <1>5 DEF QueueSource, QueueInv
  <2>3. ToSet(pending_sources)' = ToSet(pending_sources) \cup {s}
    BY <1>5, <2>2, AppendQueue DEF QueueSource, QueueInv
  <2>4. Connected' => notifies'[s] = node.wake'
    BY <1>5 DEF QueueSource, Connected, NodeInv, wakeVars
  <2> QED
    BY <1>0, <2>1, <2>3, <2>4 DEF WaitingSourcesAreKnown, WakeOnItsWay
<1>6. ASSUME NEW s \in Sessions, NotifyWake(s) PROVE WaitingSourcesAreKnown'
  <2>1. /\ notifies[s] \in Connections
        /\ notifies[s] # node.wake => wakes'[node.wake] = wakes[node.wake]
        /\ notifies[s] = node.wake => wakes'[node.wake].permit
        /\ node.wake # 0 => wakes'[node.wake].server = wakes[node.wake].server
        /\ \A x \in Sessions \ {s} : notifies'[x] = notifies[x]
    BY <1>0, <1>6 DEF NotifyWake, NodeInv, Wake
  <2>2. UNCHANGED <<queueVars, node>>
    BY <1>6 DEF NotifyWake
  <2>3. WakeOnItsWay => WakeOnItsWay'
    BY <2>1, <2>2 DEF WakeOnItsWay, queueVars
  <2> QED
    BY <1>0, <2>1, <2>2, <2>3, KnownStays DEF Connected, LiveSources, queueVars
<1>7. ASSUME NEW a \in Accepts, TryPair(a) PROVE WaitingSourcesAreKnown'
  <2> DEFINE found == FirstLive(pending_sources, LiveSources)
  <2>1. UNCHANGED <<notifies, wakeVars, node>> /\ target[a] = "trying"
    BY <1>7 DEF TryPair
  <2>2. ASSUME NEW i \in found,
               source' = [source EXCEPT ![pending_sources[i]] = "paired"],
               target' = [target EXCEPT ![a] = "paired"],
               pending_sources' = After(pending_sources, i)
        PROVE  WaitingSourcesAreKnown'
    <3>1. /\ i \in 1..Len(pending_sources) /\ pending_sources[i] \in Sessions
          /\ \A j \in 1..(i - 1) : pending_sources[j] \notin LiveSources
      BY DEF FirstLive, QueueInv
    <3>2. LiveSources' = LiveSources \ {pending_sources[i]}
      BY <2>2, <3>1 DEF LiveSources, QueueInv
    <3>3. ToSet(pending_sources)' = {pending_sources[j] : j \in (i + 1)..Len(pending_sources)}
      BY <2>2, <3>1, PopQueue DEF QueueInv
    <3>4. LiveSources' \subseteq ToSet(pending_sources)'
      <4>1. SUFFICES ASSUME NEW x \in LiveSources, x # pending_sources[i]
                     PROVE  x \in {pending_sources[j] : j \in (i + 1)..Len(pending_sources)}
        BY <3>2, <3>3
      <4>2. PICK j \in 1..Len(pending_sources) : x = pending_sources[j]
        BY <1>0 DEF ToSet, QueueInv
      <4>3. j \in (i + 1)..Len(pending_sources)
        BY <3>1, <4>1, <4>2
      <4> QED
        BY <4>2, <4>3
    <3>5. WakeOnItsWay => WakeOnItsWay'
      BY <2>1, <2>2, TargetMoves
    <3> QED
      BY <2>1, <3>2, <3>4, <3>5, KnownStays DEF Connected, wakeVars
  <2>3. CASE found = {} /\ UNCHANGED source
    <3>1. ToSet(pending_sources) \cap LiveSources = {}
      BY <2>3, FirstLiveExists DEF QueueInv
    <3>2. LiveSources' = {}
      BY <1>0, <2>3, <3>1 DEF LiveSources
    <3> QED
      BY <3>2 DEF WaitingSourcesAreKnown
  <2> QED
    BY <1>7, <2>2, <2>3 DEF TryPair
<1>8. ASSUME NEW a \in Accepts,
             QueueTarget(a) \/ TargetGivesUp(a) \/ RemoveTarget(a) \/ DropTarget(a)
      PROVE  WaitingSourcesAreKnown'
  <2>1. UNCHANGED <<source, pending_sources, notifies, wakeVars, node>>
    BY <1>8 DEF QueueTarget, TargetGivesUp, RemoveTarget, DropTarget
  <2>2. /\ target[a] \notin {"trying", "paired"} \/ a # node.accept
        /\ \E pc \in TargetPCs : target' = [target EXCEPT ![a] = pc]
    BY <1>8 DEF QueueTarget, TargetGivesUp, RemoveTarget, DropTarget, TargetPCs
  <2>3. WakeOnItsWay => WakeOnItsWay'
    BY <2>1, <2>2, TargetMoves
  <2> QED
    BY <1>0, <2>1, <2>3, KnownStays DEF Connected, wakeVars, LiveSources
<1>9. ASSUME NEW c \in Connections, PushWake(c) \/ EndWake(c) \/ UnregisterWake(c)
      PROVE  WaitingSourcesAreKnown'
  <2>1. UNCHANGED <<queueVars, notifies, node>>
    BY <1>9 DEF PushWake, EndWake, UnregisterWake
  <2>2. /\ Connected' => Connected
        /\ Connected' /\ wakes[node.wake].permit =>
              wakes'[node.wake].permit \/ wakes'[node.wake].message
        /\ Connected' /\ wakes[node.wake].message => wakes'[node.wake].message
    <3>1. node.wake # 0 => node.wake \in Connections
      BY <1>0
    <3>2. CASE node.wake = c
      BY <1>9, <2>1, <3>2 DEF PushWake, EndWake, UnregisterWake, Connected, NodeInv, Wake
    <3>3. CASE node.wake # c
      BY <1>9, <2>1, <3>1, <3>3 DEF PushWake, EndWake, UnregisterWake, Connected, NodeInv
    <3> QED
      BY <3>2, <3>3
  <2>3. Connected' /\ WakeOnItsWay => WakeOnItsWay'
    BY <2>1, <2>2 DEF WakeOnItsWay, queueVars
  <2> QED
    BY <1>0, <2>1, <2>2, <2>3, KnownStays DEF LiveSources, queueVars
<1>10. ASSUME UNCHANGED queueVars \/ UNCHANGED <<source, pending_sources>>,
              WakeOnItsWay' \/ node'.cut \/ node'.wake = 0
       PROVE  WaitingSourcesAreKnown'
  BY <1>0, <1>10 DEF WaitingSourcesAreKnown, LiveSources, Connected, queueVars
<1>11. CASE ConnectWake
  <2>1. node.wake = 0
    BY <1>11 DEF ConnectWake, NodeInv
  <2>2. node'.pc = "drain" \/ node'.wake = 0
    BY <1>11, <2>1, DrainIsNode DEF ConnectWake, NodeInv, Node
  <2>3. UNCHANGED queueVars
    BY <1>11 DEF ConnectWake
  <2> QED
    BY <1>10, <2>2, <2>3 DEF WakeOnItsWay
<1>12. CASE StartAccept
  <2>1. PICK a \in Accepts : /\ target' = [target EXCEPT ![a] = "trying"]
                             /\ node' = [node EXCEPT !.pc = "accept", !.accept = a]
    BY <1>12 DEF StartAccept
  <2>2. node'.pc = "accept" /\ target'[node'.accept] = "trying"
    BY <2>1 DEF QueueInv, NodeInv, Node
  <2>3. UNCHANGED <<source, pending_sources>>
    BY <1>12 DEF StartAccept
  <2> QED
    BY <1>10, <2>2, <2>3 DEF WakeOnItsWay
<1>13. CASE Accepted \/ LoseAccept
  <2>1. node'.pc = "drain" \/ node'.cut
    BY <1>13, ListenIsNode DEF Accepted, LoseAccept, NodeInv, Node
  <2>2. UNCHANGED <<source, pending_sources>>
    BY <1>13 DEF Accepted, LoseAccept, queueVars
  <2> QED
    BY <1>10, <2>1, <2>2 DEF WakeOnItsWay
<1>14. CASE NotAccepted
  <2>1. /\ UNCHANGED <<source, pending_sources, notifies, wakeVars>>
        /\ node' = Listen(target[node.accept] = "failed")
        /\ node.pc = "accept" /\ target[node.accept] \in {"timed out", "failed"}
    BY <1>14 DEF NotAccepted
  <2>2. node'.wake = node.wake /\ node'.cut = (target[node.accept] = "failed") /\ ~node.cut
    BY <2>1, ListenIsNode DEF NodeInv
  <2>3. WakeOnItsWay => WakeOnItsWay'
    BY <2>1, <2>2 DEF WakeOnItsWay, wakeVars
  <2> QED
    BY <1>0, <2>1, <2>2, <2>3, KnownStays DEF Connected, LiveSources, wakeVars
<1>15. CASE ReceiveWake \/ FallbackTick
  <2>1. node'.pc = "drain" /\ UNCHANGED queueVars
    BY <1>15, DrainIsNode DEF ReceiveWake, FallbackTick
  <2> QED
    BY <1>10, <2>1 DEF WakeOnItsWay
<1>16. CASE LeaveWake
  <2>1. node'.wake = 0 /\ UNCHANGED queueVars
    BY <1>16 DEF LeaveWake, NodeInv, Node
  <2> QED
    BY <1>10, <2>1
<1>17. CASE Issue \/ Discard
  BY <1>0, <1>1, <1>17 DEF Issue, Discard, queueVars, LiveSources
<1>18. CASE SilenceAccept \/ LoseConnect
  <2>1. /\ node'.pc = node.pc /\ node'.wake = node.wake
        /\ node'.accept = node.accept /\ node'.cut = node.cut
    BY <1>18 DEF SilenceAccept, LoseConnect, NodeInv, Node
  <2>2. UNCHANGED <<queueVars, notifies, wakeVars>>
    BY <1>18 DEF SilenceAccept, LoseConnect
  <2>3. WakeOnItsWay => WakeOnItsWay'
    BY <2>1, <2>2 DEF WakeOnItsWay, queueVars, wakeVars
  <2> QED
    BY <1>0, <2>1, <2>2, <2>3, KnownStays DEF Connected, LiveSources, queueVars, wakeVars
<1> QED
  BY <1>2, <1>3, <1>4, <1>5, <1>6, <1>7, <1>8, <1>9, <1>11, <1>12, <1>13, <1>14, <1>15,
     <1>16, <1>17, <1>18
  DEF TunnelNext, TargetStep, NodeStep

-------------------------------------------------------------------------------

\* The four parts of the inductive invariant hold together, whatever the broker, the
\* clients and the node do and in whatever order.
THEOREM TunnelInvariant == TunnelSpec => []TunnelInv
<1>1. TunnelInit => TunnelInv
  BY TicketInit, QueueInit, NodeInit, KnownInit DEF TunnelInv
<1>2. TunnelInv /\ [TunnelNext]_tunnelVars => TunnelInv'
  <2>1. TunnelInv /\ TunnelNext => TunnelInv'
    BY TicketStep, QueueStep, NodeStepInv, KnownStep DEF TunnelInv
  <2>2. TunnelInv /\ UNCHANGED tunnelVars => TunnelInv'
    BY DEF TunnelInv, TicketInv, TicketsAreBounded, Open, QueueInv, NodeInv, Connected,
           WaitingSourcesAreKnown, WakeOnItsWay, LiveSources,
           tunnelVars, ticketVars, queueVars, wakeVars
  <2> QED
    BY <2>1, <2>2
<1> QED
  BY <1>1, <1>2, PTL DEF TunnelSpec

\* No queue of the broker ever holds a session or a connection twice, the node only
\* waits on an accept that is under way, and a drain has at most DrainMax rounds.
THEOREM TunnelTypeCorrect == TunnelSpec => []TunnelTypeOK
<1>1. TunnelInv => TunnelTypeOK
  BY DEF TunnelInv, TicketInv, QueueInv, NodeInv, TunnelTypeOK
<1> QED
  BY <1>1, TunnelInvariant, PTL

\* issue, consume, release and the end of a connection keep the number of a client's
\* tickets and connections within max_allocations_per_client, and none is counted
\* that is not open.
THEOREM TicketsStayBounded == TunnelSpec => []TicketsAreBounded
<1>1. TunnelInv => TicketsAreBounded
  BY DEF TunnelInv, TicketInv
<1> QED
  BY <1>1, TunnelInvariant, PTL

\* connect_source and the wake task never leave a source waiting that the node has
\* not been told of, while the wake connection stands and the last drain was not cut.
THEOREM SourcesAreNotOverlooked == TunnelSpec => []WaitingSourcesAreKnown
<1>1. TunnelInv => WaitingSourcesAreKnown
  BY DEF TunnelInv
<1> QED
  BY <1>1, TunnelInvariant, PTL

===============================================================================
