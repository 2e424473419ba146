-------------------------------- MODULE Stp --------------------------------
(***************************************************************************)
(* The Mixnet node (mixnet/node.c): spanning-tree election, re-election    *)
(* and FLOOD forwarding, over the FIFO links and the link switch the       *)
(* framework gives it (framework/fragment.cpp).                            *)
(*                                                                         *)
(* A node is named by its mixnet address and a port by the address of the  *)
(* neighbour behind it.  One iteration of the loop of run_node is split    *)
(* into its receive branch and its two timer branches: a node's variables  *)
(* are private to it and its sends only append to queues, so the branches  *)
(* of one iteration may be taken one by one.                               *)
(***************************************************************************)
EXTENDS Integers, Sequences, FiniteSets

CONSTANTS
  Node,          \* addresses of the nodes
  Neighbor,      \* Neighbor[n]: the nodes at the other end of n's ports
  HelloTicks,    \* config.root_hello_interval_ms, in ticks
  ReelectTicks,  \* config.reelection_interval_ms, in ticks
  Timely,        \* TRUE: a tick outlasts every delivery and every loop iteration
  MaxInFlight,   \* bound: readable packets a tick may overtake, unless Timely
  PathModulus,   \* 2^16: path_length is a uint16_t on the wire
  MaxPath,       \* bound on path_len
  MaxLinkChanges,\* bound on the test case's calls of change_link_state
  MaxBacklog,    \* bound on the packets waiting at one disabled port
  MaxFloods,     \* bound on the FLOODs the test case sends
  WaitConverged, \* TRUE: the test case waits (sleep) before it floods
  Dist           \* any potential on the graph, e.g. the distance in hops

ASSUME NodeAssumption == Node \subseteq Nat

ASSUME NeighborAssumption ==
  /\ Neighbor \in [Node -> SUBSET Node]
  /\ \A n \in Node : n \notin Neighbor[n]
  /\ \A n, m \in Node : m \in Neighbor[n] => n \in Neighbor[m]

ASSUME TimerAssumption ==
  /\ HelloTicks \in Nat \ {0}
  /\ ReelectTicks \in Nat \ {0}
  /\ Timely \in BOOLEAN

ASSUME BoundAssumption ==
  /\ MaxInFlight \in Nat
  /\ PathModulus \in Nat \ {0}
  /\ MaxPath \in Nat
  /\ MaxPath < PathModulus
  /\ MaxLinkChanges \in Nat
  /\ MaxBacklog \in Nat
  /\ MaxFloods \in Nat
  /\ WaitConverged \in BOOLEAN

\* The hop distance satisfies this, and so does every smaller potential.
ASSUME DistAssumption ==
  /\ Dist \in [Node -> [Node -> Nat]]
  /\ \A n \in Node : Dist[n][n] = 0
  /\ \A n, r \in Node : \A m \in Neighbor[n] : Dist[n][r] <= Dist[m][r] + 1

VARIABLES
  root_addr,         \* struct node
  path_len,
  next_hop,
  discovered,        \* ports with neighbors_addy[i] # -1
  neighbors_blocked, \* ports with neighbors_blocked[i]
  since_hello,       \* time - heartbeat_time, saturating at HelloTicks
  since_match,       \* time - re_election_time, saturating at ReelectTicks
  rx,                \* rx[n][m]: packets from m in the socket of n's port to m
  link_states,       \* link_states[n]: ports of n the framework reads
  changing,          \* the call of change_link_state in progress, or NoChange
  changes_left,
  floods_left,
  delivered,         \* FLOODs handed to the user of each node
  expected           \* FLOODs its user should have seen, one per flood

nodeVars   == <<root_addr, path_len, next_hop>>
portVars   == <<discovered, neighbors_blocked>>
timerVars  == <<since_hello, since_match>>
linkVars   == <<link_states, changing, changes_left>>
driverVars == <<floods_left, delivered, expected>>
vars == <<nodeVars, portVars, timerVars, rx, linkVars, driverVars>>

-----------------------------------------------------------------------------
(* Packets and queues *)

\* Mutants: the sender's own address is left out, and the path sent is the
\* one of the sender's parent.
StpPacketWithoutSender(root, path, n) ==
  [type |-> "STP", root_address |-> root, path_length |-> path % PathModulus,
   node_address |-> 0]

StpPacketOfParent(root, path, n) ==
  [type |-> "STP", root_address |-> root, path_length |-> IF path = 0 THEN 0 ELSE path - 1,
   node_address |-> n]

\* path_len is an int in struct node, path_length a uint16_t in the packet.
StpPacket(root, path, n) ==
  [type |-> "STP", root_address |-> root, path_length |-> path % PathModulus,
   node_address |-> n]

FloodPacket == [type |-> "FLOOD"]

Packet ==
  [type : {"STP"}, root_address : Node, path_length : 0 .. PathModulus - 1, node_address : Node]
    \cup {FloodPacket}

NoChange == <<>>

MoreChanges == changes_left > 0 \/ changing # NoChange

\* A packet put on a port that will never be read again is not kept.
Readable(d, s) == s \in link_states[d] \/ MoreChanges

\* Queues q after n has sent packet p on each port of P.
Send(q, n, P, p) ==
  [d \in Node |-> [s \in Node |->
     IF s = n /\ d \in P /\ Readable(d, n) THEN Append(q[d][s], p) ELSE q[d][s]]]

\* send_STP: the node's vector on every port, the blocked ones included.
SendSTP(q, n, root, path) == Send(q, n, Neighbor[n], StpPacket(root, path, n))

\* Queues q after n has read the packet at the head of its port to m.
Received(q, n, m) == [q EXCEPT ![n][m] = Tail(@)]

\* n reads a packet of the given type from an enabled port.
CanReceive(n, m, type) ==
  /\ m \in link_states[n]
  /\ rx[n][m] # <<>>
  /\ Head(rx[n][m]).type = type

-----------------------------------------------------------------------------
(* Initial state: every node has run up to the loop of run_node and sent   *)
(* its first STP packets.                                                  *)

Init ==
  /\ root_addr = [n \in Node |-> n]
  /\ path_len = [n \in Node |-> 0]
  /\ next_hop = [n \in Node |-> n]
  /\ discovered = [n \in Node |-> {}]
  /\ neighbors_blocked = Neighbor
  /\ since_hello = [n \in Node |-> 0]
  /\ since_match = [n \in Node |-> 0]
  /\ rx = [d \in Node |-> [s \in Node |->
             IF s \in Neighbor[d] THEN <<StpPacket(s, 0, s)>> ELSE <<>>]]
  /\ link_states = Neighbor
  /\ changing = NoChange
  /\ changes_left = MaxLinkChanges
  /\ floods_left = MaxFloods
  /\ delivered = [n \in Node |-> 0]
  /\ expected = [n \in Node |-> 0]

-----------------------------------------------------------------------------
(* Timers of run_node *)

HelloDue(n) == root_addr[n] = n /\ since_hello[n] >= HelloTicks

\* A root whose hello interval has passed sends its vector.
Hello(n) ==
  /\ HelloDue(n)
  /\ rx' = SendSTP(rx, n, root_addr[n], path_len[n])
  /\ since_hello' = [since_hello EXCEPT ![n] = 0]
  /\ since_match' = [since_match EXCEPT ![n] = 0]
  /\ UNCHANGED <<nodeVars, portVars, linkVars, driverVars>>

\* The bound MaxPath: only re-elections let stale vectors lengthen a path
\* without end, and none happens while a path could outgrow the bound.
PathRoom ==
  /\ \A n \in Node : path_len[n] + Cardinality(Node) <= MaxPath
  /\ \A n \in Node : \A m \in Neighbor[n] : \A i \in DOMAIN rx[n][m] :
       rx[n][m][i].type = "STP" => rx[n][m][i].path_length + Cardinality(Node) <= MaxPath

\* Mutant: the timer is looked at by roots only.
ReelectDueAtRoot(n) == root_addr[n] = n /\ since_match[n] >= ReelectTicks

ReelectDue(n) == root_addr[n] # n /\ since_match[n] >= ReelectTicks

\* A node that has heard no hello from its parent for too long becomes root;
\* its blocked flags and heartbeat_time stay as they are.
Reelect(n) ==
  /\ ReelectDue(n)
  /\ PathRoom
  /\ root_addr' = [root_addr EXCEPT ![n] = n]
  /\ path_len' = [path_len EXCEPT ![n] = 0]
  /\ next_hop' = [next_hop EXCEPT ![n] = n]
  /\ rx' = SendSTP(rx, n, n, 0)
  /\ since_match' = [since_match EXCEPT ![n] = 0]
  /\ UNCHANGED <<portVars, since_hello, linkVars, driverVars>>

-----------------------------------------------------------------------------
(* STP packets: the branch of run_node and receive_STP *)

\* Mutant: the parent's path is compared with n's own.
IsParentHelloSamePath(n, u) ==
  /\ u.root_address = root_addr[n]
  /\ u.path_length = path_len[n]
  /\ u.node_address = next_hop[n]

\* Mutant: a hello of any neighbour on n's root keeps the timer from expiring.
IsParentHelloAnySender(n, u) ==
  u.root_address = root_addr[n] /\ root_addr[n] # n

\* The packet is the parent's vector, unchanged since n adopted it.
IsParentHello(n, u) ==
  /\ u.root_address = root_addr[n]
  /\ u.path_length + 1 = path_len[n]
  /\ u.node_address = next_hop[n]

\* n passes its parent's hello on, to every neighbour.
ForwardParentHello(n, m) ==
  /\ CanReceive(n, m, "STP")
  /\ IsParentHello(n, Head(rx[n][m]))
  /\ rx' = SendSTP(Received(rx, n, m), n, root_addr[n], path_len[n])
  /\ since_match' = [since_match EXCEPT ![n] = 0]
  /\ UNCHANGED <<nodeVars, portVars, since_hello, linkVars, driverVars>>

\* The first packet on a port only tells who is behind it.
DiscoverNeighbor(n, m) ==
  /\ CanReceive(n, m, "STP")
  /\ ~IsParentHello(n, Head(rx[n][m]))
  /\ m \notin discovered[n]
  /\ discovered' = [discovered EXCEPT ![n] = @ \cup {m}]
  /\ neighbors_blocked' = [neighbors_blocked EXCEPT ![n] = @ \ {m}]
  /\ rx' = Received(rx, n, m)
  /\ UNCHANGED <<nodeVars, timerVars, linkVars, driverVars>>

LowerRoot(n, u) == u.root_address < root_addr[n]

ShorterPath(n, u) ==
  u.root_address = root_addr[n] /\ u.path_length + 1 < path_len[n]

LowerParent(n, u) ==
  /\ u.root_address = root_addr[n]
  /\ u.path_length + 1 = path_len[n]
  /\ u.node_address < next_hop[n]

\* Mutant: a root that is not higher is enough.
BetterOnEqualRoot(n, u) == u.root_address <= root_addr[n]

Better(n, u) == LowerRoot(n, u) \/ ShorterPath(n, u) \/ LowerParent(n, u)

\* n takes the sender as its parent, tells every neighbour, and opens no port
\* but the sender's.  re_election_time is not touched.
AdoptParent(n, m) ==
  /\ CanReceive(n, m, "STP")
  /\ m \in discovered[n]
  /\ LET u == Head(rx[n][m]) IN
       /\ ~IsParentHello(n, u)
       /\ Better(n, u)
       /\ u.path_length + 1 <= MaxPath
       /\ root_addr' = [root_addr EXCEPT ![n] = u.root_address]
       /\ path_len' = [path_len EXCEPT ![n] = u.path_length + 1]
       /\ next_hop' = [next_hop EXCEPT ![n] = u.node_address]
       /\ rx' = SendSTP(Received(rx, n, m), n, u.root_address, u.path_length + 1)
       /\ neighbors_blocked' = [neighbors_blocked EXCEPT ![n] = Neighbor[n] \ {m}]
  /\ UNCHANGED <<discovered, timerVars, linkVars, driverVars>>

\* Mutant: the parent's port is not an exception.
OpensPortToChildren(n, u) ==
  u.root_address = root_addr[n] /\ u.path_length = path_len[n] + 1

\* The sender is n's parent, or one hop further from n's root than n.
OpensPort(n, u) ==
  \/ u.node_address = next_hop[n]
  \/ u.root_address = root_addr[n] /\ u.path_length = path_len[n] + 1

\* The vector is no better than n's: only the port's blocked flag changes.
KeepParent(n, m) ==
  /\ CanReceive(n, m, "STP")
  /\ m \in discovered[n]
  /\ LET u == Head(rx[n][m]) IN
       /\ ~IsParentHello(n, u)
       /\ ~Better(n, u)
       /\ neighbors_blocked' = [neighbors_blocked EXCEPT ![n] =
                                  IF OpensPort(n, u) THEN @ \ {m} ELSE @ \cup {m}]
  /\ rx' = Received(rx, n, m)
  /\ UNCHANGED <<nodeVars, discovered, timerVars, linkVars, driverVars>>

-----------------------------------------------------------------------------
(* FLOOD packets *)

Open(n) == Neighbor[n] \ neighbors_blocked[n]

\* Mutant: the port a FLOOD comes from is not looked at.
ForwardFloodFromAnyPort(n, m) ==
  /\ CanReceive(n, m, "FLOOD")
  /\ rx' = Send(Received(rx, n, m), n, Open(n) \ {m}, FloodPacket)
  /\ delivered' = [delivered EXCEPT ![n] = @ + 1]
  /\ UNCHANGED <<nodeVars, portVars, timerVars, linkVars, floods_left, expected>>

\* A FLOOD from an open port goes to every other open port and to the user.
ForwardFlood(n, m) ==
  /\ CanReceive(n, m, "FLOOD")
  /\ m \in Open(n)
  /\ rx' = Send(Received(rx, n, m), n, Open(n) \ {m}, FloodPacket)
  /\ delivered' = [delivered EXCEPT ![n] = @ + 1]
  /\ UNCHANGED <<nodeVars, portVars, timerVars, linkVars, floods_left, expected>>

\* Mutant: a FLOOD on a blocked port is left in the socket.
LeaveFlood(n, m) ==
  /\ CanReceive(n, m, "FLOOD")
  /\ m \notin Open(n)
  /\ UNCHANGED vars

\* A FLOOD from a blocked port is ignored.
DropFlood(n, m) ==
  /\ CanReceive(n, m, "FLOOD")
  /\ m \notin Open(n)
  /\ rx' = Received(rx, n, m)
  /\ UNCHANGED <<nodeVars, portVars, timerVars, linkVars, driverVars>>

-----------------------------------------------------------------------------
(* The network as it is: links enabled at both ends *)

Up(n) == {m \in link_states[n] : n \in link_states[m]}

\* The nodes of n's connected component.
Component(n) ==
  {m \in Node : \A S \in SUBSET Node :
     (n \in S /\ \A x \in S : Up(x) \subseteq S) => m \in S}

\* next_hop of every node but the roots is one of its live neighbours.
IsParent(m, n) == m # n /\ next_hop[n] = m

FloodPending ==
  \E n \in Node : \E m \in link_states[n] :
    \E i \in DOMAIN rx[n][m] : rx[n][m][i] = FloodPacket

Quiet == \A n \in Node : \A m \in link_states[n] : rx[n][m] = <<>>

\* What STP is to reach.  All nodes of a component agree on a root, no node
\* follows a root higher than itself, and every other node is one hop further
\* than its parent, the lowest-addressed of its live neighbours nearest to the
\* root: then the root is the component's lowest address and path_len the
\* distance to it ...
CorrectVectors ==
  \A n \in Node :
    /\ root_addr[n] <= n
    /\ \A m \in Up(n) : root_addr[m] = root_addr[n]
    /\ root_addr[n] = n => path_len[n] = 0 /\ next_hop[n] = n
    /\ root_addr[n] # n =>
         /\ next_hop[n] \in Up(n)
         /\ path_len[n] = path_len[next_hop[n]] + 1
         /\ \A m \in Up(n) :
              \/ path_len[next_hop[n]] < path_len[m]
              \/ path_len[next_hop[n]] = path_len[m] /\ next_hop[n] <= m

\* ... and a live link passes FLOODs exactly when it joins a node to its parent.
ForwardingTree ==
  \A n \in Node : \A m \in Up(n) :
    (m \in Open(n) /\ n \in Open(m)) <=> (IsParent(m, n) \/ IsParent(n, m))

Converged == CorrectVectors /\ ForwardingTree

-----------------------------------------------------------------------------
(* The test case: send_packet, change_link_state, the passing of time *)

Settled == WaitConverged => Converged /\ Quiet

\* send_packet(n, _, PACKET_TYPE_FLOOD), received on the user port of n.
InjectFlood(n) ==
  /\ floods_left > 0
  /\ changing = NoChange
  /\ Settled
  /\ rx' = Send(rx, n, Open(n), FloodPacket)
  /\ floods_left' = floods_left - 1
  /\ expected' = [m \in Node |->
                    IF m \in Component(n) \ {n} THEN expected[m] + 1 ELSE expected[m]]
  /\ UNCHANGED <<nodeVars, portVars, timerVars, linkVars, delivered>>

\* task_update_link_state at n: set the switch, and drain a port being disabled.
UpdateLinkState(n, m, up) ==
  /\ link_states' = [link_states EXCEPT ![n] = IF up THEN @ \cup {m} ELSE @ \ {m}]
  /\ rx' = IF up THEN rx ELSE [rx EXCEPT ![n][m] = <<>>]

\* change_link_state(a, b, up) sends one request to a, and when a has answered
\* one to b.
ChangeLinkA(a, b, up) ==
  /\ changes_left > 0
  /\ changing = NoChange
  /\ WaitConverged => Quiet
  /\ up = (b \notin link_states[a])
  /\ UpdateLinkState(a, b, up)
  /\ changing' = <<a, b, up>>
  /\ changes_left' = changes_left - 1
  /\ UNCHANGED <<nodeVars, portVars, timerVars, driverVars>>

ChangeLinkB ==
  /\ changing # NoChange
  /\ UpdateLinkState(changing[2], changing[1], changing[3])
  /\ changing' = NoChange
  /\ UNCHANGED <<nodeVars, portVars, timerVars, changes_left, driverVars>>

\* The test case will change no more links: what waits at a disabled port is
\* never read, and the model forgets it.
EndChanges ==
  /\ changes_left > 0
  /\ changing = NoChange
  /\ changes_left' = 0
  /\ rx' = [d \in Node |-> [s \in Node |->
              IF s \in link_states[d] THEN rx[d][s] ELSE <<>>]]
  /\ UNCHANGED <<nodeVars, portVars, timerVars, link_states, changing, driverVars>>

InFlight ==
  UNION {{p} \X DOMAIN rx[p[1]][p[2]] : p \in {q \in Node \X Node : q[2] \in link_states[q[1]]}}

MayTick ==
  /\ IF Timely
       THEN Quiet /\ \A n \in Node : ~HelloDue(n) /\ ~ReelectDue(n)
       ELSE Cardinality(InFlight) <= MaxInFlight
  /\ MoreChanges =>
       \A n \in Node : \A m \in Neighbor[n] \ link_states[n] : Len(rx[n][m]) <= MaxBacklog

AtMost(x, y) == IF x < y THEN x ELSE y

Tick ==
  /\ MayTick
  /\ since_hello' = [n \in Node |-> AtMost(since_hello[n] + 1, HelloTicks)]
  /\ since_match' = [n \in Node |-> AtMost(since_match[n] + 1, ReelectTicks)]
  /\ UNCHANGED <<nodeVars, portVars, rx, linkVars, driverVars>>

-----------------------------------------------------------------------------
Receive(n, m) ==
  \/ ForwardParentHello(n, m)
  \/ DiscoverNeighbor(n, m)
  \/ AdoptParent(n, m)
  \/ KeepParent(n, m)
  \/ ForwardFlood(n, m)
  \/ DropFlood(n, m)

NodeStep ==
  \E n \in Node :
    \/ Hello(n)
    \/ Reelect(n)
    \/ \E m \in Neighbor[n] : Receive(n, m)

DriverStep ==
  \/ \E n \in Node : InjectFlood(n)
  \/ \E n \in Node : \E m \in Neighbor[n] : \E up \in BOOLEAN : ChangeLinkA(n, m, up)
  \/ ChangeLinkB
  \/ EndChanges

Next == NodeStep \/ DriverStep \/ Tick

Spec == Init /\ [][Next]_vars

\* Nodes keep running, time passes, and a test case ends what it has begun.
Fairness ==
  /\ WF_vars(NodeStep)
  /\ WF_vars(Tick)
  /\ WF_vars(ChangeLinkB)
  /\ WF_vars(EndChanges)

FairSpec == Spec /\ Fairness

-----------------------------------------------------------------------------
(* Properties *)

NodeTypeOK ==
  /\ root_addr \in [Node -> Node]
  /\ path_len \in [Node -> 0 .. MaxPath]
  /\ next_hop \in [Node -> Node]

PortTypeOK ==
  /\ discovered \in [Node -> SUBSET Node]
  /\ neighbors_blocked \in [Node -> SUBSET Node]

TimerTypeOK ==
  /\ since_hello \in [Node -> 0 .. HelloTicks]
  /\ since_match \in [Node -> 0 .. ReelectTicks]

LinkTypeOK ==
  /\ link_states \in [Node -> SUBSET Node]
  /\ changing \in {NoChange} \cup (Node \X Node \X BOOLEAN)
  /\ changes_left \in 0 .. MaxLinkChanges

DriverTypeOK ==
  /\ floods_left \in 0 .. MaxFloods
  /\ delivered \in [Node -> Nat]
  /\ expected \in [Node -> Nat]

TypeOK ==
  /\ NodeTypeOK
  /\ PortTypeOK
  /\ TimerTypeOK
  /\ rx \in [Node -> [Node -> Seq(Packet)]]
  /\ LinkTypeOK
  /\ DriverTypeOK

\* A node that follows another node's root keeps the port to its parent open,
\* whatever order vectors, re-elections and link changes come in: it never
\* cuts itself off the tree it believes in (receive_STP blocks all ports on a
\* change, and one port on every vector that is no better).
ParentPortOpen ==
  \A n \in Node : root_addr[n] # n =>
    /\ next_hop[n] \in Neighbor[n]
    /\ next_hop[n] \in discovered[n]
    /\ next_hop[n] \notin neighbors_blocked[n]

\* No vector, held by a node or in a queue, ever claims a path shorter than
\* the graph allows, stale packets of disabled links included.
PathNeverUndershoots ==
  /\ \A n \in Node : path_len[n] >= Dist[n][root_addr[n]]
  /\ \A n, m \in Node : \A i \in DOMAIN rx[n][m] :
       LET u == rx[n][m][i] IN
         u.type = "STP" =>
           u.node_address = m /\ u.path_length >= Dist[m][u.root_address]

Improves(n) ==
  \/ root_addr'[n] < root_addr[n]
  \/ /\ root_addr'[n] = root_addr[n]
     /\ \/ path_len'[n] < path_len[n]
        \/ path_len'[n] = path_len[n] /\ next_hop'[n] < next_hop[n]

FallsBack(n) ==
  /\ since_match[n] >= ReelectTicks
  /\ root_addr'[n] = n
  /\ path_len'[n] = 0
  /\ next_hop'[n] = n

VectorStep(n) ==
  \/ UNCHANGED <<root_addr[n], path_len[n], next_hop[n]>>
  \/ Improves(n)
  \/ FallsBack(n)

\* A node's vector (root, path, parent) only ever improves, lexicographically,
\* except when the node falls back to itself as root because its re-election
\* interval has passed: no handler trades its parent for a worse one.
VectorsOnlyImprove == [][\A n \in Node : VectorStep(n)]_vars

\* Before the first link change, no node re-elects itself: the hellos its parents
\* pass on arrive in time, although adopting a parent does not restart
\* re_election_time.
NoSpuriousReelection ==
  [][changes_left = MaxLinkChanges => \A n \in Node : root_addr'[n] = n => root_addr[n] = n]_vars

\* From every start and after every sequence of link changes, the nodes reach
\* the spanning tree of each component and stay there.
Converges == <>[]Converged

\* A FLOOD the test case sends after waiting is seen once by the user of every
\* other node of the sender's component, and by no one twice.
FloodExactlyOnce ==
  /\ \A n \in Node : delivered[n] <= expected[n]
  /\ ~FloodPending => delivered = expected

\* Links are taken away and never given back, as in the repository's test cases,
\* which call change_link_state only to disable (task_update_link_state).
LinksOnlyFail == [][\A n \in Node : link_states'[n] \subseteq link_states[n]]_vars

\* While a FLOOD is on its way, no node falls back to itself as root: the wait of
\* the test case has outlasted the re-elections that a failed link sets off, and
\* a settled node hears its parent's hellos in time.
SteadyFloods ==
  [][FloodPending => \A n \in Node : root_addr'[n] = n => root_addr[n] = n]_vars

\* FLOODs die out: none circulates for ever.
FloodsDie == FloodPending ~> ~FloodPending

\* "if you recv a FLOOD packet that would create loops and result in broadcast
\* storms, you must NOT send it to the user" (mixnet/connection.h): no user
\* sees a FLOOD more than once.
FloodAtMostOnce == \A n \in Node : delivered[n] <= expected[n]
=============================================================================
