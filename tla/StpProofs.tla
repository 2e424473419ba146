----------------------------- MODULE StpProofs -----------------------------
(***************************************************************************)
(* Theorems about the Mixnet node of module Stp, for every graph, every    *)
(* timer setting and every bound.  They hold of Spec, that is without      *)
(* fairness and without the assumption that a tick outlasts deliveries.    *)
(* FloodsReachEachOnce, the last, is about behaviours in which links only  *)
(* fail (LinksOnlyFail) and no node re-elects itself under a FLOOD         *)
(* (SteadyFloods).                                                         *)
(***************************************************************************)
EXTENDS Stp, SequenceTheorems, WellFoundedInduction, TLAPS

\* Packets that m may have put on a link: an STP packet names m as its sender
\* and claims no path shorter than m's potential.
GoodPacket(m) ==
  {p \in Packet : p.type = "STP" =>
     p.node_address = m /\ p.path_length >= Dist[m][p.root_address]}

\* Queues whose packets are all good.
GoodQueues(q) ==
  /\ q \in [Node -> [Node -> Seq(Packet)]]
  /\ \A n, m \in Node : q[n][m] \in Seq(GoodPacket(m))

-----------------------------------------------------------------------------
(* Packets and queues *)

\* A FLOOD packet is good, whoever sends it (send_FLOOD).
LEMMA FloodIsGood == \A n \in Node : FloodPacket \in GoodPacket(n)
  BY DEF FloodPacket, GoodPacket, Packet

\* A vector with a path of at most MaxPath survives the 16 bits of the wire,
\* so the packet send_STP makes of it is good when the vector is.
LEMMA VectorIsGood ==
  ASSUME NEW n \in Node, NEW root \in Node, NEW path \in 0 .. MaxPath,
         path >= Dist[n][root]
  PROVE  StpPacket(root, path, n) \in GoodPacket(n)
<1>1. path \in 0 .. PathModulus - 1 /\ path % PathModulus = path
  BY BoundAssumption
<1>2. StpPacket(root, path, n) \in Packet
  BY <1>1 DEF StpPacket, Packet
<1> QED
  BY <1>1, <1>2 DEF StpPacket, GoodPacket

\* Sending a good packet on some ports of its sender keeps the queues good.
LEMMA SendKeepsGood ==
  ASSUME NEW q, GoodQueues(q), NEW n \in Node, NEW P,
         NEW p \in GoodPacket(n)
  PROVE  GoodQueues(Send(q, n, P, p))
<1> DEFINE r == Send(q, n, P, p)
<1>1. p \in Packet
  BY DEF GoodPacket
<1>2. r \in [Node -> [Node -> Seq(Packet)]]
  BY <1>1 DEF Send, GoodQueues
<1>3. ASSUME NEW d \in Node, NEW s \in Node
      PROVE  r[d][s] \in Seq(GoodPacket(s))
  <2>1. r[d][s] = IF s = n /\ d \in P /\ Readable(d, n) THEN Append(q[d][s], p) ELSE q[d][s]
    BY DEF Send
  <2>2. q[d][s] \in Seq(GoodPacket(s))
    BY DEF GoodQueues
  <2>3. CASE s = n /\ d \in P /\ Readable(d, n)
    BY <2>1, <2>2, <2>3
  <2>4. CASE ~(s = n /\ d \in P /\ Readable(d, n))
    BY <2>1, <2>2, <2>4
  <2> QED
    BY <2>3, <2>4
<1> QED
  BY <1>2, <1>3 DEF GoodQueues

\* Reading the packet at the head of a port keeps the queues good, and the
\* packet read is good.
LEMMA ReceiveKeepsGood ==
  ASSUME NEW q, GoodQueues(q), NEW n \in Node, NEW m \in Node, q[n][m] # <<>>
  PROVE  /\ GoodQueues(Received(q, n, m))
         /\ Head(q[n][m]) \in GoodPacket(m)
<1> DEFINE r == Received(q, n, m)
<1>1. q \in [Node -> [Node -> Seq(Packet)]]
  BY DEF GoodQueues
<1>2. q[n][m] \in Seq(GoodPacket(m)) /\ q[n][m] \in Seq(Packet)
  BY DEF GoodQueues
<1>3. Tail(q[n][m]) \in Seq(GoodPacket(m)) /\ Tail(q[n][m]) \in Seq(Packet)
  BY <1>2
<1>4. r \in [Node -> [Node -> Seq(Packet)]]
  BY <1>1, <1>3 DEF Received
<1>5. ASSUME NEW d \in Node, NEW s \in Node
      PROVE  r[d][s] \in Seq(GoodPacket(s))
  <2>1. r[d][s] = IF d = n /\ s = m THEN Tail(q[n][m]) ELSE q[d][s]
    BY <1>1 DEF Received
  <2>2. q[d][s] \in Seq(GoodPacket(s))
    BY DEF GoodQueues
  <2> QED
    BY <2>1, <2>2, <1>3
<1>6. GoodQueues(r)
  BY <1>4, <1>5 DEF GoodQueues
<1> QED
  BY <1>2, <1>6

\* Emptying some ports keeps the queues good.
LEMMA ForgetKeepsGood ==
  ASSUME NEW q, GoodQueues(q), NEW r \in [Node -> [Node -> Seq(Packet)]],
         \A d, s \in Node : r[d][s] = q[d][s] \/ r[d][s] = <<>>
  PROVE  GoodQueues(r)
<1>1. ASSUME NEW d \in Node, NEW s \in Node
      PROVE  r[d][s] \in Seq(GoodPacket(s))
  <2>1. q[d][s] \in Seq(GoodPacket(s)) /\ <<>> \in Seq(GoodPacket(s))
    BY DEF GoodQueues
  <2> QED
    BY <2>1
<1> QED
  BY <1>1 DEF GoodQueues

-----------------------------------------------------------------------------
(* The inductive invariant *)

\* No node holds a path shorter than its potential allows.
GoodVectors == \A n \in Node : path_len[n] >= Dist[n][root_addr[n]]

\* The invariant the theorems follow from.  ParentPortOpen needs to know that a
\* packet names the neighbour behind the port it arrives on, and the paths in
\* the nodes and the paths in the queues bound each other.
IInv ==
  /\ TypeOK
  /\ GoodQueues(rx)
  /\ GoodVectors
  /\ ParentPortOpen

LEMMA InitEstablishes == Init => IInv
<1> SUFFICES ASSUME Init PROVE IInv
  OBVIOUS
<1>1. \A n \in Node : StpPacket(n, 0, n) \in GoodPacket(n)
  BY VectorIsGood, DistAssumption, BoundAssumption
<1>2. \A n \in Node : GoodPacket(n) \subseteq Packet
  BY DEF GoodPacket
<1>3. rx \in [Node -> [Node -> Seq(Packet)]]
  BY <1>1, <1>2 DEF Init
<1>4. ASSUME NEW n \in Node, NEW m \in Node
      PROVE  rx[n][m] \in Seq(GoodPacket(m))
  <2>1. rx[n][m] = IF m \in Neighbor[n] THEN <<StpPacket(m, 0, m)>> ELSE <<>>
    BY DEF Init
  <2> QED
    BY <1>1, <2>1
<1>5. GoodQueues(rx)
  BY <1>3, <1>4 DEF GoodQueues
<1>6. TypeOK
  BY <1>3, NeighborAssumption, BoundAssumption, TimerAssumption
  DEF Init, TypeOK, NodeTypeOK, PortTypeOK, TimerTypeOK, LinkTypeOK, DriverTypeOK
<1>7. GoodVectors
  BY DistAssumption DEF Init, GoodVectors
<1>8. ParentPortOpen
  BY DEF Init, ParentPortOpen
<1> QED
  BY <1>5, <1>6, <1>7, <1>8 DEF IInv

\* The vector a node holds is fit to be sent.
LEMMA OwnVectorIsGood ==
  ASSUME IInv, NEW n \in Node
  PROVE  StpPacket(root_addr[n], path_len[n], n) \in GoodPacket(n)
<1>1. root_addr[n] \in Node /\ path_len[n] \in 0 .. MaxPath
  BY DEF IInv, TypeOK, NodeTypeOK
<1>2. path_len[n] >= Dist[n][root_addr[n]]
  BY DEF IInv, GoodVectors
<1> QED
  BY <1>1, <1>2, VectorIsGood

\* Variables an action leaves alone keep their types.
LEMMA UnchangedTypes ==
  /\ NodeTypeOK /\ UNCHANGED nodeVars => NodeTypeOK'
  /\ PortTypeOK /\ UNCHANGED portVars => PortTypeOK'
  /\ TimerTypeOK /\ UNCHANGED timerVars => TimerTypeOK'
  /\ LinkTypeOK /\ UNCHANGED linkVars => LinkTypeOK'
  /\ DriverTypeOK /\ UNCHANGED driverVars => DriverTypeOK'
<1>1. NodeTypeOK /\ UNCHANGED nodeVars => NodeTypeOK'
  BY DEF NodeTypeOK, nodeVars
<1>2. PortTypeOK /\ UNCHANGED portVars => PortTypeOK'
  BY DEF PortTypeOK, portVars
<1>3. TimerTypeOK /\ UNCHANGED timerVars => TimerTypeOK'
  BY DEF TimerTypeOK, timerVars
<1>4. LinkTypeOK /\ UNCHANGED linkVars => LinkTypeOK'
  BY DEF LinkTypeOK, linkVars
<1>5. DriverTypeOK /\ UNCHANGED driverVars => DriverTypeOK'
  BY DEF DriverTypeOK, driverVars
<1> QED
  BY <1>1, <1>2, <1>3, <1>4, <1>5

\* GoodVectors and ParentPortOpen speak of the nodes' vectors and ports only.
LEMMA UnchangedVectors ==
  /\ GoodVectors /\ UNCHANGED nodeVars => GoodVectors'
  /\ ParentPortOpen /\ UNCHANGED <<nodeVars, portVars>> => ParentPortOpen'
  BY DEF GoodVectors, ParentPortOpen, nodeVars, portVars

-----------------------------------------------------------------------------
(* Each timer step of run_node preserves the invariant. *)

LEMMA HelloPreserves ==
  ASSUME IInv, NEW n \in Node, Hello(n)
  PROVE  IInv'
<1>1. GoodQueues(rx')
  BY OwnVectorIsGood, SendKeepsGood DEF IInv, Hello, SendSTP
<1>2. TimerTypeOK'
  BY TimerAssumption DEF IInv, TypeOK, TimerTypeOK, Hello
<1>3. TypeOK'
  BY <1>1, <1>2, UnchangedTypes DEF IInv, TypeOK, Hello, GoodQueues
<1> QED
  BY <1>1, <1>3, UnchangedVectors DEF IInv, Hello

LEMMA ReelectPreserves ==
  ASSUME IInv, NEW n \in Node, Reelect(n)
  PROVE  IInv'
<1>1. StpPacket(n, 0, n) \in GoodPacket(n)
  BY VectorIsGood, DistAssumption, BoundAssumption
<1>2. GoodQueues(rx')
  BY <1>1, SendKeepsGood DEF IInv, Reelect, SendSTP
<1>3. NodeTypeOK'
  BY BoundAssumption DEF IInv, TypeOK, NodeTypeOK, Reelect
<1>4. TimerTypeOK'
  BY TimerAssumption DEF IInv, TypeOK, TimerTypeOK, Reelect
<1>5. TypeOK'
  BY <1>2, <1>3, <1>4, UnchangedTypes DEF IInv, TypeOK, Reelect, GoodQueues
<1>6. GoodVectors'
  <2> SUFFICES ASSUME NEW m \in Node PROVE path_len'[m] >= Dist[m][root_addr'[m]]
    BY DEF GoodVectors
  <2>1. CASE m = n
    <3>1. path_len'[n] = 0 /\ root_addr'[n] = n
      BY DEF IInv, TypeOK, NodeTypeOK, Reelect
    <3> QED
      BY <2>1, <3>1, DistAssumption
  <2>2. CASE m # n
    <3>1. path_len'[m] = path_len[m] /\ root_addr'[m] = root_addr[m]
      BY <2>2 DEF IInv, TypeOK, NodeTypeOK, Reelect
    <3> QED
      BY <3>1 DEF IInv, GoodVectors
  <2> QED
    BY <2>1, <2>2
<1>7. ParentPortOpen'
  BY DEF IInv, TypeOK, NodeTypeOK, ParentPortOpen, Reelect, portVars
<1> QED
  BY <1>2, <1>5, <1>6, <1>7 DEF IInv

-----------------------------------------------------------------------------
(* Each receive step of run_node preserves the invariant. *)

\* What a node reads from an enabled port is good, and so is what is left.
LEMMA ReadIsGood ==
  ASSUME IInv, NEW n \in Node, NEW m \in Node, NEW t, CanReceive(n, m, t)
  PROVE  /\ GoodQueues(Received(rx, n, m))
         /\ Head(rx[n][m]) \in GoodPacket(m)
  BY ReceiveKeepsGood DEF IInv, CanReceive

\* An STP packet read on the port to m: its fields.
LEMMA VectorRead ==
  ASSUME IInv, NEW n \in Node, NEW m \in Node, CanReceive(n, m, "STP")
  PROVE  LET u == Head(rx[n][m]) IN
           /\ u.node_address = m
           /\ u.root_address \in Node
           /\ u.path_length \in Nat
           /\ u.path_length >= Dist[m][u.root_address]
<1> DEFINE u == Head(rx[n][m])
<1>1. u \in GoodPacket(m) /\ u.type = "STP"
  BY ReadIsGood DEF CanReceive
<1>2. u \in [type : {"STP"}, root_address : Node, path_length : 0 .. PathModulus - 1,
              node_address : Node]
  BY <1>1 DEF GoodPacket, Packet, FloodPacket
<1>3. u.root_address \in Node /\ u.path_length \in Nat
  BY <1>2, BoundAssumption
<1>4. u.node_address = m /\ u.path_length >= Dist[m][u.root_address]
  BY <1>1 DEF GoodPacket
<1> QED
  BY <1>3, <1>4

LEMMA ForwardParentHelloPreserves ==
  ASSUME IInv, NEW n \in Node, NEW m \in Neighbor[n], ForwardParentHello(n, m)
  PROVE  IInv'
<1>0. m \in Node
  BY NeighborAssumption
<1>1. GoodQueues(Received(rx, n, m))
  BY <1>0, ReadIsGood DEF ForwardParentHello
<1>2. GoodQueues(rx')
  BY <1>1, OwnVectorIsGood, SendKeepsGood DEF ForwardParentHello, SendSTP
<1>3. TimerTypeOK'
  BY TimerAssumption DEF IInv, TypeOK, TimerTypeOK, ForwardParentHello
<1>4. TypeOK'
  BY <1>2, <1>3, UnchangedTypes DEF IInv, TypeOK, ForwardParentHello, GoodQueues
<1> QED
  BY <1>2, <1>4, UnchangedVectors DEF IInv, ForwardParentHello

LEMMA DiscoverNeighborPreserves ==
  ASSUME IInv, NEW n \in Node, NEW m \in Neighbor[n], DiscoverNeighbor(n, m)
  PROVE  IInv'
<1>0. m \in Node
  BY NeighborAssumption
<1>1. GoodQueues(rx')
  BY <1>0, ReadIsGood DEF DiscoverNeighbor
<1>2. PortTypeOK'
  BY <1>0 DEF IInv, TypeOK, PortTypeOK, DiscoverNeighbor
<1>3. TypeOK'
  BY <1>1, <1>2, UnchangedTypes DEF IInv, TypeOK, DiscoverNeighbor, GoodQueues
<1>4. ParentPortOpen'
  BY DEF IInv, TypeOK, PortTypeOK, ParentPortOpen, DiscoverNeighbor, nodeVars
<1> QED
  BY <1>1, <1>3, <1>4, UnchangedVectors DEF IInv, DiscoverNeighbor

\* The adopted path is one hop longer than the sender's, which is a neighbour.
LEMMA AdoptParentPreserves ==
  ASSUME IInv, NEW n \in Node, NEW m \in Neighbor[n], AdoptParent(n, m)
  PROVE  IInv'
<1> DEFINE u == Head(rx[n][m])
<1> DEFINE path == u.path_length + 1
<1>0. m \in Node
  BY NeighborAssumption
<1>1. /\ GoodQueues(Received(rx, n, m))
      /\ u.node_address = m
      /\ u.root_address \in Node
      /\ u.path_length \in Nat
      /\ u.path_length >= Dist[m][u.root_address]
  BY <1>0, ReadIsGood, VectorRead DEF AdoptParent
<1>2. path \in 0 .. MaxPath
  BY <1>1, BoundAssumption DEF AdoptParent
<1>3. path >= Dist[n][u.root_address]
  <2>1. /\ Dist[n][u.root_address] <= Dist[m][u.root_address] + 1
        /\ Dist[n][u.root_address] \in Nat
        /\ Dist[m][u.root_address] \in Nat
    BY <1>0, <1>1, DistAssumption
  <2> QED
    BY <1>1, <2>1
<1>4. GoodQueues(rx')
  <2>1. StpPacket(u.root_address, path, n) \in GoodPacket(n)
    BY <1>1, <1>2, <1>3, VectorIsGood
  <2> QED
    BY <1>1, <2>1, SendKeepsGood DEF AdoptParent, SendSTP
<1>5. NodeTypeOK'
  BY <1>0, <1>1, <1>2 DEF IInv, TypeOK, NodeTypeOK, AdoptParent
<1>6. PortTypeOK'
  BY NeighborAssumption DEF IInv, TypeOK, PortTypeOK, AdoptParent
<1>7. TypeOK'
  BY <1>4, <1>5, <1>6, UnchangedTypes DEF IInv, TypeOK, AdoptParent, GoodQueues
<1>8. GoodVectors'
  <2> SUFFICES ASSUME NEW k \in Node PROVE path_len'[k] >= Dist[k][root_addr'[k]]
    BY DEF GoodVectors
  <2>1. CASE k = n
    <3>1. path_len'[n] = path /\ root_addr'[n] = u.root_address
      BY DEF IInv, TypeOK, NodeTypeOK, AdoptParent
    <3> QED
      BY <1>3, <2>1, <3>1
  <2>2. CASE k # n
    <3>1. path_len'[k] = path_len[k] /\ root_addr'[k] = root_addr[k]
      BY <2>2 DEF IInv, TypeOK, NodeTypeOK, AdoptParent
    <3> QED
      BY <3>1 DEF IInv, GoodVectors
  <2> QED
    BY <2>1, <2>2
<1>9. ParentPortOpen'
  <2> SUFFICES ASSUME NEW k \in Node, root_addr'[k] # k
               PROVE  /\ next_hop'[k] \in Neighbor[k]
                      /\ next_hop'[k] \in discovered'[k]
                      /\ next_hop'[k] \notin neighbors_blocked'[k]
    BY DEF ParentPortOpen
  <2>1. CASE k = n
    <3>1. next_hop'[n] = m /\ neighbors_blocked'[n] = Neighbor[n] \ {m}
      BY <1>1 DEF IInv, TypeOK, NodeTypeOK, PortTypeOK, AdoptParent
    <3> QED
      BY <2>1, <3>1 DEF AdoptParent
  <2>2. CASE k # n
    <3>1. /\ root_addr'[k] = root_addr[k]
          /\ next_hop'[k] = next_hop[k]
          /\ neighbors_blocked'[k] = neighbors_blocked[k]
      BY <2>2 DEF IInv, TypeOK, NodeTypeOK, PortTypeOK, AdoptParent
    <3> QED
      BY <3>1 DEF IInv, ParentPortOpen, AdoptParent
  <2> QED
    BY <2>1, <2>2
<1> QED
  BY <1>4, <1>7, <1>8, <1>9 DEF IInv

\* A port is blocked only when its sender is not the parent.
LEMMA KeepParentPreserves ==
  ASSUME IInv, NEW n \in Node, NEW m \in Neighbor[n], KeepParent(n, m)
  PROVE  IInv'
<1> DEFINE u == Head(rx[n][m])
<1>0. m \in Node
  BY NeighborAssumption
<1>1. GoodQueues(rx') /\ u.node_address = m
  BY <1>0, ReadIsGood, VectorRead DEF KeepParent
<1>2. PortTypeOK'
  BY <1>0 DEF IInv, TypeOK, PortTypeOK, KeepParent
<1>3. TypeOK'
  BY <1>1, <1>2, UnchangedTypes DEF IInv, TypeOK, KeepParent, GoodQueues
<1>4. ParentPortOpen'
  <2> SUFFICES ASSUME NEW k \in Node, root_addr[k] # k
               PROVE  /\ next_hop[k] \in Neighbor[k]
                      /\ next_hop[k] \in discovered[k]
                      /\ next_hop[k] \notin neighbors_blocked'[k]
    BY DEF ParentPortOpen, KeepParent, nodeVars
  <2>1. /\ next_hop[k] \in Neighbor[k]
        /\ next_hop[k] \in discovered[k]
        /\ next_hop[k] \notin neighbors_blocked[k]
    BY DEF IInv, ParentPortOpen
  <2>2. CASE k = n
    <3>1. CASE OpensPort(n, u)
      BY <2>1, <2>2, <3>1 DEF IInv, TypeOK, PortTypeOK, KeepParent
    <3>2. CASE ~OpensPort(n, u)
      <4>1. m # next_hop[n]
        BY <1>1, <3>2 DEF OpensPort
      <4>2. neighbors_blocked'[n] = neighbors_blocked[n] \cup {m}
        BY <3>2 DEF IInv, TypeOK, PortTypeOK, KeepParent
      <4> QED
        BY <2>1, <2>2, <4>1, <4>2
    <3> QED
      BY <3>1, <3>2
  <2>3. CASE k # n
    <3>1. neighbors_blocked'[k] = neighbors_blocked[k]
      BY <2>3 DEF IInv, TypeOK, PortTypeOK, KeepParent
    <3> QED
      BY <2>1, <3>1
  <2> QED
    BY <2>2, <2>3
<1> QED
  BY <1>1, <1>3, <1>4, UnchangedVectors DEF IInv, KeepParent

LEMMA ForwardFloodPreserves ==
  ASSUME IInv, NEW n \in Node, NEW m \in Neighbor[n], ForwardFlood(n, m)
  PROVE  IInv'
<1>0. m \in Node
  BY NeighborAssumption
<1>1. GoodQueues(Received(rx, n, m))
  BY <1>0, ReadIsGood DEF ForwardFlood
<1>2. GoodQueues(rx')
  BY <1>1, FloodIsGood, SendKeepsGood DEF ForwardFlood
<1>3. DriverTypeOK'
  BY DEF IInv, TypeOK, DriverTypeOK, ForwardFlood
<1>4. TypeOK'
  BY <1>2, <1>3, UnchangedTypes DEF IInv, TypeOK, ForwardFlood, GoodQueues
<1> QED
  BY <1>2, <1>4, UnchangedVectors DEF IInv, ForwardFlood

LEMMA DropFloodPreserves ==
  ASSUME IInv, NEW n \in Node, NEW m \in Neighbor[n], DropFlood(n, m)
  PROVE  IInv'
<1>0. m \in Node
  BY NeighborAssumption
<1>1. GoodQueues(rx')
  BY <1>0, ReadIsGood DEF DropFlood
<1>2. TypeOK'
  BY <1>1, UnchangedTypes DEF IInv, TypeOK, DropFlood, GoodQueues
<1> QED
  BY <1>1, <1>2, UnchangedVectors DEF IInv, DropFlood

-----------------------------------------------------------------------------
(* Each step of the test case, and the passing of time, preserve it. *)

LEMMA InjectFloodPreserves ==
  ASSUME IInv, NEW n \in Node, InjectFlood(n)
  PROVE  IInv'
<1>1. GoodQueues(rx')
  BY FloodIsGood, SendKeepsGood DEF IInv, InjectFlood
<1>2. DriverTypeOK'
  BY BoundAssumption DEF IInv, TypeOK, DriverTypeOK, InjectFlood
<1>3. TypeOK'
  BY <1>1, <1>2, UnchangedTypes DEF IInv, TypeOK, InjectFlood, GoodQueues
<1> QED
  BY <1>1, <1>3, UnchangedVectors DEF IInv, InjectFlood

\* Draining a port keeps the queues good.
LEMMA UpdateLinkStateKeepsGood ==
  ASSUME IInv, NEW n \in Node, NEW m \in Node, NEW up \in BOOLEAN,
         UpdateLinkState(n, m, up)
  PROVE  /\ GoodQueues(rx')
         /\ link_states' \in [Node -> SUBSET Node]
<1>1. rx \in [Node -> [Node -> Seq(Packet)]] /\ link_states \in [Node -> SUBSET Node]
  BY DEF IInv, TypeOK, LinkTypeOK
<1>2. link_states' \in [Node -> SUBSET Node]
  BY <1>1 DEF UpdateLinkState
<1>3. CASE up
  BY <1>2, <1>3 DEF IInv, UpdateLinkState
<1>4. CASE ~up
  <2>1. rx' = [rx EXCEPT ![n][m] = <<>>]
    BY <1>4 DEF UpdateLinkState
  <2>2. rx' \in [Node -> [Node -> Seq(Packet)]]
    BY <1>1, <2>1
  <2>3. \A d, s \in Node : rx'[d][s] = rx[d][s] \/ rx'[d][s] = <<>>
    BY <1>1, <2>1
  <2> QED
    BY <1>2, <2>2, <2>3, ForgetKeepsGood DEF IInv
<1> QED
  BY <1>3, <1>4

LEMMA ChangeLinkAPreserves ==
  ASSUME IInv, NEW a \in Node, NEW b \in Neighbor[a], NEW up \in BOOLEAN,
         ChangeLinkA(a, b, up)
  PROVE  IInv'
<1>0. b \in Node
  BY NeighborAssumption
<1>1. GoodQueues(rx') /\ link_states' \in [Node -> SUBSET Node]
  BY <1>0, UpdateLinkStateKeepsGood DEF ChangeLinkA
<1>2. LinkTypeOK'
  <2>1. changing' \in Node \X Node \X BOOLEAN
    BY <1>0 DEF ChangeLinkA
  <2>2. changes_left' \in 0 .. MaxLinkChanges
    BY BoundAssumption DEF IInv, TypeOK, LinkTypeOK, ChangeLinkA
  <2> QED
    BY <1>1, <2>1, <2>2 DEF LinkTypeOK
<1>3. TypeOK'
  BY <1>1, <1>2, UnchangedTypes DEF IInv, TypeOK, ChangeLinkA, GoodQueues
<1> QED
  BY <1>1, <1>3, UnchangedVectors DEF IInv, ChangeLinkA

LEMMA ChangeLinkBPreserves ==
  ASSUME IInv, ChangeLinkB
  PROVE  IInv'
<1>1. changing \in Node \X Node \X BOOLEAN
  BY DEF IInv, TypeOK, LinkTypeOK, ChangeLinkB, NoChange
<1>2. GoodQueues(rx') /\ link_states' \in [Node -> SUBSET Node]
  <2>1. changing[1] \in Node /\ changing[2] \in Node /\ changing[3] \in BOOLEAN
    BY <1>1
  <2>2. UpdateLinkState(changing[2], changing[1], changing[3])
    BY DEF ChangeLinkB
  <2> QED
    BY <2>1, <2>2, UpdateLinkStateKeepsGood
<1>3. LinkTypeOK'
  BY <1>2 DEF IInv, TypeOK, LinkTypeOK, ChangeLinkB
<1>4. TypeOK'
  BY <1>2, <1>3, UnchangedTypes DEF IInv, TypeOK, ChangeLinkB, GoodQueues
<1> QED
  BY <1>2, <1>4, UnchangedVectors DEF IInv, ChangeLinkB

LEMMA EndChangesPreserves ==
  ASSUME IInv, EndChanges
  PROVE  IInv'
<1>1. rx \in [Node -> [Node -> Seq(Packet)]]
  BY DEF IInv, TypeOK
<1>2. rx' \in [Node -> [Node -> Seq(Packet)]]
  BY <1>1 DEF EndChanges
<1>3. \A d, s \in Node : rx'[d][s] = rx[d][s] \/ rx'[d][s] = <<>>
  BY DEF EndChanges
<1>4. GoodQueues(rx')
  BY <1>2, <1>3, ForgetKeepsGood DEF IInv
<1>5. LinkTypeOK'
  BY BoundAssumption DEF IInv, TypeOK, LinkTypeOK, EndChanges
<1>6. TypeOK'
  BY <1>4, <1>5, UnchangedTypes DEF IInv, TypeOK, EndChanges, GoodQueues
<1> QED
  BY <1>4, <1>6, UnchangedVectors DEF IInv, EndChanges

LEMMA TickPreserves ==
  ASSUME IInv, Tick
  PROVE  IInv'
<1>1. TimerTypeOK'
  BY TimerAssumption, SMTT(40) DEF IInv, TypeOK, TimerTypeOK, Tick, AtMost
<1>2. GoodQueues(rx')
  BY DEF IInv, Tick
<1>3. TypeOK'
  BY <1>1, <1>2, UnchangedTypes DEF IInv, TypeOK, Tick, GoodQueues
<1> QED
  BY <1>2, <1>3, UnchangedVectors DEF IInv, Tick

LEMMA StutterPreserves ==
  ASSUME IInv, UNCHANGED vars
  PROVE  IInv'
<1>1. GoodQueues(rx')
  BY DEF IInv, vars
<1>2. TypeOK'
  BY <1>1, UnchangedTypes DEF IInv, TypeOK, vars, GoodQueues
<1> QED
  BY <1>1, <1>2, UnchangedVectors DEF IInv, vars

-----------------------------------------------------------------------------
(* The theorems *)

\* The invariant holds in every reachable state.
THEOREM Invariance == Spec => []IInv
<1>1. IInv /\ [Next]_vars => IInv'
  <2> SUFFICES ASSUME IInv, [Next]_vars PROVE IInv'
    OBVIOUS
  <2>1. CASE NodeStep
    BY <2>1, HelloPreserves, ReelectPreserves, ForwardParentHelloPreserves,
       DiscoverNeighborPreserves, AdoptParentPreserves, KeepParentPreserves,
       ForwardFloodPreserves, DropFloodPreserves
    DEF NodeStep, Receive
  <2>2. CASE DriverStep
    BY <2>2, InjectFloodPreserves, ChangeLinkAPreserves, ChangeLinkBPreserves,
       EndChangesPreserves
    DEF DriverStep
  <2>3. CASE Tick
    BY <2>3, TickPreserves
  <2>4. CASE UNCHANGED vars
    BY <2>4, StutterPreserves
  <2> QED
    BY <2>1, <2>2, <2>3, <2>4 DEF Next
<1> QED
  BY <1>1, InitEstablishes, PTL DEF Spec

\* Every variable of the node, of its links and of the test case keeps its type.
THEOREM TypeCorrect == Spec => []TypeOK
<1>1. IInv => TypeOK
  BY DEF IInv
<1> QED
  BY <1>1, Invariance, PTL

\* On every graph, in every order of packets, timeouts and link changes, a node
\* that follows another root keeps the port to its parent open (receive_STP).
THEOREM ParentPortAlwaysOpen == Spec => []ParentPortOpen
<1>1. IInv => ParentPortOpen
  BY DEF IInv
<1> QED
  BY <1>1, Invariance, PTL

\* On every graph, no vector in a node or a queue claims a path to its root
\* shorter than the distance, even when links flap and old packets come late.
THEOREM PathsNeverUndershoot == Spec => []PathNeverUndershoots
<1>1. IInv => PathNeverUndershoots
  <2> SUFFICES ASSUME IInv PROVE PathNeverUndershoots
    OBVIOUS
  <2>1. ASSUME NEW n \in Node, NEW m \in Node, NEW i \in DOMAIN rx[n][m],
               rx[n][m][i].type = "STP"
        PROVE  /\ rx[n][m][i].node_address = m
               /\ rx[n][m][i].path_length >= Dist[m][rx[n][m][i].root_address]
    <3>1. rx[n][m] \in Seq(GoodPacket(m))
      BY DEF IInv, GoodQueues
    <3>2. rx[n][m][i] \in GoodPacket(m)
      BY <3>1
    <3> QED
      BY <2>1, <3>2 DEF GoodPacket
  <2> QED
    BY <2>1 DEF IInv, GoodVectors, PathNeverUndershoots
<1> QED
  BY <1>1, Invariance, PTL

\* The vector a node holds changes only for a better one (AdoptParent) or back
\* to the node itself when its re-election interval has passed.
THEOREM VectorsImprove == Spec => VectorsOnlyImprove
<1>1. ASSUME IInv, NEW k \in Node, NEW n \in Node, Reelect(n)
      PROVE  VectorStep(k)
  BY <1>1 DEF IInv, TypeOK, NodeTypeOK, Reelect, ReelectDue, VectorStep, FallsBack
<1>2. ASSUME IInv, NEW k \in Node, NEW n \in Node, NEW m \in Neighbor[n], AdoptParent(n, m)
      PROVE  VectorStep(k)
  <2> DEFINE u == Head(rx[n][m])
  <2>1. CASE k = n
    <3>1. /\ root_addr'[n] = u.root_address
          /\ path_len'[n] = u.path_length + 1
          /\ next_hop'[n] = u.node_address
          /\ Better(n, u)
      BY <1>2 DEF IInv, TypeOK, NodeTypeOK, AdoptParent
    <3> QED
      BY <2>1, <3>1 DEF Better, LowerRoot, ShorterPath, LowerParent, Improves, VectorStep
  <2>2. CASE k # n
    BY <1>2, <2>2 DEF IInv, TypeOK, NodeTypeOK, AdoptParent, VectorStep
  <2> QED
    BY <2>1, <2>2
<1>3. ASSUME NEW k \in Node, UNCHANGED nodeVars
      PROVE  VectorStep(k)
  BY <1>3 DEF nodeVars, VectorStep
<1>4. ASSUME IInv, [Next]_vars, NEW k \in Node
      PROVE  VectorStep(k)
  <2>1. ASSUME NEW n \in Node, NEW m \in Neighbor[n], Receive(n, m)
        PROVE  AdoptParent(n, m) \/ UNCHANGED nodeVars
    BY <2>1 DEF Receive, ForwardParentHello, DiscoverNeighbor, KeepParent, ForwardFlood,
                DropFlood
  <2>2. CASE NodeStep
    <3>1. ASSUME NEW n \in Node, Hello(n) PROVE UNCHANGED nodeVars
      BY <3>1 DEF Hello
    <3> QED
      BY <1>1, <1>2, <1>3, <1>4, <2>1, <2>2, <3>1 DEF NodeStep
  <2>3. CASE DriverStep
    <3>1. UNCHANGED nodeVars
      BY <2>3 DEF DriverStep, InjectFlood, ChangeLinkA, ChangeLinkB, EndChanges
    <3> QED
      BY <1>3, <3>1
  <2>4. CASE Tick
    BY <1>3, <2>4 DEF Tick
  <2>5. CASE UNCHANGED vars
    BY <1>3, <2>5 DEF vars
  <2> QED
    BY <1>4, <2>2, <2>3, <2>4, <2>5 DEF Next
<1>5. IInv /\ [Next]_vars => [\A n \in Node : VectorStep(n)]_vars
  BY <1>4
<1> QED
  BY <1>5, Invariance, PTL DEF Spec, VectorsOnlyImprove

-----------------------------------------------------------------------------
(* What a queue holds *)

HasVector(q) == \E i \in DOMAIN q : q[i] # FloodPacket

HasFlood(q) == \E i \in DOMAIN q : q[i] = FloodPacket

OneFlood(q) == \A i, j \in DOMAIN q : q[i] = FloodPacket /\ q[j] = FloodPacket => i = j

\* The last vector in the queue is v.
Latest(q, v) ==
  \A i \in DOMAIN q : q[i] # FloodPacket => \E j \in DOMAIN q : j >= i /\ q[j] = v

\* Every vector in the queue is v.
Only(q, v) == \A i \in DOMAIN q : q[i] = FloodPacket \/ q[i] = v

\* What Append adds, position by position.
LEMMA AppendIs ==
  ASSUME NEW q \in Seq(Packet), NEW p \in Packet
  PROVE  /\ Append(q, p) \in Seq(Packet) /\ Append(q, p) # <<>>
         /\ DOMAIN q = 1 .. Len(q) /\ Len(q) \in Nat
         /\ DOMAIN Append(q, p) = 1 .. Len(q) + 1
         /\ \A i \in 1 .. Len(q) : Append(q, p)[i] = q[i]
         /\ Append(q, p)[Len(q) + 1] = p
         /\ q # <<>> => Head(Append(q, p)) = Head(q)
<1>1. /\ Append(q, p) \in Seq(Packet) /\ Append(q, p) # <<>>
      /\ Len(Append(q, p)) = Len(q) + 1
      /\ \A i \in 1 .. Len(q) : Append(q, p)[i] = q[i]
      /\ Append(q, p)[Len(q) + 1] = p
  BY AppendProperties
<1>2. DOMAIN q = 1 .. Len(q) /\ Len(q) \in Nat
  OBVIOUS
<1>3. DOMAIN Append(q, p) = 1 .. Len(q) + 1
  BY <1>1
<1>4. q # <<>> => Head(Append(q, p)) = Head(q)
  BY <1>1
<1> QED
  BY <1>1, <1>2, <1>3, <1>4

\* What Tail leaves, position by position.
LEMMA TailIs ==
  ASSUME NEW q \in Seq(Packet), q # <<>>
  PROVE  \E l \in Nat :
           /\ DOMAIN q = 1 .. l + 1 /\ DOMAIN Tail(q) = 1 .. l
           /\ \A i \in 1 .. l : Tail(q)[i] = q[i + 1]
           /\ Head(q) = q[1]
<1>1. /\ Len(q) \in Nat \ {0} /\ DOMAIN q = 1 .. Len(q)
      /\ Head(q) = q[1] /\ Tail(q) \in Seq(Packet)
  OBVIOUS
<1>2. Len(Tail(q)) = Len(q) - 1 /\ \A i \in 1 .. Len(Tail(q)) : Tail(q)[i] = q[i + 1]
  BY HeadTailProperties
<1>3. PICK k \in Nat \ {0} : k = Len(q)
  BY <1>1
<1>4. k - 1 \in Nat /\ k = (k - 1) + 1
  OBVIOUS
<1>5. PICK l \in Nat : k = l + 1
  BY <1>4
<1>6. Len(q) = l + 1 /\ Len(Tail(q)) = l
  BY <1>2, <1>3, <1>5
<1>7. DOMAIN Tail(q) = 1 .. l
  BY <1>1, <1>6
<1> QED
  BY <1>1, <1>2, <1>6, <1>7

\* A vector is put at the end of a queue (send_STP).
LEMMA VectorAppended ==
  ASSUME NEW q \in Seq(Packet), NEW p \in Packet, p # FloodPacket
  PROVE  LET r == Append(q, p) IN
           /\ HasVector(r)
           /\ HasFlood(r) <=> HasFlood(q)
           /\ OneFlood(q) => OneFlood(r)
           /\ Latest(r, p)
           /\ Only(q, p) => Only(r, p)
<1> DEFINE r == Append(q, p)
<1>1. PICK l \in Nat : l = Len(q)
  OBVIOUS
<1>2. /\ DOMAIN q = 1 .. l /\ DOMAIN r = 1 .. l + 1
      /\ \A i \in 1 .. l : r[i] = q[i]
      /\ r[l + 1] = p
  BY <1>1, AppendIs
<1> HIDE DEF r
<1>3. HasVector(r)
  BY <1>2 DEF HasVector
<1>4. HasFlood(r) <=> HasFlood(q)
  BY <1>2 DEF HasFlood
<1>5. OneFlood(q) => OneFlood(r)
  BY <1>2 DEF OneFlood
<1>6. Latest(r, p)
  BY <1>2 DEF Latest
<1>7. Only(q, p) => Only(r, p)
  BY <1>2 DEF Only
<1> QED
  BY <1>3, <1>4, <1>5, <1>6, <1>7 DEF r

\* A FLOOD is put at the end of a queue (send_FLOOD).
LEMMA FloodAppended ==
  ASSUME NEW q \in Seq(Packet)
  PROVE  LET r == Append(q, FloodPacket) IN
           /\ HasVector(r) <=> HasVector(q)
           /\ HasFlood(r)
           /\ ~HasFlood(q) => OneFlood(r)
           /\ \A v : Latest(q, v) => Latest(r, v)
           /\ \A v : Only(q, v) => Only(r, v)
<1> DEFINE r == Append(q, FloodPacket)
<1>0. FloodPacket \in Packet
  BY DEF Packet
<1>1. PICK l \in Nat : l = Len(q)
  OBVIOUS
<1>2. /\ DOMAIN q = 1 .. l /\ DOMAIN r = 1 .. l + 1
      /\ \A i \in 1 .. l : r[i] = q[i]
      /\ r[l + 1] = FloodPacket
  BY <1>0, <1>1, AppendIs
<1> HIDE DEF r
<1>3. HasVector(r) <=> HasVector(q)
  BY <1>2 DEF HasVector
<1>4. HasFlood(r)
  BY <1>2 DEF HasFlood
<1>5. ~HasFlood(q) => OneFlood(r)
  BY <1>2 DEF OneFlood, HasFlood
<1>6. ASSUME NEW v, Latest(q, v) PROVE Latest(r, v)
  BY <1>2, <1>6 DEF Latest
<1>7. ASSUME NEW v, Only(q, v) PROVE Only(r, v)
  BY <1>2, <1>7 DEF Only
<1> QED
  BY <1>3, <1>4, <1>5, <1>6, <1>7 DEF r

\* A vector is read from a queue (receive_STP).
LEMMA VectorRemoved ==
  ASSUME NEW q \in Seq(Packet), q # <<>>, Head(q) # FloodPacket
  PROVE  LET r == Tail(q) IN
           /\ HasVector(q)
           /\ HasFlood(r) <=> HasFlood(q)
           /\ OneFlood(q) => OneFlood(r)
           /\ \A v : Latest(q, v) => Latest(r, v)
           /\ \A v : v # FloodPacket /\ Latest(q, v) /\ ~HasVector(r) => Head(q) = v
           /\ \A v : Only(q, v) => Only(r, v) /\ Head(q) = v
<1> DEFINE r == Tail(q)
<1>1. PICK l \in Nat :
           /\ DOMAIN q = 1 .. l + 1 /\ DOMAIN r = 1 .. l
           /\ \A i \in 1 .. l : r[i] = q[i + 1]
           /\ Head(q) = q[1]
  BY TailIs
<1> HIDE DEF r
<1>2. HasVector(q)
  BY <1>1 DEF HasVector
<1>3. HasFlood(r) <=> HasFlood(q)
  <2>1. ASSUME HasFlood(q) PROVE HasFlood(r)
    <3>1. PICK i \in 1 .. l + 1 : q[i] = FloodPacket
      BY <1>1, <2>1 DEF HasFlood
    <3>2. i - 1 \in 1 .. l /\ r[i - 1] = q[i]
      BY <1>1, <3>1
    <3> QED
      BY <1>1, <3>1, <3>2 DEF HasFlood
  <2>2. ASSUME HasFlood(r) PROVE HasFlood(q)
    BY <1>1, <2>2 DEF HasFlood
  <2> QED
    BY <2>1, <2>2
<1>4. OneFlood(q) => OneFlood(r)
  <2> SUFFICES ASSUME OneFlood(q), NEW i \in 1 .. l, NEW j \in 1 .. l,
                      r[i] = FloodPacket, r[j] = FloodPacket
               PROVE  i = j
    BY <1>1 DEF OneFlood
  <2>1. i + 1 \in DOMAIN q /\ j + 1 \in DOMAIN q /\ q[i + 1] = FloodPacket /\ q[j + 1] = FloodPacket
    BY <1>1
  <2>2. i + 1 = j + 1
    BY <2>1 DEF OneFlood
  <2> QED
    BY <2>2
<1>5. ASSUME NEW v, Latest(q, v) PROVE Latest(r, v)
  <2> SUFFICES ASSUME NEW i \in 1 .. l, r[i] # FloodPacket
               PROVE  \E j \in 1 .. l : j >= i /\ r[j] = v
    BY <1>1 DEF Latest
  <2>1. i + 1 \in DOMAIN q /\ q[i + 1] # FloodPacket
    BY <1>1
  <2>2. PICK j \in DOMAIN q : j >= i + 1 /\ q[j] = v
    BY <1>5, <2>1 DEF Latest
  <2>3. j - 1 \in 1 .. l /\ j - 1 >= i /\ r[j - 1] = v
    BY <1>1, <2>2
  <2> QED
    BY <2>3
<1>6. ASSUME NEW v, v # FloodPacket, Latest(q, v), ~HasVector(r) PROVE Head(q) = v
  <2>1. PICK j \in 1 .. l + 1 : q[j] = v
    BY <1>1, <1>6 DEF Latest
  <2>2. CASE j = 1
    BY <1>1, <2>1, <2>2
  <2>3. CASE j # 1
    <3>1. j - 1 \in 1 .. l /\ r[j - 1] = v
      BY <1>1, <2>1, <2>3
    <3> QED
      BY <1>1, <1>6, <3>1 DEF HasVector
  <2> QED
    BY <2>2, <2>3
<1>7. ASSUME NEW v, Only(q, v) PROVE Only(r, v) /\ Head(q) = v
  <2>1. Head(q) = v
    BY <1>1, <1>7 DEF Only
  <2>2. Only(r, v)
    BY <1>1, <1>7 DEF Only
  <2> QED
    BY <2>1, <2>2
<1> QED
  BY <1>2, <1>3, <1>4, <1>5, <1>6, <1>7 DEF r

\* A FLOOD is read from a queue.
LEMMA FloodRemoved ==
  ASSUME NEW q \in Seq(Packet), q # <<>>, Head(q) = FloodPacket
  PROVE  LET r == Tail(q) IN
           /\ HasFlood(q)
           /\ HasVector(r) <=> HasVector(q)
           /\ OneFlood(q) => ~HasFlood(r)
           /\ \A v : Latest(q, v) => Latest(r, v)
           /\ \A v : Only(q, v) => Only(r, v)
<1> DEFINE r == Tail(q)
<1>1. PICK l \in Nat :
           /\ DOMAIN q = 1 .. l + 1 /\ DOMAIN r = 1 .. l
           /\ \A i \in 1 .. l : r[i] = q[i + 1]
           /\ Head(q) = q[1]
  BY TailIs
<1> HIDE DEF r
<1>2. HasFlood(q)
  BY <1>1 DEF HasFlood
<1>3. HasVector(r) <=> HasVector(q)
  <2>1. ASSUME HasVector(q) PROVE HasVector(r)
    <3>1. PICK i \in 1 .. l + 1 : q[i] # FloodPacket
      BY <1>1, <2>1 DEF HasVector
    <3>2. i - 1 \in 1 .. l /\ r[i - 1] = q[i]
      BY <1>1, <3>1
    <3> QED
      BY <1>1, <3>1, <3>2 DEF HasVector
  <2>2. ASSUME HasVector(r) PROVE HasVector(q)
    BY <1>1, <2>2 DEF HasVector
  <2> QED
    BY <2>1, <2>2
<1>4. ASSUME OneFlood(q), HasFlood(r) PROVE FALSE
  <2>1. PICK i \in 1 .. l : r[i] = FloodPacket
    BY <1>1, <1>4 DEF HasFlood
  <2>2. 1 \in DOMAIN q /\ i + 1 \in DOMAIN q /\ q[i + 1] = FloodPacket /\ q[1] = FloodPacket
    BY <1>1, <2>1
  <2>3. i + 1 = 1
    BY <1>4, <2>2 DEF OneFlood
  <2> QED
    BY <2>3
<1>5. ASSUME NEW v, Latest(q, v) PROVE Latest(r, v)
  <2> SUFFICES ASSUME NEW i \in 1 .. l, r[i] # FloodPacket
               PROVE  \E j \in 1 .. l : j >= i /\ r[j] = v
    BY <1>1 DEF Latest
  <2>1. i + 1 \in DOMAIN q /\ q[i + 1] # FloodPacket
    BY <1>1
  <2>2. PICK j \in DOMAIN q : j >= i + 1 /\ q[j] = v
    BY <1>5, <2>1 DEF Latest
  <2>3. j - 1 \in 1 .. l /\ j - 1 >= i /\ r[j - 1] = v
    BY <1>1, <2>2
  <2> QED
    BY <2>3
<1>6. ASSUME NEW v, Only(q, v) PROVE Only(r, v)
  BY <1>1, <1>6 DEF Only
<1> QED
  BY <1>2, <1>3, <1>4, <1>5, <1>6 DEF r

\* A set of nodes that is not empty has one whose path is shortest.
LEMMA NearestNode ==
  ASSUME NEW S, S # {}, NEW f \in [S -> Nat]
  PROVE  \E x \in S : \A y \in S : f[x] <= f[y]
<1> DEFINE T == {f[x] : x \in S}
<1>1. T \subseteq Nat /\ T # {}
  OBVIOUS
<1>2. PICK k \in T : \A j \in T : ~(<<j, k>> \in OpToRel(<, Nat))
  BY <1>1, NatLessThanWellFounded, WFMin
<1>3. \A j \in T : ~(j < k)
  BY <1>1, <1>2 DEF OpToRel
<1>4. PICK x \in S : f[x] = k
  OBVIOUS
<1> QED
  BY <1>1, <1>3, <1>4

-----------------------------------------------------------------------------
(* What the two ends of a link know of each other.  Links only fail here. *)

Current(m) == StpPacket(root_addr[m], path_len[m], m)

\* The two ends of a link agree, but for the moment in which change_link_state
\* has disabled one of them.
Links ==
  /\ \A n \in Node : link_states[n] \subseteq Neighbor[n]
  /\ \A n, m \in Node : m \in link_states[n] /\ n \notin link_states[m] =>
       changing = <<m, n, FALSE>>
  /\ changing = NoChange \/ \E a, b \in Node : changing = <<a, b, FALSE>> /\ b \notin link_states[a]

\* The last vector on its way from m is the one m has.
Announced == \A n \in Node : \A m \in link_states[n] : Latest(rx[n][m], Current(m))

\* The first packet of a neighbour not yet discovered is still to be read.
Greeted ==
  \A n \in Node : \A m \in link_states[n] \ discovered[n] :
    rx[n][m] # <<>> /\ Head(rx[n][m]) = StpPacket(m, 0, m)

\* n's port to m is as receive_STP sets it on m's present vector.
Judged(n, m) ==
  m \notin neighbors_blocked[n] <=>
    \/ m = next_hop[n]
    \/ root_addr[m] = root_addr[n] /\ path_len[m] = path_len[n] + 1

Noted(n, m) == HasVector(rx[n][m]) \/ root_addr[n] = n \/ Judged(n, m)

\* Of two nodes that both follow others, and with no vector between them, one has
\* set its port on the vectors both have.
Seen == \A n \in Node : \A m \in Up(n) : Noted(n, m) \/ Noted(m, n)

LInv == Links /\ Announced /\ Greeted /\ Seen

-----------------------------------------------------------------------------
(* The steps, by what they do to the links that are enabled *)

\* n sends its vector, and may have read one before.
Speaks(n) ==
  /\ UNCHANGED <<link_states, changing, discovered>>
  /\ \A k \in Node \ {n} :
       /\ root_addr'[k] = root_addr[k] /\ path_len'[k] = path_len[k] /\ next_hop'[k] = next_hop[k]
       /\ neighbors_blocked'[k] = neighbors_blocked[k]
  /\ \A d \in Node : \A s \in link_states[d] :
       IF s = n THEN rx'[d][s] = Append(rx[d][s], Current(n)')
       ELSE \/ rx'[d][s] = rx[d][s]
            \/ /\ d = n /\ s \in discovered[n]
               /\ rx[d][s] # <<>> /\ Head(rx[d][s]) # FloodPacket
               /\ rx'[d][s] = Tail(rx[d][s])

SamePort(d, s) ==
  /\ s \in neighbors_blocked'[d] <=> s \in neighbors_blocked[d]
  /\ s \in discovered'[d] <=> s \in discovered[d]

\* Nothing is read at d's port to s.
Unread(d, s) ==
  /\ rx'[d][s] = rx[d][s] \/ rx'[d][s] = Append(rx[d][s], FloodPacket)
  /\ SamePort(d, s)

\* A FLOOD is read there.
ReadsFlood(d, s) ==
  /\ rx[d][s] # <<>> /\ Head(rx[d][s]) = FloodPacket
  /\ rx'[d][s] = Tail(rx[d][s])
  /\ SamePort(d, s)

\* A vector is read there, and if it is the one s has, the port is set on it or s
\* is a root.
ReadsVector(d, s) ==
  /\ rx[d][s] # <<>> /\ Head(rx[d][s]) # FloodPacket
  /\ rx'[d][s] = Tail(rx[d][s])
  /\ s \in discovered'[d]
  /\ Head(rx[d][s]) = Current(s) => Judged(d, s)' \/ root_addr[s] = s

\* No node changes its vector.
Listens ==
  /\ UNCHANGED <<link_states, changing, nodeVars>>
  /\ \A d \in Node : \A s \in link_states[d] :
       Unread(d, s) \/ ReadsFlood(d, s) \/ ReadsVector(d, s)

\* Links are disabled.
Cuts ==
  /\ UNCHANGED <<nodeVars, portVars>>
  /\ \A d \in Node : link_states'[d] \subseteq link_states[d]
  /\ \A d \in Node : \A s \in link_states'[d] : rx'[d][s] = rx[d][s]

\* What send_STP puts on a link is a packet, and no FLOOD.
LEMMA VectorIsPacket ==
  ASSUME NEW n \in Node, NEW root \in Node, NEW path \in 0 .. MaxPath
  PROVE  StpPacket(root, path, n) \in Packet /\ StpPacket(root, path, n) # FloodPacket
<1>1. path \in 0 .. PathModulus - 1 /\ path % PathModulus = path
  BY BoundAssumption
<1>2. StpPacket(root, path, n) \in Packet
  BY <1>1 DEF StpPacket, Packet
<1>3. StpPacket(root, path, n).type = "STP" /\ FloodPacket.type = "FLOOD"
  BY DEF StpPacket, FloodPacket
<1> QED
  BY <1>2, <1>3

\* So is a node's present vector, before and after a step.
LEMMA CurrentIsPacket ==
  ASSUME NEW s \in Node
  PROVE  /\ IInv => Current(s) \in Packet /\ Current(s) # FloodPacket
         /\ IInv' => Current(s)' \in Packet /\ Current(s)' # FloodPacket
<1>1. IInv => root_addr[s] \in Node /\ path_len[s] \in 0 .. MaxPath
  BY DEF IInv, TypeOK, NodeTypeOK
<1>2. IInv' => root_addr'[s] \in Node /\ path_len'[s] \in 0 .. MaxPath
  BY DEF IInv, TypeOK, NodeTypeOK
<1> QED
  BY <1>1, <1>2, VectorIsPacket DEF Current

\* The types of a queue and of the vector of its sender.
LEMMA QueuesAre ==
  ASSUME IInv, NEW d \in Node, NEW s \in Node
  PROVE  rx[d][s] \in Seq(Packet) /\ Current(s) \in Packet /\ Current(s) # FloodPacket
  BY CurrentIsPacket DEF IInv, TypeOK

\* The fields of a vector with a path of at most MaxPath.
LEMMA CurrentIs ==
  ASSUME IInv, NEW s \in Node
  PROVE  /\ Current(s).root_address = root_addr[s]
         /\ Current(s).path_length = path_len[s]
         /\ Current(s).node_address = s
<1>1. path_len[s] \in 0 .. MaxPath
  BY DEF IInv, TypeOK, NodeTypeOK
<1>2. path_len[s] % PathModulus = path_len[s]
  BY <1>1, BoundAssumption
<1> QED
  BY <1>2 DEF Current, StpPacket

\* The ends of an enabled link are two neighbours.
LEMMA LinkedAre ==
  ASSUME IInv, Links, NEW d \in Node, NEW s \in link_states[d]
  PROVE  s \in Node /\ s \in Neighbor[d] /\ d \in Neighbor[s] /\ s # d
  BY NeighborAssumption DEF Links

\* A node that sends its vector to all its neighbours keeps them informed.
LEMMA SpeaksKeeps ==
  ASSUME IInv, IInv', LInv, NEW n \in Node, Speaks(n)
  PROVE  LInv'
<1>0. Links /\ Announced /\ Greeted /\ Seen /\ link_states' = link_states
  BY DEF LInv, Speaks
<1>1. Links'
  BY DEF LInv, Links, Speaks
<1>2. ASSUME NEW d \in Node, NEW s \in link_states[d]
      PROVE  Latest(rx[d][s], Current(s))'
  <2>0. s \in Node
    BY <1>0, LinkedAre
  <2>1. /\ rx[d][s] \in Seq(Packet)
        /\ Current(s)' \in Packet /\ Current(s)' # FloodPacket
    <3>1. rx[d][s] \in Seq(Packet)
      BY <2>0, QueuesAre
    <3>2. (Current(s) \in Packet /\ Current(s) # FloodPacket)'
      BY <2>0, CurrentIsPacket
    <3> QED
      BY <3>1, <3>2
  <2>2. CASE s = n
    <3>1. rx'[d][s] = Append(rx[d][s], Current(s)')
      BY <2>2 DEF Speaks
    <3> QED
      BY <2>1, <3>1, VectorAppended
  <2>3. CASE s # n
    <3>1. Current(s)' = Current(s)
      BY <2>0, <2>3 DEF Speaks, Current, StpPacket
    <3>2. Latest(rx[d][s], Current(s))
      BY <1>0 DEF Announced
    <3>3. \/ rx'[d][s] = rx[d][s]
          \/ rx[d][s] # <<>> /\ Head(rx[d][s]) # FloodPacket /\ rx'[d][s] = Tail(rx[d][s])
      BY <2>3 DEF Speaks
    <3> QED
      BY <2>1, <3>1, <3>2, <3>3, VectorRemoved
  <2> QED
    BY <2>2, <2>3
<1>3. ASSUME NEW d \in Node, NEW s \in link_states[d] \ discovered[d]
      PROVE  rx'[d][s] # <<>> /\ Head(rx'[d][s]) = StpPacket(s, 0, s)
  <2>0. s \in Node /\ rx[d][s] # <<>> /\ Head(rx[d][s]) = StpPacket(s, 0, s)
    BY <1>0, LinkedAre DEF Greeted
  <2>1. CASE s = n
    <3>1. rx'[d][s] = Append(rx[d][s], Current(s)')
      BY <2>1 DEF Speaks
    <3>2. rx[d][s] \in Seq(Packet)
      BY <2>0, QueuesAre
    <3>3. (Current(s) \in Packet)'
      BY <2>0, CurrentIsPacket
    <3> QED
      BY <2>0, <3>1, <3>2, <3>3, AppendIs
  <2>2. CASE s # n
    BY <2>0, <2>2 DEF Speaks
  <2> QED
    BY <2>1, <2>2
<1>4. ASSUME NEW d \in Node, NEW s \in Up(d)
      PROVE  Noted(d, s)' \/ Noted(s, d)'
  <2>0. s \in Node /\ s \in link_states[d] /\ d \in link_states[s] /\ s # d
    BY <1>0, LinkedAre DEF Up
  <2>1. ASSUME NEW x \in Node, n \in link_states[x] PROVE HasVector(rx[x][n])'
    <3>1. rx'[x][n] = Append(rx[x][n], Current(n)')
      BY <2>1 DEF Speaks
    <3>2. rx[x][n] \in Seq(Packet)
      BY QueuesAre
    <3>3. (Current(n) \in Packet /\ Current(n) # FloodPacket)'
      BY CurrentIsPacket
    <3> QED
      BY <3>1, <3>2, <3>3, VectorAppended
  <2>2. CASE s = n
    BY <2>0, <2>1, <2>2 DEF Noted
  <2>3. CASE d = n
    BY <2>0, <2>1, <2>3 DEF Noted
  <2>4. CASE s # n /\ d # n
    <3>1. /\ rx'[d][s] = rx[d][s] /\ rx'[s][d] = rx[s][d]
          /\ neighbors_blocked'[d] = neighbors_blocked[d]
          /\ neighbors_blocked'[s] = neighbors_blocked[s]
          /\ root_addr'[d] = root_addr[d] /\ path_len'[d] = path_len[d] /\ next_hop'[d] = next_hop[d]
          /\ root_addr'[s] = root_addr[s] /\ path_len'[s] = path_len[s] /\ next_hop'[s] = next_hop[s]
      BY <2>0, <2>4 DEF Speaks
    <3>2. Noted(d, s) \/ Noted(s, d)
      BY <1>0 DEF Seen
    <3> QED
      BY <3>1, <3>2 DEF Noted, Judged
  <2> QED
    BY <2>2, <2>3, <2>4
<1>5. Announced'
  BY <1>0, <1>2 DEF Announced
<1>6. Greeted'
  BY <1>0, <1>3 DEF Greeted, Speaks
<1>7. Seen'
  BY <1>0, <1>4 DEF Seen, Up
<1> QED
  BY <1>1, <1>5, <1>6, <1>7 DEF LInv

\* A step in which no node changes its vector forgets nothing.
LEMMA ListensKeeps ==
  ASSUME IInv, LInv, Listens
  PROVE  LInv'
<1>0. /\ Links /\ Announced /\ Greeted /\ Seen /\ link_states' = link_states
      /\ root_addr' = root_addr /\ path_len' = path_len /\ next_hop' = next_hop
  BY DEF LInv, Listens, nodeVars
<1>1. Links'
  BY DEF LInv, Links, Listens
<1>2. ASSUME NEW d \in Node, NEW s \in link_states[d]
      PROVE  /\ s \in Node /\ d \in Node
             /\ rx[d][s] \in Seq(Packet) /\ Current(s) # FloodPacket
             /\ Latest(rx[d][s], Current(s))
             /\ Unread(d, s) \/ ReadsFlood(d, s) \/ ReadsVector(d, s)
  BY <1>0, LinkedAre, QueuesAre DEF Announced, Listens
<1>3. ASSUME NEW d \in Node, NEW s \in link_states[d]
      PROVE  Latest(rx'[d][s], Current(s))
  <2>1. CASE Unread(d, s)
    BY <1>2, <2>1, FloodAppended DEF Unread
  <2>2. CASE ReadsFlood(d, s)
    BY <1>2, <2>2, FloodRemoved DEF ReadsFlood
  <2>3. CASE ReadsVector(d, s)
    BY <1>2, <2>3, VectorRemoved DEF ReadsVector
  <2> QED
    BY <1>2, <2>1, <2>2, <2>3
<1>4. ASSUME NEW d \in Node, NEW s \in link_states[d] \ discovered'[d]
      PROVE  rx'[d][s] # <<>> /\ Head(rx'[d][s]) = StpPacket(s, 0, s)
  <2>1. s \notin discovered[d]
    BY <1>2 DEF Unread, ReadsFlood, ReadsVector, SamePort
  <2>2. rx[d][s] # <<>> /\ Head(rx[d][s]) = StpPacket(s, 0, s)
    BY <1>0, <2>1 DEF Greeted
  <2>3. Head(rx[d][s]) # FloodPacket
    BY <1>2, <2>2, VectorIsPacket, BoundAssumption
  <2>4. Unread(d, s)
    BY <1>2, <2>3 DEF ReadsFlood, ReadsVector
  <2>5. FloodPacket \in Packet
    BY DEF Packet
  <2> QED
    BY <1>2, <2>2, <2>4, <2>5, AppendIs DEF Unread
<1>5. ASSUME NEW d \in Node, NEW s \in link_states[d], ReadsVector(d, s)
      PROVE  Noted(d, s)' \/ Noted(s, d)'
  <2>1. CASE HasVector(rx'[d][s])
    BY <2>1 DEF Noted
  <2>2. CASE ~HasVector(rx'[d][s])
    <3>1. Head(rx[d][s]) = Current(s)
      BY <1>2, <1>5, <2>2, VectorRemoved DEF ReadsVector
    <3>2. Judged(d, s)' \/ root_addr[s] = s
      BY <1>5, <3>1 DEF ReadsVector
    <3> QED
      BY <1>0, <3>2 DEF Noted
  <2> QED
    BY <2>1, <2>2
<1>6. ASSUME NEW d \in Node, NEW s \in link_states[d], ~ReadsVector(d, s), Noted(d, s)
      PROVE  Noted(d, s)'
  <2>1. HasVector(rx'[d][s]) <=> HasVector(rx[d][s])
    <3>1. CASE Unread(d, s)
      BY <1>2, <3>1, FloodAppended DEF Unread
    <3>2. CASE ReadsFlood(d, s)
      BY <1>2, <3>2, FloodRemoved DEF ReadsFlood
    <3> QED
      BY <1>2, <1>6, <3>1, <3>2
  <2>2. SamePort(d, s)
    BY <1>2, <1>6 DEF Unread, ReadsFlood
  <2> QED
    BY <1>0, <1>6, <2>1, <2>2 DEF Noted, Judged, SamePort
<1>7. ASSUME NEW d \in Node, NEW s \in Up(d)
      PROVE  Noted(d, s)' \/ Noted(s, d)'
  <2>1. s \in link_states[d] /\ d \in link_states[s] /\ s \in Node
    BY <1>2 DEF Up
  <2>2. Noted(d, s) \/ Noted(s, d)
    BY <1>0 DEF Seen
  <2> QED
    BY <1>5, <1>6, <2>1, <2>2
<1>8. Announced'
  BY <1>0, <1>3 DEF Announced, Current
<1>9. Greeted'
  BY <1>0, <1>4 DEF Greeted
<1>10. Seen'
  BY <1>0, <1>7 DEF Seen, Up
<1> QED
  BY <1>1, <1>8, <1>9, <1>10 DEF LInv

\* What holds of every enabled link holds of those that are left.
LEMMA CutsKeep ==
  ASSUME LInv, Cuts, Links'
  PROVE  LInv'
<1>0. /\ Announced /\ Greeted /\ Seen
      /\ root_addr' = root_addr /\ path_len' = path_len /\ next_hop' = next_hop
      /\ discovered' = discovered /\ neighbors_blocked' = neighbors_blocked
      /\ \A d \in Node : \A s \in link_states'[d] : s \in link_states[d] /\ rx'[d][s] = rx[d][s]
  BY DEF LInv, Cuts, nodeVars, portVars
<1>1. Announced'
  BY <1>0 DEF Announced, Current
<1>2. Greeted'
  BY <1>0 DEF Greeted
<1>3. ASSUME NEW n \in Node, NEW m \in Up(n)' PROVE Noted(n, m)' \/ Noted(m, n)'
  <2>1. m \in link_states'[n] /\ n \in link_states'[m] /\ m \in Node
    BY NeighborAssumption DEF Up, Links
  <2>2. m \in Up(n) /\ rx'[n][m] = rx[n][m] /\ rx'[m][n] = rx[m][n]
    BY <1>0, <2>1 DEF Up
  <2>3. Noted(n, m) \/ Noted(m, n)
    BY <1>0, <2>2 DEF Seen
  <2> QED
    BY <1>0, <2>2, <2>3 DEF Noted, Judged
<1>4. Seen'
  BY <1>3 DEF Seen
<1> QED
  BY <1>1, <1>2, <1>4 DEF LInv

-----------------------------------------------------------------------------
(* The effects of the actions *)

\* A packet sent on an enabled port is there.
LEMMA SentIs ==
  ASSUME NEW q, NEW n, NEW P, NEW p, NEW d \in Node, NEW s \in Node, s \in link_states[d]
  PROVE  Send(q, n, P, p)[d][s] = IF s = n /\ d \in P THEN Append(q[d][s], p) ELSE q[d][s]
  BY DEF Send, Readable

\* What mixnet_recv leaves in the queues.
LEMMA RestIs ==
  ASSUME IInv, NEW n \in Node, NEW m \in Node, NEW d \in Node, NEW s \in Node
  PROVE  Received(rx, n, m)[d][s] = IF d = n /\ s = m THEN Tail(rx[n][m]) ELSE rx[d][s]
  BY DEF IInv, TypeOK, Received

\* The type of the first packet tells a vector from a FLOOD.
LEMMA HeadIs ==
  ASSUME IInv, NEW n \in Node, NEW m \in Node
  PROVE  /\ CanReceive(n, m, "STP") =>
              m \in link_states[n] /\ rx[n][m] # <<>> /\ Head(rx[n][m]) # FloodPacket
         /\ CanReceive(n, m, "FLOOD") =>
              m \in link_states[n] /\ rx[n][m] # <<>> /\ Head(rx[n][m]) = FloodPacket
<1>1. CanReceive(n, m, "STP") => Head(rx[n][m]) # FloodPacket
  BY DEF CanReceive, FloodPacket
<1>2. ASSUME CanReceive(n, m, "FLOOD") PROVE Head(rx[n][m]) = FloodPacket
  <2>1. Head(rx[n][m]) \in Packet
    BY <1>2 DEF IInv, TypeOK, CanReceive
  <2> QED
    BY <1>2, <2>1 DEF CanReceive, Packet
<1> QED
  BY <1>1, <1>2 DEF CanReceive

\* A root that is due a hello sends its vector.
LEMMA HelloSpeaks ==
  ASSUME IInv, Links, NEW n \in Node, Hello(n)
  PROVE  Speaks(n) /\ UNCHANGED <<nodeVars, neighbors_blocked>>
<1>1. /\ UNCHANGED <<link_states, changing, discovered>>
      /\ root_addr' = root_addr /\ path_len' = path_len /\ next_hop' = next_hop
      /\ neighbors_blocked' = neighbors_blocked
  BY DEF Hello, linkVars, portVars, nodeVars
<1>2. ASSUME NEW d \in Node, NEW s \in link_states[d]
      PROVE  rx'[d][s] = IF s = n THEN Append(rx[d][s], Current(n)') ELSE rx[d][s]
  <2>1. s \in Node /\ d \in Neighbor[s]
    BY LinkedAre
  <2>2. Current(n)' = StpPacket(root_addr[n], path_len[n], n)
    BY <1>1 DEF Current
  <2> QED
    BY <2>1, <2>2, SentIs DEF Hello, SendSTP
<1> QED
  BY <1>1, <1>2 DEF Speaks, nodeVars

\* A node that falls back to itself as root sends its new vector.
LEMMA ReelectSpeaks ==
  ASSUME IInv, Links, NEW n \in Node, Reelect(n)
  PROVE  Speaks(n)
<1>1. UNCHANGED <<link_states, changing, discovered>> /\ neighbors_blocked' = neighbors_blocked
  BY DEF Reelect, linkVars, portVars
<1>2. \A k \in Node \ {n} :
        root_addr'[k] = root_addr[k] /\ path_len'[k] = path_len[k] /\ next_hop'[k] = next_hop[k]
  BY DEF IInv, TypeOK, NodeTypeOK, Reelect
<1>3. root_addr'[n] = n /\ path_len'[n] = 0
  BY DEF IInv, TypeOK, NodeTypeOK, Reelect
<1>4. ASSUME NEW d \in Node, NEW s \in link_states[d]
      PROVE  rx'[d][s] = IF s = n THEN Append(rx[d][s], Current(n)') ELSE rx[d][s]
  <2>1. s \in Node /\ d \in Neighbor[s]
    BY LinkedAre
  <2>2. Current(n)' = StpPacket(n, 0, n)
    BY <1>3 DEF Current
  <2> QED
    BY <2>1, <2>2, SentIs DEF Reelect, SendSTP
<1> QED
  BY <1>1, <1>2, <1>4 DEF Speaks

\* What a node has read and then sent to all.
LEMMA ReadAndSent ==
  ASSUME IInv, Links, NEW n \in Node, NEW m \in Node, m \in link_states[n], NEW p,
         rx' = Send(Received(rx, n, m), n, Neighbor[n], p)
  PROVE  \A d \in Node : \A s \in link_states[d] :
           rx'[d][s] = IF s = n THEN Append(rx[d][s], p)
                       ELSE IF d = n /\ s = m THEN Tail(rx[d][s]) ELSE rx[d][s]
<1> SUFFICES ASSUME NEW d \in Node, NEW s \in link_states[d]
             PROVE  rx'[d][s] = IF s = n THEN Append(rx[d][s], p)
                                ELSE IF d = n /\ s = m THEN Tail(rx[d][s]) ELSE rx[d][s]
  OBVIOUS
<1>1. s \in Node /\ d \in Neighbor[s] /\ m # n
  BY LinkedAre
<1> DEFINE q == Received(rx, n, m)
<1>2. q[d][s] = IF d = n /\ s = m THEN Tail(rx[n][m]) ELSE rx[d][s]
  BY <1>1, RestIs
<1> HIDE DEF q
<1>3. rx'[d][s] = IF s = n /\ d \in Neighbor[n] THEN Append(q[d][s], p) ELSE q[d][s]
  BY <1>1, SentIs DEF q
<1> QED
  BY <1>1, <1>2, <1>3 DEF q

\* The parent's hello is not the first packet of its port.
LEMMA ForwardParentHelloSpeaks ==
  ASSUME IInv, Links, Greeted, NEW n \in Node, NEW m \in Node, ForwardParentHello(n, m)
  PROVE  Speaks(n) /\ UNCHANGED <<nodeVars, neighbors_blocked>>
<1>1. /\ UNCHANGED <<link_states, changing, discovered>>
      /\ root_addr' = root_addr /\ path_len' = path_len /\ next_hop' = next_hop
      /\ neighbors_blocked' = neighbors_blocked
  BY DEF ForwardParentHello, linkVars, portVars, nodeVars
<1>2. /\ m \in link_states[n] /\ rx[n][m] # <<>> /\ Head(rx[n][m]) # FloodPacket
      /\ CanReceive(n, m, "STP") /\ m # n
  BY HeadIs, LinkedAre DEF ForwardParentHello
<1>3. m \in discovered[n]
  <2> SUFFICES ASSUME m \notin discovered[n] PROVE FALSE
    OBVIOUS
  <2>1. Head(rx[n][m]) = StpPacket(m, 0, m)
    BY <1>2 DEF Greeted
  <2>2. root_addr[n] = m /\ next_hop[n] = m
    BY <2>1 DEF ForwardParentHello, IsParentHello, StpPacket
  <2> QED
    BY <1>2, <2>2 DEF IInv, ParentPortOpen
<1>4. ASSUME NEW d \in Node, NEW s \in link_states[d]
      PROVE  rx'[d][s] = IF s = n THEN Append(rx[d][s], Current(n)')
                         ELSE IF d = n /\ s = m THEN Tail(rx[d][s]) ELSE rx[d][s]
  <2>1. Current(n)' = StpPacket(root_addr[n], path_len[n], n)
    BY <1>1 DEF Current
  <2>2. rx' = Send(Received(rx, n, m), n, Neighbor[n], Current(n)')
    BY <2>1 DEF ForwardParentHello, SendSTP
  <2>3. PICK p : p = Current(n)'
    OBVIOUS
  <2>4. rx' = Send(Received(rx, n, m), n, Neighbor[n], p)
    BY <2>2, <2>3
  <2>5. \A e \in Node : \A t \in link_states[e] :
          rx'[e][t] = IF t = n THEN Append(rx[e][t], p)
                      ELSE IF e = n /\ t = m THEN Tail(rx[e][t]) ELSE rx[e][t]
    BY <1>2, <2>4, ReadAndSent
  <2> QED
    BY <2>3, <2>5
<1> QED
  BY <1>1, <1>2, <1>3, <1>4 DEF Speaks, nodeVars

\* A node that adopts a parent sends its new vector.
LEMMA AdoptParentSpeaks ==
  ASSUME IInv, Links, NEW n \in Node, NEW m \in Node, AdoptParent(n, m)
  PROVE  Speaks(n)
<1> DEFINE u == Head(rx[n][m])
<1>1. UNCHANGED <<link_states, changing, discovered>>
  BY DEF AdoptParent, linkVars
<1>2. \A k \in Node \ {n} :
        /\ root_addr'[k] = root_addr[k] /\ path_len'[k] = path_len[k] /\ next_hop'[k] = next_hop[k]
        /\ neighbors_blocked'[k] = neighbors_blocked[k]
  BY DEF IInv, TypeOK, NodeTypeOK, PortTypeOK, AdoptParent
<1>3. root_addr'[n] = u.root_address /\ path_len'[n] = u.path_length + 1
  BY DEF IInv, TypeOK, NodeTypeOK, AdoptParent
<1>4. m \in link_states[n] /\ m \in discovered[n] /\ rx[n][m] # <<>> /\ u # FloodPacket
  BY HeadIs DEF AdoptParent
<1>5. ASSUME NEW d \in Node, NEW s \in link_states[d]
      PROVE  rx'[d][s] = IF s = n THEN Append(rx[d][s], Current(n)')
                         ELSE IF d = n /\ s = m THEN Tail(rx[d][s]) ELSE rx[d][s]
  <2>1. Current(n)' = StpPacket(u.root_address, u.path_length + 1, n)
    BY <1>3 DEF Current
  <2>2. rx' = Send(Received(rx, n, m), n, Neighbor[n], Current(n)')
    BY <2>1 DEF AdoptParent, SendSTP
  <2>3. PICK p : p = Current(n)'
    OBVIOUS
  <2>4. rx' = Send(Received(rx, n, m), n, Neighbor[n], p)
    BY <2>2, <2>3
  <2>5. \A e \in Node : \A t \in link_states[e] :
          rx'[e][t] = IF t = n THEN Append(rx[e][t], p)
                      ELSE IF e = n /\ t = m THEN Tail(rx[e][t]) ELSE rx[e][t]
    <3>1. m \in link_states[n]
      BY <1>4
    <3> QED
      BY <2>4, <3>1, ReadAndSent
  <2> QED
    BY <2>3, <2>5
<1> QED
  BY <1>1, <1>2, <1>4, <1>5 DEF Speaks

\* The first packet of a neighbour changes no vector.
LEMMA DiscoverNeighborListens ==
  ASSUME IInv, Links, Greeted, NEW n \in Node, NEW m \in Node, DiscoverNeighbor(n, m)
  PROVE  Listens
<1>1. UNCHANGED <<link_states, changing, nodeVars>>
  BY DEF DiscoverNeighbor, linkVars
<1>2. /\ m \in link_states[n] /\ rx[n][m] # <<>> /\ Head(rx[n][m]) # FloodPacket
      /\ m \notin discovered[n]
  BY HeadIs DEF DiscoverNeighbor
<1>3. Head(rx[n][m]) = StpPacket(m, 0, m)
  BY <1>2 DEF Greeted
<1>4. Head(rx[n][m]) = Current(m) => root_addr[m] = m
  BY <1>3 DEF Current, StpPacket
<1>5. ASSUME NEW d \in Node, NEW s \in link_states[d]
      PROVE  Unread(d, s) \/ ReadsVector(d, s)
  <2>0. s \in Node
    BY LinkedAre
  <2>1. /\ discovered'[d] = IF d = n THEN discovered[n] \cup {m} ELSE discovered[d]
        /\ neighbors_blocked'[d] = IF d = n THEN neighbors_blocked[n] \ {m} ELSE neighbors_blocked[d]
    BY DEF IInv, TypeOK, PortTypeOK, DiscoverNeighbor
  <2>2. rx'[d][s] = IF d = n /\ s = m THEN Tail(rx[n][m]) ELSE rx[d][s]
    BY <2>0, RestIs DEF DiscoverNeighbor
  <2>3. CASE d = n /\ s = m
    BY <1>2, <1>4, <2>1, <2>2, <2>3 DEF ReadsVector
  <2>4. CASE ~(d = n /\ s = m)
    BY <2>1, <2>2, <2>4 DEF Unread, SamePort
  <2> QED
    BY <2>3, <2>4
<1> QED
  BY <1>1, <1>5 DEF Listens

\* What KeepParent does at the port it reads, and that it does nothing else.
LEMMA KeepParentReads ==
  ASSUME IInv, Links, NEW n \in Node, NEW m \in Node, KeepParent(n, m)
  PROVE  /\ UNCHANGED <<link_states, changing, nodeVars, discovered, delivered, expected>>
         /\ m \in link_states[n] /\ m \in discovered[n]
         /\ rx[n][m] # <<>> /\ Head(rx[n][m]) # FloodPacket /\ rx'[n][m] = Tail(rx[n][m])
         /\ Head(rx[n][m]) = Current(m) => Judged(n, m)'
         /\ \A d \in Node : \A s \in link_states[d] :
              (d = n /\ s = m) \/ (rx'[d][s] = rx[d][s] /\ SamePort(d, s))
<1> DEFINE u == Head(rx[n][m])
<1>1. UNCHANGED <<link_states, changing, nodeVars, discovered, delivered, expected>>
  BY DEF KeepParent, linkVars, driverVars
<1>2. /\ m \in link_states[n] /\ rx[n][m] # <<>> /\ u # FloodPacket
      /\ m \in discovered[n]
  BY HeadIs DEF KeepParent
<1>3. ASSUME NEW d \in Node, NEW s \in Node
      PROVE  rx'[d][s] = IF d = n /\ s = m THEN Tail(rx[n][m]) ELSE rx[d][s]
  BY RestIs DEF KeepParent
<1>4. ASSUME NEW d \in Node
      PROVE  neighbors_blocked'[d] =
               IF d = n THEN IF OpensPort(n, u) THEN neighbors_blocked[n] \ {m}
                             ELSE neighbors_blocked[n] \cup {m}
               ELSE neighbors_blocked[d]
  BY DEF IInv, TypeOK, PortTypeOK, KeepParent
<1>5. ASSUME u = Current(m) PROVE Judged(n, m)'
  <2>1. u.root_address = root_addr[m] /\ u.path_length = path_len[m] /\ u.node_address = m
    BY <1>5, CurrentIs
  <2>2. m \notin neighbors_blocked'[n] <=> OpensPort(n, u)
    BY <1>4
  <2>3. root_addr' = root_addr /\ path_len' = path_len /\ next_hop' = next_hop
    BY <1>1 DEF nodeVars
  <2> QED
    BY <2>1, <2>2, <2>3 DEF Judged, OpensPort
<1>6. ASSUME NEW d \in Node, NEW s \in link_states[d], ~(d = n /\ s = m)
      PROVE  rx'[d][s] = rx[d][s] /\ SamePort(d, s)
  <2>1. s \in Node
    BY LinkedAre
  <2> QED
    BY <1>1, <1>3, <1>4, <1>6, <2>1 DEF SamePort
<1> QED
  BY <1>1, <1>2, <1>3, <1>5, <1>6

\* Nor does a vector that is not better.
LEMMA KeepParentListens ==
  ASSUME IInv, Links, NEW n \in Node, NEW m \in Node, KeepParent(n, m)
  PROVE  Listens
<1>1. /\ UNCHANGED <<link_states, changing, nodeVars, discovered, delivered, expected>>
      /\ m \in link_states[n] /\ m \in discovered[n]
      /\ rx[n][m] # <<>> /\ Head(rx[n][m]) # FloodPacket /\ rx'[n][m] = Tail(rx[n][m])
      /\ Head(rx[n][m]) = Current(m) => Judged(n, m)'
      /\ \A d \in Node : \A s \in link_states[d] :
           (d = n /\ s = m) \/ (rx'[d][s] = rx[d][s] /\ SamePort(d, s))
  BY KeepParentReads
<1>2. ReadsVector(n, m)
  BY <1>1 DEF ReadsVector
<1>3. ASSUME NEW d \in Node, NEW s \in link_states[d]
      PROVE  Unread(d, s) \/ ReadsVector(d, s)
  BY <1>1, <1>2 DEF Unread
<1> QED
  BY <1>1, <1>3 DEF Listens

\* What becomes of the enabled ports when a FLOOD is forwarded.
LEMMA ForwardFloodReads ==
  ASSUME IInv, Links, NEW n \in Node, NEW m \in Node, ForwardFlood(n, m)
  PROVE  /\ m \in link_states[n] /\ rx[n][m] # <<>> /\ Head(rx[n][m]) = FloodPacket
         /\ \A d \in Node : \A s \in link_states[d] :
              rx'[d][s] = IF s = n /\ d \in Open(n) \ {m} THEN Append(rx[d][s], FloodPacket)
                          ELSE IF d = n /\ s = m THEN Tail(rx[d][s]) ELSE rx[d][s]
<1>1. m \in link_states[n] /\ rx[n][m] # <<>> /\ Head(rx[n][m]) = FloodPacket
  BY HeadIs DEF ForwardFlood
<1> DEFINE q == Received(rx, n, m)
<1>2. ASSUME NEW d \in Node, NEW s \in link_states[d]
      PROVE  rx'[d][s] = IF s = n /\ d \in Open(n) \ {m} THEN Append(rx[d][s], FloodPacket)
                         ELSE IF d = n /\ s = m THEN Tail(rx[d][s]) ELSE rx[d][s]
  <2>1. s \in Node /\ s # d
    BY LinkedAre
  <2>2. q[d][s] = IF d = n /\ s = m THEN Tail(rx[n][m]) ELSE rx[d][s]
    BY <2>1, RestIs
  <2>3. rx' = Send(q, n, Open(n) \ {m}, FloodPacket)
    BY DEF ForwardFlood
  <2> HIDE DEF q
  <2>4. rx'[d][s] = IF s = n /\ d \in Open(n) \ {m} THEN Append(q[d][s], FloodPacket) ELSE q[d][s]
    BY <2>1, <2>3, SentIs
  <2> QED
    BY <2>1, <2>2, <2>4
<1> QED
  BY <1>1, <1>2

\* Forwarding a FLOOD changes no vector.
LEMMA ForwardFloodListens ==
  ASSUME IInv, Links, NEW n \in Node, NEW m \in Node, ForwardFlood(n, m)
  PROVE  Listens
<1>1. UNCHANGED <<link_states, changing, nodeVars, portVars>>
  BY DEF ForwardFlood, linkVars
<1>2. /\ m \in link_states[n] /\ rx[n][m] # <<>> /\ Head(rx[n][m]) = FloodPacket
      /\ \A d \in Node : \A s \in link_states[d] :
           rx'[d][s] = IF s = n /\ d \in Open(n) \ {m} THEN Append(rx[d][s], FloodPacket)
                       ELSE IF d = n /\ s = m THEN Tail(rx[d][s]) ELSE rx[d][s]
  BY ForwardFloodReads
<1>3. ASSUME NEW d \in Node, NEW s \in link_states[d]
      PROVE  Unread(d, s) \/ ReadsFlood(d, s)
  <2>1. SamePort(d, s)
    BY <1>1 DEF SamePort, portVars
  <2> QED
    BY <1>2, <2>1 DEF Unread, ReadsFlood
<1> QED
  BY <1>1, <1>3 DEF Listens

\* What becomes of the enabled ports when a FLOOD is dropped.
LEMMA DropFloodReads ==
  ASSUME IInv, Links, NEW n \in Node, NEW m \in Node, DropFlood(n, m)
  PROVE  /\ m \in link_states[n] /\ rx[n][m] # <<>> /\ Head(rx[n][m]) = FloodPacket
         /\ \A d \in Node : \A s \in link_states[d] :
              rx'[d][s] = IF d = n /\ s = m THEN Tail(rx[d][s]) ELSE rx[d][s]
<1>1. m \in link_states[n] /\ rx[n][m] # <<>> /\ Head(rx[n][m]) = FloodPacket
  BY HeadIs DEF DropFlood
<1>2. ASSUME NEW d \in Node, NEW s \in link_states[d]
      PROVE  rx'[d][s] = IF d = n /\ s = m THEN Tail(rx[d][s]) ELSE rx[d][s]
  <2>1. s \in Node
    BY LinkedAre
  <2> QED
    BY <2>1, RestIs DEF DropFlood
<1> QED
  BY <1>1, <1>2

\* Dropping a FLOOD changes no vector.
LEMMA DropFloodListens ==
  ASSUME IInv, Links, NEW n \in Node, NEW m \in Node, DropFlood(n, m)
  PROVE  Listens
<1>1. UNCHANGED <<link_states, changing, nodeVars, portVars>>
  BY DEF DropFlood, linkVars
<1>2. /\ m \in link_states[n] /\ rx[n][m] # <<>> /\ Head(rx[n][m]) = FloodPacket
      /\ \A d \in Node : \A s \in link_states[d] :
           rx'[d][s] = IF d = n /\ s = m THEN Tail(rx[d][s]) ELSE rx[d][s]
  BY DropFloodReads
<1>3. ASSUME NEW d \in Node, NEW s \in link_states[d]
      PROVE  Unread(d, s) \/ ReadsFlood(d, s)
  <2>1. SamePort(d, s)
    BY <1>1 DEF SamePort, portVars
  <2> QED
    BY <1>2, <2>1 DEF Unread, ReadsFlood
<1> QED
  BY <1>1, <1>3 DEF Listens

\* A FLOOD from the user goes to the source's open ports.
LEMMA InjectFloodSends ==
  ASSUME IInv, Links, NEW n \in Node, InjectFlood(n), NEW d \in Node, NEW s \in link_states[d]
  PROVE  rx'[d][s] = IF s = n /\ d \in Open(n) THEN Append(rx[d][s], FloodPacket) ELSE rx[d][s]
<1>1. s \in Node
  BY LinkedAre
<1> QED
  BY <1>1, SentIs DEF InjectFlood

\* A FLOOD from the user changes no vector.
LEMMA InjectFloodListens ==
  ASSUME IInv, Links, NEW n \in Node, InjectFlood(n)
  PROVE  Listens
<1>1. UNCHANGED <<link_states, changing, nodeVars, portVars>>
  BY DEF InjectFlood, linkVars
<1>2. ASSUME NEW d \in Node, NEW s \in link_states[d]
      PROVE  Unread(d, s)
  <2>1. SamePort(d, s)
    BY <1>1 DEF SamePort, portVars
  <2>2. rx'[d][s] = IF s = n /\ d \in Open(n) THEN Append(rx[d][s], FloodPacket) ELSE rx[d][s]
    BY InjectFloodSends
  <2> QED
    BY <2>1, <2>2 DEF Unread
<1> QED
  BY <1>1, <1>2 DEF Listens

\* Steps that leave the enabled ports alone.
LEMMA IdleSteps ==
  ASSUME Links, Tick \/ EndChanges \/ UNCHANGED vars
  PROVE  /\ UNCHANGED <<link_states, changing, nodeVars, portVars, delivered, expected>>
         /\ \A d \in Node : \A s \in link_states[d] : rx'[d][s] = rx[d][s]
<1>1. UNCHANGED <<link_states, changing, nodeVars, portVars, delivered, expected>>
  BY DEF Tick, EndChanges, vars, linkVars, driverVars
<1>2. ASSUME NEW d \in Node, NEW s \in link_states[d] PROVE rx'[d][s] = rx[d][s]
  <2>1. s \in Node
    BY NeighborAssumption DEF Links
  <2> QED
    BY <2>1 DEF Tick, EndChanges, vars
<1> QED
  BY <1>1, <1>2

\* Time, and a test case that is done with the links, change no vector.
LEMMA IdleListens ==
  ASSUME Links, Tick \/ EndChanges \/ UNCHANGED vars
  PROVE  Listens
  BY IdleSteps DEF Listens, Unread, SamePort, portVars

\* The step enables no port.
OnlyFail == \A n \in Node : link_states'[n] \subseteq link_states[n]

\* What task_update_link_state leaves when it disables a port.
LEMMA UpdateIs ==
  ASSUME IInv, NEW n \in Node, NEW m \in Node,
         link_states' = [link_states EXCEPT ![n] = @ \ {m}], rx' = [rx EXCEPT ![n][m] = <<>>]
  PROVE  /\ \A k \in Node : link_states'[k] = IF k = n THEN link_states[n] \ {m} ELSE link_states[k]
         /\ \A d, s \in Node : rx'[d][s] = IF d = n /\ s = m THEN <<>> ELSE rx[d][s]
<1>1. \A k \in Node : link_states'[k] = IF k = n THEN link_states[n] \ {m} ELSE link_states[k]
  BY DEF IInv, TypeOK, LinkTypeOK
<1>2. rx \in [Node -> [Node -> Seq(Packet)]]
  BY DEF IInv, TypeOK
<1>3. \A d, s \in Node : rx'[d][s] = IF d = n /\ s = m THEN <<>> ELSE rx[d][s]
  BY <1>2
<1> QED
  BY <1>1, <1>3

\* The first half of change_link_state disables one end.
LEMMA ChangeLinkACuts ==
  ASSUME IInv, Links, NEW a \in Node, NEW b \in Neighbor[a], NEW up \in BOOLEAN,
         ChangeLinkA(a, b, up), OnlyFail
  PROVE  Cuts /\ Links'
<1>0. b \in Node /\ a # b /\ changing = NoChange
  BY NeighborAssumption DEF ChangeLinkA
<1>1. up = FALSE
  <2> SUFFICES ASSUME up = TRUE PROVE FALSE
    OBVIOUS
  <2>1. b \notin link_states[a]
    BY DEF ChangeLinkA
  <2>2. b \in link_states'[a]
    BY DEF ChangeLinkA, UpdateLinkState, IInv, TypeOK, LinkTypeOK
  <2> QED
    BY <2>1, <2>2 DEF OnlyFail
<1>2. /\ \A k \in Node : link_states'[k] = IF k = a THEN link_states[a] \ {b} ELSE link_states[k]
      /\ \A d, s \in Node : rx'[d][s] = IF d = a /\ s = b THEN <<>> ELSE rx[d][s]
  <2>1. link_states' = [link_states EXCEPT ![a] = @ \ {b}] /\ rx' = [rx EXCEPT ![a][b] = <<>>]
    BY <1>1 DEF ChangeLinkA, UpdateLinkState
  <2> QED
    BY <1>0, <2>1, UpdateIs
<1>3. changing' = <<a, b, FALSE>> /\ UNCHANGED <<nodeVars, portVars>>
  BY <1>1 DEF ChangeLinkA
<1>4. \A n \in Node : link_states[n] \subseteq Neighbor[n]
  BY DEF Links
<1>5. \A n, m \in Node : m \in link_states[n] => n \in link_states[m]
  <2> SUFFICES ASSUME NEW n \in Node, NEW m \in Node, m \in link_states[n], n \notin link_states[m]
               PROVE  FALSE
    OBVIOUS
  <2>1. changing = <<m, n, FALSE>>
    BY DEF Links
  <2> QED
    BY <1>0, <2>1 DEF NoChange
<1>6. Cuts
  <2>1. ASSUME NEW d \in Node, NEW s \in link_states'[d] PROVE rx'[d][s] = rx[d][s]
    <3>1. s \in Node /\ ~(d = a /\ s = b)
      BY <1>2, <1>4, NeighborAssumption
    <3> QED
      BY <1>2, <3>1
  <2> QED
    BY <1>3, <2>1 DEF Cuts, OnlyFail
<1>7. ASSUME NEW n \in Node, NEW m \in Node, m \in link_states'[n], n \notin link_states'[m]
      PROVE  changing' = <<m, n, FALSE>>
  <2>1. m \in link_states[n] /\ n \in link_states[m]
    BY <1>2, <1>5, <1>7
  <2>2. m = a /\ n = b
    BY <1>2, <1>7, <2>1
  <2> QED
    BY <1>3, <2>2
<1>8. \A n \in Node : link_states'[n] \subseteq Neighbor[n]
  BY <1>4 DEF OnlyFail
<1>9. b \notin link_states'[a]
  BY <1>2
<1> QED
  BY <1>0, <1>3, <1>6, <1>7, <1>8, <1>9 DEF Links

\* The second half disables the other.
LEMMA ChangeLinkBCuts ==
  ASSUME IInv, Links, ChangeLinkB, OnlyFail
  PROVE  Cuts /\ Links'
<1>1. PICK a \in Node, b \in Node : changing = <<a, b, FALSE>> /\ b \notin link_states[a]
  BY DEF Links, ChangeLinkB
<1>2. /\ \A k \in Node : link_states'[k] = IF k = b THEN link_states[b] \ {a} ELSE link_states[k]
      /\ \A d, s \in Node : rx'[d][s] = IF d = b /\ s = a THEN <<>> ELSE rx[d][s]
  <2>1. changing[1] = a /\ changing[2] = b /\ changing[3] = FALSE
    BY <1>1
  <2>2. link_states' = [link_states EXCEPT ![b] = @ \ {a}] /\ rx' = [rx EXCEPT ![b][a] = <<>>]
    BY <2>1 DEF ChangeLinkB, UpdateLinkState
  <2> QED
    BY <2>2, UpdateIs
<1>3. changing' = NoChange /\ UNCHANGED <<nodeVars, portVars>>
  BY DEF ChangeLinkB
<1>4. \A n \in Node : link_states[n] \subseteq Neighbor[n]
  BY DEF Links
<1>5. Cuts
  <2>1. ASSUME NEW d \in Node, NEW s \in link_states'[d] PROVE rx'[d][s] = rx[d][s]
    <3>1. s \in Node /\ ~(d = b /\ s = a)
      BY <1>2, <1>4, NeighborAssumption
    <3> QED
      BY <1>2, <3>1
  <2> QED
    BY <1>3, <2>1 DEF Cuts, OnlyFail
<1>6. ASSUME NEW n \in Node, NEW m \in Node, m \in link_states'[n], n \notin link_states'[m]
      PROVE  FALSE
  <2>1. m \in link_states[n] /\ ~(n = b /\ m = a)
    BY <1>2, <1>6
  <2>2. CASE n \in link_states[m]
    <3>1. m = b /\ n = a
      BY <1>2, <1>6, <2>2
    <3> QED
      BY <1>1, <2>1, <3>1
  <2>3. CASE n \notin link_states[m]
    <3>1. changing = <<m, n, FALSE>>
      BY <2>1, <2>3 DEF Links
    <3>2. m = a /\ n = b
      BY <1>1, <3>1
    <3> QED
      BY <2>1, <3>2
  <2> QED
    BY <2>2, <2>3
<1>7. \A n \in Node : link_states'[n] \subseteq Neighbor[n]
  BY <1>4 DEF OnlyFail
<1> QED
  BY <1>3, <1>5, <1>6, <1>7 DEF Links

\* It holds when the nodes start: each has sent its vector to all (run_node).
LEMMA InitLinks == Init => LInv
<1> SUFFICES ASSUME Init PROVE LInv
  OBVIOUS
<1>0. link_states = Neighbor /\ changing = NoChange /\ root_addr = [n \in Node |-> n]
  BY DEF Init
<1>1. Links
  BY <1>0, NeighborAssumption DEF Links
<1>2. ASSUME NEW n \in Node, NEW m \in link_states[n]
      PROVE  rx[n][m] = <<StpPacket(m, 0, m)>> /\ Current(m) = StpPacket(m, 0, m)
  <2>1. m \in Node /\ m \in Neighbor[n]
    BY <1>0, NeighborAssumption
  <2>2. rx[n][m] = <<StpPacket(m, 0, m)>>
    BY <2>1 DEF Init
  <2>3. root_addr[m] = m /\ path_len[m] = 0
    BY <2>1 DEF Init
  <2> QED
    BY <2>2, <2>3 DEF Current
<1>3. Announced
  <2> SUFFICES ASSUME NEW n \in Node, NEW m \in link_states[n]
               PROVE  Latest(rx[n][m], Current(m))
    BY DEF Announced
  <2> DEFINE v == StpPacket(m, 0, m)
  <2> HIDE DEF v
  <2>1. Latest(<<v>>, v)
    BY DEF Latest
  <2> QED
    BY <1>2, <2>1 DEF v
<1>4. Greeted
  BY <1>2 DEF Greeted
<1>5. Seen
  BY <1>0 DEF Seen, Noted
<1> QED
  BY <1>1, <1>3, <1>4, <1>5 DEF LInv

\* Every step keeps what the two ends of a link know of each other.
LEMMA LinksStay ==
  ASSUME IInv, IInv', LInv, [Next]_vars, OnlyFail
  PROVE  LInv'
<1>0. Links /\ Greeted
  BY DEF LInv
<1>1. ASSUME NEW n \in Node, Hello(n) \/ Reelect(n) PROVE LInv'
  BY <1>0, <1>1, HelloSpeaks, ReelectSpeaks, SpeaksKeeps
<1>2. ASSUME NEW n \in Node, NEW m \in Neighbor[n], Receive(n, m) PROVE LInv'
  <2>0. m \in Node
    BY NeighborAssumption
  <2>1. CASE ForwardParentHello(n, m) \/ AdoptParent(n, m)
    BY <1>0, <2>0, <2>1, ForwardParentHelloSpeaks, AdoptParentSpeaks, SpeaksKeeps
  <2>2. CASE DiscoverNeighbor(n, m) \/ KeepParent(n, m) \/ ForwardFlood(n, m) \/ DropFlood(n, m)
    BY <1>0, <2>0, <2>2, DiscoverNeighborListens, KeepParentListens, ForwardFloodListens,
       DropFloodListens, ListensKeeps
  <2> QED
    BY <1>2, <2>1, <2>2 DEF Receive
<1>3. ASSUME NEW n \in Node, InjectFlood(n) PROVE LInv'
  BY <1>0, <1>3, InjectFloodListens, ListensKeeps
<1>4. ASSUME NEW a \in Node, NEW b \in Neighbor[a], NEW up \in BOOLEAN, ChangeLinkA(a, b, up)
      PROVE  LInv'
  BY <1>0, <1>4, ChangeLinkACuts, CutsKeep
<1>5. CASE ChangeLinkB
  BY <1>0, <1>5, ChangeLinkBCuts, CutsKeep
<1>6. CASE Tick \/ EndChanges \/ UNCHANGED vars
  BY <1>0, <1>6, IdleListens, ListensKeeps
<1> QED
  BY <1>1, <1>2, <1>3, <1>4, <1>5, <1>6 DEF Next, NodeStep, DriverStep

-----------------------------------------------------------------------------
(* A FLOOD on the finished tree *)

TreeLink(n, m) == IsParent(m, n) \/ IsParent(n, m)

\* While a FLOOD is on its way the tree stands: every vector on its way is known
\* already, and no node opens its port to a neighbour nearer to the root than
\* itself which is not its parent.
Steady ==
  /\ changing = NoChange
  /\ CorrectVectors
  /\ ForwardingTree
  /\ \A n \in Node : \A m \in link_states[n] :
       /\ m \in discovered[n]
       /\ Only(rx[n][m], Current(m))
       /\ path_len[n] = path_len[m] + 1 /\ next_hop[n] # m => m \notin Open(n)

\* W: the nodes the FLOOD has been at; C: its source's component; t: the one of W
\* that is nearest to the root.  All others of W have their parent in W.
Region(W, C, t) ==
  /\ t \in W /\ W \subseteq C /\ C \subseteq Node
  /\ \A x \in C : link_states[x] \subseteq C
  /\ \A x, y \in C : root_addr[x] = root_addr[y]
  /\ \A v \in W : v = t \/ (root_addr[v] # v /\ next_hop[v] \in W)
  /\ \A v \in W : path_len[t] <= path_len[v]

\* The users of the rest of C have still to see it.
Counted(W, C) ==
  \A n \in Node : expected[n] = IF n \in C \ W THEN delivered[n] + 1 ELSE delivered[n]

\* On the tree it goes from W outwards, and elsewhere to ports that are blocked and
\* stay so.
Underway(W) ==
  \A d \in Node : \A s \in link_states[d] : HasFlood(rx[d][s]) =>
    /\ s \in W /\ OneFlood(rx[d][s])
    /\ IF TreeLink(d, s) THEN d \notin W ELSE s \notin Open(d) /\ path_len[s] # path_len[d] + 1

\* It is on every link of the tree that leaves W.
Front(W) ==
  \A n \in W : \A m \in link_states[n] : TreeLink(n, m) /\ m \notin W => HasFlood(rx[m][n])

Wave(W, C, t) == Region(W, C, t) /\ Counted(W, C) /\ Underway(W) /\ Front(W)

Flooding == Steady /\ \E W, C \in SUBSET Node : \E t \in Node : Wave(W, C, t)

FloodInv == Flooding \/ (~FloodPending /\ delivered = expected)

\* A FLOOD is on its way when the queue of an enabled port holds one.
LEMMA PendingIs ==
  /\ FloodPending <=> \E d \in Node : \E s \in link_states[d] : HasFlood(rx[d][s])
  /\ FloodPending' <=> \E d \in Node : \E s \in link_states'[d] : HasFlood(rx'[d][s])
  BY DEF FloodPending, HasFlood

\* The two ends of an enabled link on the tree that stands.
LEMMA SteadyLink ==
  ASSUME IInv, Links, Steady, NEW n \in Node, NEW m \in link_states[n]
  PROVE  /\ m \in Node /\ m # n /\ n \in link_states[m] /\ m \in Up(n) /\ n \in Up(m)
         /\ m \in Open(n) <=> m \notin neighbors_blocked[n]
         /\ root_addr[n] = root_addr[m]
         /\ path_len[n] \in Nat /\ path_len[m] \in Nat
<1>1. m \in Node /\ m # n /\ m \in Neighbor[n]
  BY LinkedAre
<1>2. n \in link_states[m]
  <2> SUFFICES ASSUME n \notin link_states[m] PROVE FALSE
    OBVIOUS
  <2>1. changing = <<m, n, FALSE>>
    BY <1>1 DEF Links
  <2> QED
    BY <2>1 DEF Steady, NoChange
<1>3. m \in Up(n) /\ n \in Up(m)
  BY <1>1, <1>2 DEF Up
<1>4. m \in Open(n) <=> m \notin neighbors_blocked[n]
  BY <1>1 DEF Open
<1>5. root_addr[n] = root_addr[m]
  BY <1>3 DEF Steady, CorrectVectors
<1>6. path_len[n] \in Nat /\ path_len[m] \in Nat
  BY <1>1 DEF IInv, TypeOK, NodeTypeOK
<1> QED
  BY <1>1, <1>2, <1>3, <1>4, <1>5, <1>6

\* A node's parent is one hop nearer to the root than itself, and no neighbour is
\* nearer than the parent.
LEMMA SteadyPaths ==
  ASSUME IInv, Links, Steady, NEW n \in Node, NEW m \in link_states[n]
  PROVE  /\ path_len[n] <= path_len[m] + 1
         /\ IsParent(m, n) => path_len[n] = path_len[m] + 1 /\ root_addr[n] # n
<1>0. m \in Up(n) /\ m # n /\ path_len[n] \in Nat /\ path_len[m] \in Nat
  BY SteadyLink
<1>1. CASE root_addr[n] = n
  <2>1. path_len[n] = 0 /\ next_hop[n] = n
    BY <1>1 DEF Steady, CorrectVectors
  <2> QED
    BY <1>0, <2>1 DEF IsParent
<1>2. CASE root_addr[n] # n
  <2>1. /\ next_hop[n] \in Up(n) /\ path_len[n] = path_len[next_hop[n]] + 1
        /\ \/ path_len[next_hop[n]] < path_len[m]
           \/ path_len[next_hop[n]] = path_len[m] /\ next_hop[n] <= m
    BY <1>0, <1>2 DEF Steady, CorrectVectors
  <2>2. path_len[next_hop[n]] \in Nat
    BY <2>1, SteadyLink DEF Up
  <2> QED
    BY <1>0, <1>2, <2>1, <2>2 DEF IsParent
<1> QED
  BY <1>1, <1>2

\* FLOODs pass exactly the tree's links, and a port open on another link belongs to
\* a node not further from the root than its neighbour.
LEMMA SteadyPorts ==
  ASSUME IInv, Links, Steady, NEW n \in Node, NEW m \in link_states[n]
  PROVE  /\ TreeLink(n, m) => m \in Open(n) /\ n \in Open(m)
         /\ ~TreeLink(n, m) /\ m \in Open(n) =>
              n \notin Open(m) /\ path_len[n] # path_len[m] + 1
<1>0. m \in Up(n) /\ m # n
  BY SteadyLink
<1>1. (m \in Open(n) /\ n \in Open(m)) <=> TreeLink(n, m)
  BY <1>0 DEF Steady, ForwardingTree, TreeLink
<1>2. path_len[n] = path_len[m] + 1 /\ next_hop[n] # m => m \notin Open(n)
  BY DEF Steady
<1> QED
  BY <1>0, <1>1, <1>2 DEF TreeLink, IsParent

\* No vector on its way is better than the one its reader has.
LEMMA NothingBetter ==
  ASSUME IInv, Links, Steady, NEW n \in Node, NEW m \in link_states[n],
         NEW u, u = Current(m)
  PROVE  ~Better(n, u)
<1>0. m \in Node /\ m \in Up(n) /\ m # n /\ path_len[n] \in Nat /\ path_len[m] \in Nat
      /\ root_addr[n] = root_addr[m]
  BY SteadyLink
<1>1. u.root_address = root_addr[n] /\ u.path_length = path_len[m] /\ u.node_address = m
  BY <1>0, CurrentIs
<1>2. root_addr[n] \in Nat /\ next_hop[n] \in Nat /\ m \in Nat
  BY <1>0, NodeAssumption DEF IInv, TypeOK, NodeTypeOK
<1>3. path_len[n] <= path_len[m] + 1
  BY SteadyPaths
<1>4. ~LowerRoot(n, u) /\ ~ShorterPath(n, u)
  BY <1>0, <1>1, <1>2, <1>3 DEF LowerRoot, ShorterPath
<1>5. ASSUME LowerParent(n, u) PROVE FALSE
  <2>1. path_len[m] + 1 = path_len[n] /\ m < next_hop[n]
    BY <1>1, <1>5 DEF LowerParent
  <2>2. root_addr[n] # n
    BY <1>0, <2>1 DEF Steady, CorrectVectors
  <2>3. /\ next_hop[n] \in Up(n) /\ path_len[n] = path_len[next_hop[n]] + 1
        /\ \/ path_len[next_hop[n]] < path_len[m]
           \/ path_len[next_hop[n]] = path_len[m] /\ next_hop[n] <= m
    BY <1>0, <2>2 DEF Steady, CorrectVectors
  <2>4. path_len[next_hop[n]] \in Nat
    BY <2>3, SteadyLink DEF Up
  <2> QED
    BY <1>0, <1>2, <2>1, <2>3, <2>4
<1> QED
  BY <1>4, <1>5 DEF Better

\* No node changes its vector, no other vector is sent, and a port that changes is
\* set on its neighbour's vector.
Stands ==
  /\ UNCHANGED <<link_states, changing, nodeVars, discovered>>
  /\ \A d \in Node : \A s \in link_states[d] :
       /\ Only(rx'[d][s], Current(s))
       /\ (s \in neighbors_blocked'[d] <=> s \in neighbors_blocked[d]) \/ Judged(d, s)'

\* No FLOOD is sent or read either.
Hums ==
  /\ Stands
  /\ UNCHANGED <<delivered, expected>>
  /\ \A d \in Node : \A s \in link_states[d] :
       /\ HasFlood(rx'[d][s]) <=> HasFlood(rx[d][s])
       /\ OneFlood(rx[d][s]) => OneFlood(rx'[d][s])

\* What becomes of the ports.
LEMMA StandingPorts ==
  ASSUME IInv, Links, Steady, Stands, NEW n \in Node, NEW m \in link_states[n]
  PROVE  /\ TreeLink(n, m) => m \in Open(n)'
         /\ ~TreeLink(n, m) /\ m \in Open(n)' => m \in Open(n) \/ path_len[m] = path_len[n] + 1
<1>0. /\ m \in Node /\ m # n /\ n \in link_states[m] /\ m \in Neighbor[n]
      /\ m \in Open(n) <=> m \notin neighbors_blocked[n]
      /\ root_addr[n] = root_addr[m]
  BY SteadyLink, LinkedAre
<1>1. m \in Open(n)' <=> m \notin neighbors_blocked'[n]
  BY <1>0 DEF Open
<1>2. root_addr' = root_addr /\ path_len' = path_len /\ next_hop' = next_hop
  BY DEF Stands, nodeVars
<1>3. IsParent(n, m) => path_len[m] = path_len[n] + 1
  BY <1>0, SteadyPaths
<1>4. TreeLink(n, m) => m \in Open(n)
  BY SteadyPorts
<1>5. CASE m \in neighbors_blocked'[n] <=> m \in neighbors_blocked[n]
  BY <1>0, <1>1, <1>4, <1>5
<1>6. CASE Judged(n, m)'
  <2>1. m \in Open(n)' <=> m = next_hop[n] \/ path_len[m] = path_len[n] + 1
    BY <1>0, <1>1, <1>2, <1>6 DEF Judged
  <2> QED
    BY <1>0, <1>3, <2>1 DEF TreeLink, IsParent
<1> QED
  BY <1>5, <1>6 DEF Stands

\* The tree stands after the step.
LEMMA StandingSteady ==
  ASSUME IInv, Links, Steady, Stands
  PROVE  Steady'
<1>0. /\ link_states' = link_states /\ changing' = changing /\ discovered' = discovered
      /\ root_addr' = root_addr /\ path_len' = path_len /\ next_hop' = next_hop
  BY DEF Stands, nodeVars
<1>1. \A n \in Node : Up(n)' = Up(n)
  BY <1>0 DEF Up
<1>2. CorrectVectors'
  BY <1>0, <1>1 DEF Steady, CorrectVectors
<1>3. ASSUME NEW n \in Node, NEW m \in link_states[n], path_len[n] = path_len[m] + 1, next_hop[n] # m
      PROVE  m \notin Open(n)'
  <2>1. /\ m \in Node /\ m # n /\ n \in link_states[m]
        /\ path_len[n] \in Nat /\ path_len[m] \in Nat
    BY SteadyLink
  <2>2. ~TreeLink(n, m)
    <3>1. IsParent(n, m) => path_len[m] = path_len[n] + 1
      BY <2>1, SteadyPaths
    <3> QED
      BY <1>3, <2>1, <3>1 DEF TreeLink, IsParent
  <2>3. m \notin Open(n) /\ path_len[m] # path_len[n] + 1
    BY <1>3, <2>1 DEF Steady
  <2> QED
    BY <2>2, <2>3, StandingPorts
<1>4. ASSUME NEW n \in Node, NEW m \in Up(n)
      PROVE  (m \in Open(n)' /\ n \in Open(m)') <=> TreeLink(n, m)
  <2>1. m \in link_states[n]
    BY DEF Up
  <2>2. /\ m \in Node /\ m # n /\ n \in link_states[m]
        /\ path_len[n] \in Nat /\ path_len[m] \in Nat
    BY <2>1, SteadyLink
  <2>3. TreeLink(n, m) <=> TreeLink(m, n)
    BY DEF TreeLink
  <2>4. CASE TreeLink(n, m)
    BY <2>1, <2>2, <2>3, <2>4, StandingPorts
  <2>5. CASE ~TreeLink(n, m)
    <3> SUFFICES ASSUME m \in Open(n)', n \in Open(m)' PROVE FALSE
      BY <2>5
    <3>1. next_hop[n] # m /\ next_hop[m] # n
      BY <2>2, <2>5 DEF TreeLink, IsParent
    <3>2. path_len[n] # path_len[m] + 1 /\ path_len[m] # path_len[n] + 1
      BY <1>3, <2>1, <2>2, <3>1
    <3>3. m \in Open(n) /\ n \in Open(m)
      BY <2>1, <2>2, <2>3, <2>5, <3>2, StandingPorts
    <3> QED
      BY <2>1, <2>5, <3>3, SteadyPorts
  <2> QED
    BY <2>4, <2>5
<1>5. ForwardingTree'
  BY <1>0, <1>1, <1>4 DEF ForwardingTree, TreeLink, IsParent
<1>6. ASSUME NEW n \in Node, NEW m \in link_states[n]
      PROVE  m \in discovered[n] /\ Only(rx'[n][m], Current(m)')
  BY <1>0 DEF Steady, Stands, Current
<1> QED
  BY <1>0, <1>2, <1>3, <1>5, <1>6 DEF Steady

\* A step that neither sends nor reads a FLOOD leaves the wave as it is.
LEMMA HummingWave ==
  ASSUME IInv, Links, Steady, Hums, NEW W, NEW C, NEW t, Wave(W, C, t)
  PROVE  Wave(W, C, t)'
<1>0. /\ link_states' = link_states /\ delivered' = delivered /\ expected' = expected
      /\ root_addr' = root_addr /\ path_len' = path_len /\ next_hop' = next_hop
  BY DEF Hums, Stands, nodeVars
<1>1. Region(W, C, t)'
  BY <1>0 DEF Wave, Region
<1>2. Counted(W, C)'
  BY <1>0 DEF Wave, Counted
<1>3. \A x, y : TreeLink(x, y)' <=> TreeLink(x, y)
  BY <1>0 DEF TreeLink, IsParent
<1>4. \A d \in Node : \A s \in link_states[d] :
        /\ HasFlood(rx'[d][s]) <=> HasFlood(rx[d][s])
        /\ OneFlood(rx[d][s]) => OneFlood(rx'[d][s])
  BY DEF Hums
<1>5. Underway(W)'
  <2> SUFFICES ASSUME NEW d \in Node, NEW s \in link_states[d], HasFlood(rx'[d][s])
               PROVE  /\ s \in W /\ OneFlood(rx'[d][s])
                      /\ IF TreeLink(d, s) THEN d \notin W
                         ELSE s \notin Open(d)' /\ path_len[s] # path_len[d] + 1
    BY <1>0, <1>3 DEF Underway
  <2>1. /\ s \in W /\ OneFlood(rx[d][s])
        /\ IF TreeLink(d, s) THEN d \notin W
           ELSE s \notin Open(d) /\ path_len[s] # path_len[d] + 1
    BY <1>4 DEF Wave, Underway
  <2> QED
    BY <1>4, <2>1, StandingPorts DEF Hums
<1>6. Front(W)'
  <2> SUFFICES ASSUME NEW n \in W, NEW m \in link_states[n], TreeLink(n, m), m \notin W
               PROVE  HasFlood(rx'[m][n])
    BY <1>0, <1>3 DEF Front
  <2>1. n \in Node
    BY DEF Wave, Region
  <2>2. m \in Node /\ n \in link_states[m]
    BY <2>1, SteadyLink
  <2>3. HasFlood(rx[m][n])
    BY DEF Wave, Front
  <2> QED
    BY <1>4, <2>2, <2>3
<1> QED
  BY <1>1, <1>2, <1>5, <1>6 DEF Wave

\* So the FLOOD is still on its way as it should be.
LEMMA HummingKeeps ==
  ASSUME IInv, Links, Flooding, Hums
  PROVE  Flooding'
<1>1. PICK W \in SUBSET Node, C \in SUBSET Node, t \in Node : Wave(W, C, t)
  BY DEF Flooding
<1>2. Steady /\ Stands
  BY DEF Flooding, Hums
<1>3. Steady'
  BY <1>2, StandingSteady
<1>4. Wave(W, C, t)'
  BY <1>1, <1>2, HummingWave
<1> QED
  BY <1>3, <1>4 DEF Flooding

\* Under a FLOOD, sending a vector changes nothing, nor does reading one.
LEMMA SpeakingHums ==
  ASSUME IInv, Links, Steady, NEW n \in Node, Speaks(n),
         UNCHANGED <<nodeVars, neighbors_blocked, delivered, expected>>
  PROVE  Hums
<1>0. /\ UNCHANGED <<link_states, changing, discovered>>
      /\ \A s \in Node : Current(s)' = Current(s)
  BY DEF Speaks, nodeVars, Current
<1>1. ASSUME NEW d \in Node, NEW s \in link_states[d]
      PROVE  /\ HasFlood(rx'[d][s]) <=> HasFlood(rx[d][s])
             /\ OneFlood(rx[d][s]) => OneFlood(rx'[d][s])
             /\ Only(rx'[d][s], Current(s))
  <2>1. s \in Node
    BY LinkedAre
  <2>2. /\ rx[d][s] \in Seq(Packet) /\ Only(rx[d][s], Current(s))
        /\ Current(s) \in Packet /\ Current(s) # FloodPacket
    BY <2>1, QueuesAre DEF Steady
  <2>3. \/ rx'[d][s] = rx[d][s]
        \/ rx'[d][s] = Append(rx[d][s], Current(s))
        \/ rx[d][s] # <<>> /\ Head(rx[d][s]) # FloodPacket /\ rx'[d][s] = Tail(rx[d][s])
    BY <1>0, <2>1 DEF Speaks
  <2>4. CASE rx'[d][s] = Append(rx[d][s], Current(s))
    BY <2>2, <2>4, VectorAppended
  <2>5. CASE rx[d][s] # <<>> /\ Head(rx[d][s]) # FloodPacket /\ rx'[d][s] = Tail(rx[d][s])
    BY <2>2, <2>5, VectorRemoved
  <2> QED
    BY <2>2, <2>3, <2>4, <2>5
<1> QED
  BY <1>0, <1>1 DEF Hums, Stands

\* A node on the tree that stands keeps its parent.
LEMMA KeepingHums ==
  ASSUME IInv, Links, Steady, NEW n \in Node, NEW m \in Node, KeepParent(n, m)
  PROVE  Hums
<1>1. /\ UNCHANGED <<link_states, changing, nodeVars, discovered, delivered, expected>>
      /\ m \in link_states[n] /\ m \in discovered[n]
      /\ rx[n][m] # <<>> /\ Head(rx[n][m]) # FloodPacket /\ rx'[n][m] = Tail(rx[n][m])
      /\ Head(rx[n][m]) = Current(m) => Judged(n, m)'
      /\ \A d \in Node : \A s \in link_states[d] :
           (d = n /\ s = m) \/ (rx'[d][s] = rx[d][s] /\ SamePort(d, s))
  BY KeepParentReads
<1>2. rx[n][m] \in Seq(Packet) /\ Only(rx[n][m], Current(m))
  BY <1>1, QueuesAre DEF Steady
<1>3. /\ HasFlood(rx'[n][m]) <=> HasFlood(rx[n][m])
      /\ OneFlood(rx[n][m]) => OneFlood(rx'[n][m])
      /\ Only(rx'[n][m], Current(m))
      /\ Head(rx[n][m]) = Current(m)
  BY <1>1, <1>2, VectorRemoved
<1>4. ASSUME NEW d \in Node, NEW s \in link_states[d]
      PROVE  /\ HasFlood(rx'[d][s]) <=> HasFlood(rx[d][s])
             /\ OneFlood(rx[d][s]) => OneFlood(rx'[d][s])
             /\ Only(rx'[d][s], Current(s))
             /\ (s \in neighbors_blocked'[d] <=> s \in neighbors_blocked[d]) \/ Judged(d, s)'
  <2>1. CASE d = n /\ s = m
    BY <1>1, <1>3, <2>1
  <2>2. CASE ~(d = n /\ s = m)
    BY <1>1, <2>2 DEF SamePort, Steady
  <2> QED
    BY <2>1, <2>2
<1> QED
  BY <1>1, <1>4 DEF Hums, Stands

\* Time passes.
LEMMA IdlingHums ==
  ASSUME Links, Steady, Tick \/ EndChanges \/ UNCHANGED vars
  PROVE  Hums
  BY IdleSteps DEF Hums, Stands, portVars, Steady

\* A FLOOD read at a blocked port was not on the tree.
LEMMA DroppingKeeps ==
  ASSUME IInv, Links, Steady, NEW n \in Node, NEW m \in Node, DropFlood(n, m),
         NEW W, NEW C, NEW t, Wave(W, C, t)
  PROVE  Steady' /\ Wave(W, C, t)'
<1>0. /\ link_states' = link_states /\ delivered' = delivered /\ expected' = expected
      /\ root_addr' = root_addr /\ path_len' = path_len /\ next_hop' = next_hop
      /\ discovered' = discovered /\ neighbors_blocked' = neighbors_blocked /\ changing' = changing
  BY DEF DropFlood, nodeVars, portVars, linkVars, driverVars
<1>1. /\ m \in link_states[n] /\ rx[n][m] # <<>> /\ Head(rx[n][m]) = FloodPacket
      /\ \A d \in Node : \A s \in link_states[d] :
           rx'[d][s] = IF d = n /\ s = m THEN Tail(rx[d][s]) ELSE rx[d][s]
  BY DropFloodReads
<1>2. /\ rx[n][m] \in Seq(Packet) /\ HasFlood(rx[n][m])
      /\ OneFlood(rx[n][m]) => ~HasFlood(Tail(rx[n][m]))
      /\ \A v : Only(rx[n][m], v) => Only(Tail(rx[n][m]), v)
  BY <1>1, QueuesAre, FloodRemoved
<1>3. OneFlood(rx[n][m])
  BY <1>1, <1>2 DEF Wave, Underway
<1>4. ~TreeLink(n, m)
  BY <1>1, SteadyPorts DEF DropFlood
<1>5. \A x, y : TreeLink(x, y)' <=> TreeLink(x, y)
  BY <1>0 DEF TreeLink, IsParent
<1>6. \A x \in Node : Open(x)' = Open(x) /\ Up(x)' = Up(x)
  BY <1>0 DEF Open, Up
<1>7. Steady'
  <2>1. ASSUME NEW d \in Node, NEW s \in link_states[d] PROVE Only(rx'[d][s], Current(s))
    <3>1. Only(rx[d][s], Current(s))
      BY DEF Steady
    <3> QED
      BY <1>1, <1>2, <3>1
  <2>2. Stands
    BY <1>0, <2>1 DEF Stands, nodeVars
  <2> QED
    BY <2>2, StandingSteady
<1>8. Region(W, C, t)' /\ Counted(W, C)'
  BY <1>0 DEF Wave, Region, Counted
<1>9. Underway(W)'
  <2> SUFFICES ASSUME NEW d \in Node, NEW s \in link_states[d], HasFlood(rx'[d][s])
               PROVE  /\ s \in W /\ OneFlood(rx'[d][s])
                      /\ IF TreeLink(d, s) THEN d \notin W
                         ELSE s \notin Open(d) /\ path_len[s] # path_len[d] + 1
    BY <1>0, <1>5, <1>6 DEF Underway
  <2>1. rx'[d][s] = rx[d][s]
    BY <1>1, <1>2, <1>3
  <2> QED
    BY <2>1 DEF Wave, Underway
<1>10. Front(W)'
  <2> SUFFICES ASSUME NEW x \in W, NEW y \in link_states[x], TreeLink(x, y), y \notin W
               PROVE  HasFlood(rx'[y][x])
    BY <1>0, <1>5 DEF Front
  <2>1. x \in Node
    BY DEF Wave, Region
  <2>2. y \in Node /\ x \in link_states[y] /\ HasFlood(rx[y][x])
    BY <2>1, SteadyLink DEF Wave, Front
  <2>3. ~(y = n /\ x = m)
    BY <1>4 DEF TreeLink
  <2> QED
    BY <1>1, <2>1, <2>2, <2>3
<1> QED
  BY <1>7, <1>8, <1>9, <1>10 DEF Wave

\* When no FLOOD is on its way, the wave has reached everyone: the node of W nearest to
\* the root is the root, and a node of C nearest to the root among those not in W would
\* have its parent in W.
LEMMA WaveSpent ==
  ASSUME IInv, Links, Steady, NEW W, NEW C, NEW t, Wave(W, C, t), ~FloodPending
  PROVE  delivered = expected
<1>0. \A d \in Node : \A s \in link_states[d] : ~HasFlood(rx[d][s])
  BY PendingIs
<1>1. /\ t \in W /\ W \subseteq C /\ C \subseteq Node
      /\ \A x \in C : link_states[x] \subseteq C
      /\ \A x, y \in C : root_addr[x] = root_addr[y]
      /\ \A v \in W : path_len[t] <= path_len[v]
  BY DEF Wave, Region
<1>2. ASSUME NEW x \in W, NEW y \in link_states[x], TreeLink(x, y) PROVE y \in W
  <2>1. x \in Node
    BY <1>1
  <2>2. y \in Node /\ x \in link_states[y]
    BY <2>1, SteadyLink
  <2> QED
    BY <1>0, <1>2, <2>2 DEF Wave, Front
<1>3. ASSUME NEW x \in Node, root_addr[x] # x
      PROVE  /\ next_hop[x] \in link_states[x] /\ next_hop[x] \in Node /\ x \in link_states[next_hop[x]]
             /\ TreeLink(x, next_hop[x]) /\ TreeLink(next_hop[x], x)
             /\ path_len[x] = path_len[next_hop[x]] + 1
             /\ path_len[x] \in Nat /\ path_len[next_hop[x]] \in Nat
  <2>1. next_hop[x] \in Up(x) /\ path_len[x] = path_len[next_hop[x]] + 1
    BY <1>3 DEF Steady, CorrectVectors
  <2>2. next_hop[x] \in link_states[x]
    BY <2>1 DEF Up
  <2>3. /\ next_hop[x] \in Node /\ next_hop[x] # x /\ x \in link_states[next_hop[x]]
        /\ path_len[x] \in Nat /\ path_len[next_hop[x]] \in Nat
    BY <2>2, SteadyLink
  <2> QED
    BY <2>1, <2>2, <2>3 DEF TreeLink, IsParent
<1>4. root_addr[t] = t
  <2> SUFFICES ASSUME root_addr[t] # t PROVE FALSE
    OBVIOUS
  <2>1. t \in Node
    BY <1>1
  <2>2. next_hop[t] \in W
    BY <1>1, <1>2, <1>3, <2>1
  <2>3. path_len[t] <= path_len[next_hop[t]]
    BY <1>1, <2>2
  <2> QED
    BY <1>3, <2>1, <2>3
<1>5. C \ W = {}
  <2> SUFFICES ASSUME C \ W # {} PROVE FALSE
    OBVIOUS
  <2> DEFINE S == C \ W
  <2> DEFINE f == [x \in S |-> path_len[x]]
  <2>1. f \in [S -> Nat]
    BY <1>1 DEF IInv, TypeOK, NodeTypeOK
  <2>2. PICK x \in S : \A y \in S : f[x] <= f[y]
    <3> HIDE DEF f, S
    <3>1. S # {}
      BY DEF S
    <3> QED
      BY <2>1, <3>1, NearestNode
  <2>3. x \in Node /\ x \in C /\ x \notin W /\ root_addr[x] = t /\ x # t
    BY <1>1, <1>4
  <2>4. root_addr[x] # x
    BY <2>3
  <2>5. PICK p \in Node : p = next_hop[x]
    BY <1>3, <2>3, <2>4
  <2>6. /\ p \in link_states[x] /\ x \in link_states[p] /\ TreeLink(p, x)
        /\ path_len[x] = path_len[p] + 1 /\ path_len[x] \in Nat /\ path_len[p] \in Nat
    BY <1>3, <2>3, <2>4, <2>5
  <2>7. p \in C
    BY <1>1, <2>3, <2>6
  <2>8. p \in W
    BY <2>2, <2>6, <2>7
  <2> QED
    BY <1>2, <2>3, <2>6, <2>8
<1>6. \A n \in Node : expected[n] = delivered[n]
  BY <1>5 DEF Wave, Counted
<1> QED
  BY <1>6 DEF IInv, TypeOK, DriverTypeOK

\* A node the FLOOD has not been at hears of it over one link of the tree only.
LEMMA OneWayIn ==
  ASSUME IInv, Links, Steady, NEW W, NEW C, NEW t, Region(W, C, t),
         NEW n \in Node, n \notin W,
         NEW x \in W, x \in link_states[n], TreeLink(n, x),
         NEW y \in W, y \in link_states[n], TreeLink(n, y)
  PROVE  x = y
<1>1. ASSUME NEW v \in W, IsParent(n, v) PROVE v = t
  BY <1>1 DEF Region, IsParent
<1>2. ASSUME NEW v \in W, NEW w \in W, v \in link_states[n], w \in link_states[n],
             IsParent(n, v), IsParent(w, n)
      PROVE  FALSE
  <2>1. v = t
    BY <1>1, <1>2
  <2>2. /\ v \in Node /\ n \in link_states[v] /\ path_len[n] \in Nat /\ path_len[v] \in Nat
        /\ path_len[w] \in Nat
    BY <1>2, SteadyLink
  <2>3. path_len[v] = path_len[n] + 1
    BY <1>2, <2>2, SteadyPaths
  <2>4. path_len[n] = path_len[w] + 1
    BY <1>2, SteadyPaths
  <2>5. path_len[v] <= path_len[w]
    BY <2>1 DEF Region
  <2> QED
    BY <2>2, <2>3, <2>4, <2>5
<1>3. CASE IsParent(n, x) /\ IsParent(n, y)
  BY <1>1, <1>3
<1>4. CASE IsParent(x, n) /\ IsParent(y, n)
  BY <1>4 DEF IsParent
<1> QED
  BY <1>2, <1>3, <1>4 DEF TreeLink

\* A FLOOD read at an open port has come over the tree to a new node, which sends it
\* on to its other links of the tree.
LEMMA ForwardingKeeps ==
  ASSUME IInv, Links, Steady, NEW n \in Node, NEW m \in Node, ForwardFlood(n, m),
         NEW W \in SUBSET Node, NEW C \in SUBSET Node, NEW t \in Node, Wave(W, C, t)
  PROVE  Flooding'
<1> DEFINE V == W \cup {n}
<1>u. PICK u \in Node : u = IF IsParent(n, m) THEN n ELSE t
  OBVIOUS
<1>0. /\ link_states' = link_states /\ expected' = expected
      /\ root_addr' = root_addr /\ path_len' = path_len /\ next_hop' = next_hop
      /\ discovered' = discovered /\ neighbors_blocked' = neighbors_blocked /\ changing' = changing
  BY DEF ForwardFlood, nodeVars, portVars, linkVars
<1>1. /\ m \in link_states[n] /\ rx[n][m] # <<>> /\ Head(rx[n][m]) = FloodPacket
      /\ \A d \in Node : \A s \in link_states[d] :
           rx'[d][s] = IF s = n /\ d \in Open(n) \ {m} THEN Append(rx[d][s], FloodPacket)
                       ELSE IF d = n /\ s = m THEN Tail(rx[d][s]) ELSE rx[d][s]
  BY ForwardFloodReads
<1>2. /\ rx[n][m] \in Seq(Packet) /\ HasFlood(rx[n][m])
      /\ OneFlood(rx[n][m]) => ~HasFlood(Tail(rx[n][m]))
      /\ \A v : Only(rx[n][m], v) => Only(Tail(rx[n][m]), v)
  BY <1>1, QueuesAre, FloodRemoved
<1>3. m \in W /\ OneFlood(rx[n][m]) /\ TreeLink(n, m) /\ n \notin W
  <2>1. m \in Open(n)
    BY DEF ForwardFlood
  <2> QED
    BY <1>1, <1>2, <2>1 DEF Wave, Underway
<1>4. /\ n \in link_states[m] /\ m # n /\ path_len[n] \in Nat /\ path_len[m] \in Nat
      /\ IsParent(n, m) => path_len[m] = path_len[n] + 1 /\ root_addr[m] # m
      /\ IsParent(m, n) => path_len[n] = path_len[m] + 1 /\ root_addr[n] # n
  <2>1. n \in link_states[m] /\ m # n /\ path_len[n] \in Nat /\ path_len[m] \in Nat
    BY <1>1, SteadyLink
  <2> QED
    BY <1>1, <2>1, SteadyPaths
<1>5. /\ t \in W /\ W \subseteq C
      /\ \A x \in C : link_states[x] \subseteq C
      /\ \A x, y \in C : root_addr[x] = root_addr[y]
      /\ \A v \in W : v = t \/ (root_addr[v] # v /\ next_hop[v] \in W)
      /\ \A v \in W : path_len[t] <= path_len[v]
      /\ Region(W, C, t)
  BY DEF Wave, Region
<1>6. n \in C
  BY <1>3, <1>4, <1>5
<1>7. \A v \in W : path_len[v] \in Nat
  BY DEF IInv, TypeOK, NodeTypeOK
<1>8. /\ u \in V
      /\ \A v \in V : v = u \/ (root_addr[v] # v /\ next_hop[v] \in V)
      /\ \A v \in V : path_len[u] <= path_len[v]
  <2>1. CASE IsParent(n, m)
    <3>1. next_hop[m] = n /\ u = n
      BY <1>u, <2>1 DEF IsParent
    <3>2. m = t
      BY <1>3, <1>5, <3>1
    <3>3. ASSUME NEW v \in V PROVE v = u \/ (root_addr[v] # v /\ next_hop[v] \in V)
      BY <1>4, <1>5, <2>1, <3>1, <3>2
    <3>4. ASSUME NEW v \in W PROVE path_len[n] <= path_len[v]
      <4>1. path_len[m] <= path_len[v] /\ path_len[v] \in Nat
        BY <1>5, <1>7, <3>2
      <4> QED
        BY <1>4, <2>1, <4>1
    <3> QED
      BY <1>4, <3>1, <3>3, <3>4
  <2>2. CASE ~IsParent(n, m)
    <3>1. IsParent(m, n) /\ u = t
      BY <1>u, <1>3, <2>2 DEF TreeLink
    <3>2. next_hop[n] = m /\ root_addr[n] # n /\ path_len[n] = path_len[m] + 1
      BY <1>4, <3>1 DEF IsParent
    <3>3. path_len[t] <= path_len[m] /\ path_len[t] \in Nat
      BY <1>3, <1>5, <1>7
    <3>4. path_len[t] <= path_len[n]
      BY <1>4, <3>2, <3>3
    <3> QED
      BY <1>3, <1>5, <3>1, <3>2, <3>4
  <2> QED
    BY <2>1, <2>2
<1>9. Region(V, C, u)'
  BY <1>0, <1>5, <1>6, <1>8 DEF Region
<1>10. Counted(V, C)'
  <2> SUFFICES ASSUME NEW k \in Node
               PROVE  expected[k] = IF k \in C \ V THEN delivered'[k] + 1 ELSE delivered'[k]
    BY <1>0 DEF Counted
  <2>1. expected[k] = IF k \in C \ W THEN delivered[k] + 1 ELSE delivered[k]
    BY DEF Wave, Counted
  <2>2. delivered'[k] = IF k = n THEN delivered[k] + 1 ELSE delivered[k]
    BY DEF ForwardFlood, IInv, TypeOK, DriverTypeOK
  <2> QED
    BY <1>3, <1>6, <2>1, <2>2
<1>11. \A x, y : TreeLink(x, y)' <=> TreeLink(x, y)
  BY <1>0 DEF TreeLink, IsParent
<1>12. ASSUME NEW y \in W, y \in link_states[n], TreeLink(n, y) PROVE y = m
  BY <1>1, <1>3, <1>5, <1>12, OneWayIn
<1>13. \A x, y : TreeLink(x, y) <=> TreeLink(y, x)
  BY DEF TreeLink
<1>14. Underway(V)'
  <2> SUFFICES ASSUME NEW d \in Node, NEW s \in link_states[d], HasFlood(rx'[d][s])
               PROVE  /\ s \in V /\ OneFlood(rx'[d][s])
                      /\ IF TreeLink(d, s) THEN d \notin V
                         ELSE s \notin Open(d) /\ path_len[s] # path_len[d] + 1
    BY <1>0, <1>11 DEF Underway, Open
  <2>0. s \in Node /\ s # d /\ d \in link_states[s] /\ rx[d][s] \in Seq(Packet)
    BY SteadyLink, QueuesAre
  <2>1. HasFlood(rx[d][s]) =>
          /\ s \in W /\ OneFlood(rx[d][s])
          /\ IF TreeLink(d, s) THEN d \notin W
             ELSE s \notin Open(d) /\ path_len[s] # path_len[d] + 1
    BY DEF Wave, Underway
  <2>2. CASE s = n /\ d \in Open(n) \ {m}
    <3>1. rx'[d][s] = Append(rx[d][s], FloodPacket) /\ ~HasFlood(rx[d][s])
      BY <1>1, <1>3, <2>1, <2>2
    <3>2. OneFlood(rx'[d][s])
      BY <2>0, <3>1, FloodAppended
    <3>3. CASE TreeLink(d, s)
      <4>1. d \notin W
        BY <1>12, <1>13, <2>0, <2>2, <3>3
      <4> QED
        BY <2>0, <2>2, <3>2, <3>3, <4>1
    <3>4. CASE ~TreeLink(d, s)
      <4>1. d \in link_states[n] /\ ~TreeLink(n, d) /\ d \in Open(n)
        BY <1>13, <2>0, <2>2, <3>4
      <4>2. n \notin Open(d) /\ path_len[n] # path_len[d] + 1
        BY <4>1, SteadyPorts
      <4> QED
        BY <2>2, <3>2, <3>4, <4>2
    <3> QED
      BY <3>3, <3>4
  <2>3. CASE ~(s = n /\ d \in Open(n) \ {m})
    <3>1. ~(d = n /\ s = m)
      BY <1>1, <1>2, <1>3, <2>3
    <3>2. rx'[d][s] = rx[d][s]
      BY <1>1, <2>3, <3>1
    <3>3. TreeLink(d, s) => d # n
      BY <1>12, <2>1, <3>1, <3>2
    <3> QED
      BY <2>1, <3>2, <3>3
  <2> QED
    BY <2>2, <2>3
<1>15. Front(V)'
  <2> SUFFICES ASSUME NEW x \in V, NEW y \in link_states[x], TreeLink(x, y), y \notin V
               PROVE  HasFlood(rx'[y][x])
    BY <1>0, <1>11 DEF Front
  <2>0. x \in Node
    OBVIOUS
  <2>1. y \in Node /\ x \in link_states[y] /\ y # x /\ rx[y][x] \in Seq(Packet)
    BY <2>0, SteadyLink, QueuesAre
  <2>2. CASE x = n
    <3>1. y \in Open(n) /\ y # m
      BY <1>3, <2>2, SteadyPorts
    <3>2. rx'[y][x] = Append(rx[y][x], FloodPacket)
      BY <1>1, <2>1, <2>2, <3>1
    <3> QED
      BY <2>1, <3>2, FloodAppended
  <2>3. CASE x # n
    <3>1. rx'[y][x] = rx[y][x]
      BY <1>1, <2>1, <2>3
    <3>2. HasFlood(rx[y][x])
      BY <2>3 DEF Wave, Front
    <3> QED
      BY <3>1, <3>2
  <2> QED
    BY <2>2, <2>3
<1>16. Steady'
  <2>1. ASSUME NEW d \in Node, NEW s \in link_states[d] PROVE Only(rx'[d][s], Current(s))
    <3>0. s \in Node
      BY SteadyLink
    <3>1. rx[d][s] \in Seq(Packet) /\ Only(rx[d][s], Current(s))
      BY <3>0, QueuesAre DEF Steady
    <3>2. CASE rx'[d][s] = Append(rx[d][s], FloodPacket)
      BY <3>1, <3>2, FloodAppended
    <3>3. CASE d = n /\ s = m /\ rx'[d][s] = Tail(rx[d][s])
      BY <1>2, <3>1, <3>3
    <3>4. CASE rx'[d][s] = rx[d][s]
      BY <3>1, <3>4
    <3>5. \/ rx'[d][s] = Append(rx[d][s], FloodPacket)
          \/ d = n /\ s = m /\ rx'[d][s] = Tail(rx[d][s])
          \/ rx'[d][s] = rx[d][s]
      BY <1>1
    <3> QED
      BY <3>2, <3>3, <3>4, <3>5
  <2>2. Stands
    BY <1>0, <2>1 DEF Stands, nodeVars
  <2> QED
    BY <2>2, StandingSteady
<1>17. Wave(V, C, u)' /\ V \in SUBSET Node
  BY <1>9, <1>10, <1>14, <1>15 DEF Wave
<1> HIDE DEF V
<1> QED
  BY <1>16, <1>17 DEF Flooding

\* When the test case has waited and floods, the tree stands.  Which of the ports
\* on other links are blocked follows from who has set its port last (Seen): the
\* goal of the election tells only that they are not open at both ends.
LEMMA SettledIsSteady ==
  ASSUME IInv, LInv, changing = NoChange, Converged, Quiet
  PROVE  Steady
<1>0. Links /\ Greeted /\ Seen /\ CorrectVectors /\ ForwardingTree
  BY DEF LInv, Converged
<1>1. ASSUME NEW n \in Node, NEW m \in link_states[n]
      PROVE  /\ m \in Node /\ m # n /\ m \in Neighbor[n] /\ n \in Neighbor[m] /\ n \in link_states[m]
             /\ m \in Up(n) /\ n \in Up(m)
             /\ rx[n][m] = <<>> /\ rx[m][n] = <<>>
  <2>1. m \in Node /\ m # n /\ m \in Neighbor[n] /\ n \in Neighbor[m]
    BY <1>0, LinkedAre
  <2>2. n \in link_states[m]
    <3> SUFFICES ASSUME n \notin link_states[m] PROVE FALSE
      OBVIOUS
    <3>1. changing = <<m, n, FALSE>>
      BY <1>0, <2>1 DEF Links
    <3> QED
      BY <3>1 DEF NoChange
  <2> QED
    BY <2>1, <2>2 DEF Up, Quiet
<1>2. ASSUME NEW n \in Node, NEW m \in link_states[n]
      PROVE  m \in discovered[n] /\ Only(rx[n][m], Current(m))
  BY <1>0, <1>1 DEF Greeted, Only
<1>3. ASSUME NEW n \in Node, NEW m \in link_states[n],
             path_len[n] = path_len[m] + 1, next_hop[n] # m
      PROVE  m \notin Open(n)
  <2>0. /\ path_len[n] \in Nat /\ path_len[m] \in Nat
        /\ root_addr[n] = root_addr[m]
        /\ m \in Open(n) <=> m \notin neighbors_blocked[n]
        /\ n \in Open(m) <=> n \notin neighbors_blocked[m]
    BY <1>0, <1>1 DEF IInv, TypeOK, NodeTypeOK, Open, CorrectVectors
  <2>1. root_addr[n] # n
    BY <1>0, <1>3, <2>0 DEF CorrectVectors
  <2>2. PICK p \in Node : p = next_hop[n] /\ p \in Up(n) /\ path_len[n] = path_len[p] + 1
    <3>1. next_hop[n] \in Up(n) /\ path_len[n] = path_len[next_hop[n]] + 1
      BY <1>0, <2>1 DEF CorrectVectors
    <3>2. next_hop[n] \in Node
      BY <1>1, <3>1 DEF Up
    <3> QED
      BY <3>1, <3>2
  <2>3. root_addr[p] = root_addr[n] /\ path_len[p] \in Nat
    BY <1>0, <2>2 DEF CorrectVectors, IInv, TypeOK, NodeTypeOK
  <2>4. root_addr[m] # m
    <3> SUFFICES ASSUME root_addr[m] = m PROVE FALSE
      OBVIOUS
    <3>1. path_len[m] = 0
      BY <1>0, <1>1 DEF CorrectVectors
    <3>2. path_len[p] = 0
      BY <1>3, <2>0, <2>2, <2>3, <3>1
    <3>3. root_addr[p] = p
      <4> SUFFICES ASSUME root_addr[p] # p PROVE FALSE
        OBVIOUS
      <4>1. next_hop[p] \in Up(p) /\ path_len[p] = path_len[next_hop[p]] + 1
        BY <1>0 DEF CorrectVectors
      <4>2. next_hop[p] \in Node
        BY <1>1, <4>1 DEF Up
      <4>3. path_len[next_hop[p]] \in Nat
        BY <4>2 DEF IInv, TypeOK, NodeTypeOK
      <4> QED
        BY <3>2, <4>1, <4>3
    <3> QED
      BY <1>3, <2>0, <2>2, <2>3, <3>3
  <2>5. ~HasVector(rx[n][m]) /\ ~HasVector(rx[m][n])
    BY <1>1 DEF HasVector
  <2>6. Judged(n, m) \/ Judged(m, n)
    BY <1>0, <1>1, <2>1, <2>4, <2>5 DEF Seen, Noted
  <2>7. CASE Judged(n, m)
    BY <1>3, <2>0, <2>7 DEF Judged
  <2>8. CASE Judged(m, n)
    <3>1. n \in Open(m)
      BY <1>3, <2>0, <2>8 DEF Judged
    <3>2. ~IsParent(n, m)
      <4> SUFFICES ASSUME next_hop[m] = n PROVE FALSE
        BY DEF IsParent
      <4>1. path_len[m] = path_len[n] + 1
        BY <1>0, <1>1, <2>4 DEF CorrectVectors
      <4> QED
        BY <1>3, <2>0, <4>1
    <3>3. ~IsParent(m, n)
      BY <1>3 DEF IsParent
    <3> QED
      BY <1>0, <1>1, <3>1, <3>2, <3>3 DEF ForwardingTree
  <2> QED
    BY <2>6, <2>7, <2>8
<1> QED
  BY <1>0, <1>2, <1>3 DEF Steady

\* A component is closed under the links, and has one root.
LEMMA ComponentIs ==
  ASSUME IInv, CorrectVectors, NEW n \in Node
  PROVE  /\ n \in Component(n) /\ Component(n) \subseteq Node
         /\ \A x \in Component(n) : Up(x) \subseteq Component(n)
         /\ \A x \in Component(n) : root_addr[x] = root_addr[n]
<1>0. \A z \in Node : Up(z) \subseteq Node
  BY DEF IInv, TypeOK, LinkTypeOK, Up
<1>1. n \in Component(n) /\ Component(n) \subseteq Node
  BY DEF Component
<1>2. ASSUME NEW x \in Component(n), NEW y \in Up(x) PROVE y \in Component(n)
  <2>1. y \in Node
    BY <1>0, <1>1
  <2>2. ASSUME NEW S \in SUBSET Node, n \in S, \A z \in S : Up(z) \subseteq S
        PROVE  y \in S
    <3>1. x \in S
      BY <2>2 DEF Component
    <3> QED
      BY <2>2, <3>1
  <2> QED
    BY <2>1, <2>2 DEF Component
<1>3. ASSUME NEW x \in Component(n) PROVE root_addr[x] = root_addr[n]
  <2> DEFINE S == {z \in Node : root_addr[z] = root_addr[n]}
  <2>1. S \in SUBSET Node /\ n \in S
    OBVIOUS
  <2>2. \A z \in S : Up(z) \subseteq S
    BY <1>0 DEF CorrectVectors
  <2>3. x \in S
    <3> HIDE DEF S
    <3> QED
      BY <2>1, <2>2 DEF Component
  <2> QED
    BY <2>3
<1> QED
  BY <1>1, <1>2, <1>3

\* A new FLOOD is at its source.
LEMMA InjectingKeeps ==
  ASSUME IInv, LInv, Steady, Quiet, delivered = expected, NEW n \in Node, InjectFlood(n)
  PROVE  Flooding'
<1>0. /\ link_states' = link_states /\ delivered' = delivered
      /\ root_addr' = root_addr /\ path_len' = path_len /\ next_hop' = next_hop
      /\ discovered' = discovered /\ neighbors_blocked' = neighbors_blocked /\ changing' = changing
  BY DEF InjectFlood, nodeVars, portVars, linkVars
<1>1. Links
  BY DEF LInv
<1>2. ASSUME NEW d \in Node, NEW s \in link_states[d]
      PROVE  /\ s \in Node /\ s # d /\ d \in link_states[s] /\ s \in Up(d)
             /\ rx[d][s] = <<>>
             /\ rx'[d][s] = IF s = n /\ d \in Open(n) THEN Append(<<>>, FloodPacket) ELSE <<>>
  <2>1. s \in Node /\ s # d /\ d \in link_states[s] /\ s \in Up(d)
    BY <1>1, SteadyLink
  <2>2. rx[d][s] = <<>>
    BY DEF Quiet
  <2> QED
    BY <1>1, <2>1, <2>2, InjectFloodSends
<1>3. PICK C \in SUBSET Node : C = Component(n)
  BY DEF Component
<1>4. /\ n \in C /\ C \subseteq Node
      /\ \A x \in C : Up(x) \subseteq C
      /\ \A x \in C : root_addr[x] = root_addr[n]
  BY <1>3, ComponentIs DEF Steady
<1>5. \A x \in C : link_states[x] \subseteq C
  BY <1>2, <1>4
<1>6. Region({n}, C, n)'
  <2>1. path_len[n] \in Nat
    BY DEF IInv, TypeOK, NodeTypeOK
  <2>2. path_len[n] <= path_len[n]
    BY <2>1
  <2> QED
    BY <1>0, <1>4, <1>5, <2>2 DEF Region
<1>7. Counted({n}, C)'
  <2> SUFFICES ASSUME NEW k \in Node
               PROVE  expected'[k] = IF k \in C \ {n} THEN delivered[k] + 1 ELSE delivered[k]
    BY <1>0 DEF Counted
  <2>1. expected' = [m \in Node |-> IF m \in Component(n) \ {n} THEN expected[m] + 1 ELSE expected[m]]
    BY DEF InjectFlood
  <2> QED
    BY <1>3, <2>1
<1>8. <<>> \in Seq(Packet) /\ ~HasFlood(<<>>)
  BY DEF HasFlood
<1>9. HasFlood(Append(<<>>, FloodPacket)) /\ OneFlood(Append(<<>>, FloodPacket))
  BY <1>8, FloodAppended
<1>10. \A x, y : TreeLink(x, y)' <=> TreeLink(x, y)
  BY <1>0 DEF TreeLink, IsParent
<1>11. \A x, y : TreeLink(x, y) <=> TreeLink(y, x)
  BY DEF TreeLink
<1>12. Underway({n})'
  <2> SUFFICES ASSUME NEW d \in Node, NEW s \in link_states[d], HasFlood(rx'[d][s])
               PROVE  /\ s = n /\ OneFlood(rx'[d][s])
                      /\ IF TreeLink(d, s) THEN d # n
                         ELSE s \notin Open(d) /\ path_len[s] # path_len[d] + 1
    BY <1>0, <1>10 DEF Underway, Open
  <2>1. s = n /\ d \in Open(n) /\ rx'[d][s] = Append(<<>>, FloodPacket)
    BY <1>2, <1>8
  <2>2. d \in link_states[n] /\ d # n
    BY <1>2, <2>1
  <2>3. ~TreeLink(d, n) => n \notin Open(d) /\ path_len[n] # path_len[d] + 1
    BY <1>1, <1>11, <2>1, <2>2, SteadyPorts
  <2> QED
    BY <1>9, <2>1, <2>2, <2>3
<1>13. Front({n})'
  <2> SUFFICES ASSUME NEW y \in link_states[n], TreeLink(n, y)
               PROVE  HasFlood(rx'[y][n])
    BY <1>0, <1>10 DEF Front
  <2>1. y \in Node /\ n \in link_states[y] /\ y \in Open(n)
    BY <1>1, <1>2, SteadyPorts
  <2>2. rx'[y][n] = Append(<<>>, FloodPacket)
    BY <1>2, <2>1
  <2> QED
    BY <1>9, <2>2
<1>14. Steady'
  <2>1. ASSUME NEW d \in Node, NEW s \in link_states[d] PROVE Only(rx'[d][s], Current(s))
    <3>1. Only(<<>>, Current(s))
      BY DEF Only
    <3>2. Only(Append(<<>>, FloodPacket), Current(s))
      BY <1>8, <3>1, FloodAppended
    <3> QED
      BY <1>2, <3>1, <3>2
  <2>2. Stands
    BY <1>0, <2>1 DEF Stands, nodeVars
  <2> QED
    BY <1>1, <2>2, StandingSteady
<1>15. Wave({n}, C, n)' /\ {n} \in SUBSET Node
  BY <1>6, <1>7, <1>12, <1>13 DEF Wave
<1> QED
  BY <1>14, <1>15 DEF Flooding

-----------------------------------------------------------------------------
(* The theorem *)

NoReelection == FloodPending => \A n \in Node : root_addr'[n] = n => root_addr[n] = n

\* A step while a FLOOD is on its way.
LEMMA PendingStep ==
  ASSUME IInv, LInv, FloodInv, [Next]_vars, OnlyFail, NoReelection, WaitConverged, FloodPending
  PROVE  Flooding'
<1>0. Links /\ Greeted /\ Flooding /\ Steady /\ changing = NoChange
  BY DEF LInv, FloodInv, Flooding, Steady
<1>1. PICK W \in SUBSET Node, C \in SUBSET Node, t \in Node : Wave(W, C, t)
  BY <1>0 DEF Flooding
<1>2. ~Quiet
  <2>1. PICK d \in Node : \E s \in link_states[d] : HasFlood(rx[d][s])
    BY PendingIs
  <2>2. PICK s \in link_states[d] : HasFlood(rx[d][s])
    BY <2>1
  <2>3. rx[d][s] # <<>>
    BY <2>2 DEF HasFlood
  <2> QED
    BY <2>3 DEF Quiet
<1>3. ASSUME NEW n \in Node, Hello(n) PROVE Flooding'
  <2>1. UNCHANGED <<delivered, expected>>
    BY <1>3 DEF Hello, driverVars
  <2>2. Speaks(n) /\ UNCHANGED <<nodeVars, neighbors_blocked>>
    BY <1>0, <1>3, HelloSpeaks
  <2> QED
    BY <1>0, <2>1, <2>2, SpeakingHums, HummingKeeps
<1>4. ASSUME NEW n \in Node, Reelect(n) PROVE FALSE
  <2>1. root_addr[n] # n /\ root_addr'[n] = n
    BY <1>4 DEF Reelect, ReelectDue, IInv, TypeOK, NodeTypeOK
  <2> QED
    BY <2>1 DEF NoReelection
<1>5. ASSUME NEW n \in Node, NEW m \in Neighbor[n], Receive(n, m) PROVE Flooding'
  <2>0. m \in Node
    BY NeighborAssumption
  <2>1. CASE ForwardParentHello(n, m)
    <3>1. UNCHANGED <<delivered, expected>>
      BY <2>1 DEF ForwardParentHello, driverVars
    <3>2. Speaks(n) /\ UNCHANGED <<nodeVars, neighbors_blocked>>
      BY <1>0, <2>0, <2>1, ForwardParentHelloSpeaks
    <3> QED
      BY <1>0, <3>1, <3>2, SpeakingHums, HummingKeeps
  <2>2. CASE DiscoverNeighbor(n, m)
    BY <1>0, <2>2 DEF DiscoverNeighbor, CanReceive, Steady
  <2>3. CASE AdoptParent(n, m)
    <3>1. /\ m \in link_states[n] /\ rx[n][m] # <<>> /\ Head(rx[n][m]) # FloodPacket
          /\ Better(n, Head(rx[n][m]))
      BY <2>0, <2>3, HeadIs DEF AdoptParent
    <3>2. rx[n][m] \in Seq(Packet) /\ Only(rx[n][m], Current(m))
      BY <1>0, <2>0, <3>1, QueuesAre DEF Steady
    <3>3. Head(rx[n][m]) = Current(m)
      BY <3>1, <3>2, VectorRemoved
    <3> QED
      BY <1>0, <3>1, <3>3, NothingBetter
  <2>4. CASE KeepParent(n, m)
    BY <1>0, <2>0, <2>4, KeepingHums, HummingKeeps
  <2>5. CASE ForwardFlood(n, m)
    BY <1>0, <1>1, <2>0, <2>5, ForwardingKeeps
  <2>6. CASE DropFlood(n, m)
    BY <1>0, <1>1, <2>0, <2>6, DroppingKeeps DEF Flooding
  <2> QED
    BY <1>5, <2>1, <2>2, <2>3, <2>4, <2>5, <2>6 DEF Receive
<1>6. ASSUME NEW n \in Node, InjectFlood(n) PROVE FALSE
  BY <1>2, <1>6 DEF InjectFlood, Settled
<1>7. ASSUME NEW a \in Node, NEW b \in Neighbor[a], NEW up \in BOOLEAN, ChangeLinkA(a, b, up)
      PROVE  FALSE
  BY <1>2, <1>7 DEF ChangeLinkA
<1>8. CASE ChangeLinkB
  BY <1>0, <1>8 DEF ChangeLinkB
<1>9. CASE Tick \/ EndChanges \/ UNCHANGED vars
  BY <1>0, <1>9, IdlingHums, HummingKeeps
<1> QED
  BY <1>3, <1>4, <1>5, <1>6, <1>7, <1>8, <1>9 DEF Next, NodeStep, DriverStep

\* A step while none is: only the test case brings one up.
LEMMA CalmStep ==
  ASSUME IInv, IInv', LInv, FloodInv, [Next]_vars, OnlyFail, WaitConverged, ~FloodPending
  PROVE  FloodInv'
<1>0. Links /\ Greeted
  BY DEF LInv
<1>1. delivered = expected
  <2>1. CASE Flooding
    <3>1. PICK W \in SUBSET Node, C \in SUBSET Node, t \in Node : Wave(W, C, t)
      BY <2>1 DEF Flooding
    <3> QED
      BY <1>0, <2>1, <3>1, WaveSpent DEF Flooding
  <2> QED
    BY <2>1 DEF FloodInv
<1>2. \A d \in Node : \A s \in link_states[d] : s \in Node /\ rx[d][s] \in Seq(Packet) /\ ~HasFlood(rx[d][s])
  BY <1>0, LinkedAre, QueuesAre, PendingIs
<1>3. ASSUME UNCHANGED <<delivered, expected>>,
             \A d \in Node : \A s \in link_states'[d] : ~HasFlood(rx'[d][s])
      PROVE  FloodInv'
  BY <1>1, <1>3, PendingIs DEF FloodInv
<1>4. ASSUME NEW n \in Node, Speaks(n), UNCHANGED <<delivered, expected>> PROVE FloodInv'
  <2>1. ASSUME NEW d \in Node, NEW s \in link_states[d] PROVE ~HasFlood(rx'[d][s])
    <3>0. Current(n)' \in Packet /\ Current(n)' # FloodPacket
      BY CurrentIsPacket
    <3>1. CASE s = n
      <4>1. rx'[d][s] = Append(rx[d][s], Current(n)')
        BY <1>4, <3>1 DEF Speaks
      <4> QED
        BY <1>2, <3>0, <4>1, VectorAppended
    <3>2. CASE s # n
      <4>1. \/ rx'[d][s] = rx[d][s]
            \/ rx[d][s] # <<>> /\ Head(rx[d][s]) # FloodPacket /\ rx'[d][s] = Tail(rx[d][s])
        BY <1>4, <3>2 DEF Speaks
      <4> QED
        BY <1>2, <4>1, VectorRemoved
    <3> QED
      BY <3>1, <3>2
  <2>2. link_states' = link_states
    BY <1>4 DEF Speaks
  <2> QED
    BY <1>3, <1>4, <2>1, <2>2
<1>5. ASSUME NEW n \in Node, Hello(n) \/ Reelect(n) PROVE FloodInv'
  <2>1. UNCHANGED <<delivered, expected>>
    BY <1>5 DEF Hello, Reelect, driverVars
  <2> QED
    BY <1>0, <1>4, <1>5, <2>1, HelloSpeaks, ReelectSpeaks
<1>6. ASSUME NEW n \in Node, NEW m \in Neighbor[n], Receive(n, m) PROVE FloodInv'
  <2>0. m \in Node
    BY NeighborAssumption
  <2>1. CASE ForwardParentHello(n, m) \/ AdoptParent(n, m)
    <3>1. UNCHANGED <<delivered, expected>>
      BY <2>1 DEF ForwardParentHello, AdoptParent, driverVars
    <3> QED
      BY <1>0, <1>4, <2>0, <2>1, <3>1, ForwardParentHelloSpeaks, AdoptParentSpeaks
  <2>2. CASE DiscoverNeighbor(n, m) \/ KeepParent(n, m)
    <3>1. /\ UNCHANGED <<delivered, expected, link_states>> /\ rx' = Received(rx, n, m)
          /\ CanReceive(n, m, "STP")
      BY <2>2 DEF DiscoverNeighbor, KeepParent, driverVars, linkVars
    <3>2. m \in link_states[n] /\ rx[n][m] # <<>> /\ Head(rx[n][m]) # FloodPacket
      BY <2>0, <3>1, HeadIs
    <3>3. ~HasFlood(Tail(rx[n][m]))
      BY <1>2, <3>2, VectorRemoved
    <3>4. ASSUME NEW d \in Node, NEW s \in link_states[d] PROVE ~HasFlood(rx'[d][s])
      <4>1. rx'[d][s] = IF d = n /\ s = m THEN Tail(rx[n][m]) ELSE rx[d][s]
        BY <1>2, <2>0, <3>1, RestIs
      <4> QED
        BY <1>2, <3>3, <4>1
    <3> QED
      BY <1>3, <3>1, <3>4
  <2>3. CASE ForwardFlood(n, m) \/ DropFlood(n, m)
    <3>1. CanReceive(n, m, "FLOOD")
      BY <2>3 DEF ForwardFlood, DropFlood
    <3>2. m \in link_states[n] /\ rx[n][m] # <<>> /\ Head(rx[n][m]) = FloodPacket
      BY <2>0, <3>1, HeadIs
    <3>3. HasFlood(rx[n][m])
      BY <1>2, <3>2, FloodRemoved
    <3> QED
      BY <1>2, <3>2, <3>3
  <2> QED
    BY <1>6, <2>1, <2>2, <2>3 DEF Receive
<1>7. ASSUME NEW n \in Node, InjectFlood(n) PROVE FloodInv'
  <2>1. changing = NoChange /\ Converged /\ Quiet
    BY <1>7 DEF InjectFlood, Settled
  <2>2. Steady
    BY <2>1, SettledIsSteady
  <2> QED
    BY <1>1, <1>7, <2>1, <2>2, InjectingKeeps DEF FloodInv
<1>8. ASSUME Cuts, UNCHANGED <<delivered, expected>> PROVE FloodInv'
  <2>1. \A d \in Node : \A s \in link_states'[d] : ~HasFlood(rx'[d][s])
    BY <1>2, <1>8 DEF Cuts
  <2> QED
    BY <1>3, <1>8, <2>1
<1>9. ASSUME NEW a \in Node, NEW b \in Neighbor[a], NEW up \in BOOLEAN, ChangeLinkA(a, b, up)
      PROVE  FloodInv'
  <2>1. UNCHANGED <<delivered, expected>>
    BY <1>9 DEF ChangeLinkA, driverVars
  <2> QED
    BY <1>0, <1>8, <1>9, <2>1, ChangeLinkACuts
<1>10. CASE ChangeLinkB
  <2>1. UNCHANGED <<delivered, expected>>
    BY <1>10 DEF ChangeLinkB, driverVars
  <2> QED
    BY <1>0, <1>8, <1>10, <2>1, ChangeLinkBCuts
<1>11. CASE Tick \/ EndChanges \/ UNCHANGED vars
  <2>1. /\ UNCHANGED <<link_states, delivered, expected>>
        /\ \A d \in Node : \A s \in link_states[d] : rx'[d][s] = rx[d][s]
    BY <1>0, <1>11, IdleSteps
  <2>2. \A d \in Node : \A s \in link_states'[d] : ~HasFlood(rx'[d][s])
    BY <1>2, <2>1
  <2> QED
    BY <1>3, <2>1, <2>2
<1> QED
  BY <1>5, <1>6, <1>7, <1>9, <1>10, <1>11 DEF Next, NodeStep, DriverStep

\* At the start no FLOOD is on its way.
LEMMA InitFloods == Init => FloodInv
<1> SUFFICES ASSUME Init PROVE ~FloodPending /\ delivered = expected
  BY DEF FloodInv
<1>1. delivered = expected
  BY DEF Init
<1>2. ASSUME NEW n \in Node, NEW m \in link_states[n] PROVE ~HasFlood(rx[n][m])
  <2>1. m \in Node /\ m \in Neighbor[n]
    BY NeighborAssumption DEF Init
  <2>2. rx[n][m] = <<StpPacket(m, 0, m)>>
    BY <2>1 DEF Init
  <2> DEFINE v == StpPacket(m, 0, m)
  <2>3. v # FloodPacket
    BY <2>1, VectorIsPacket, BoundAssumption
  <2> HIDE DEF v
  <2>4. ~HasFlood(<<v>>)
    BY <2>3 DEF HasFlood
  <2> QED
    BY <2>2, <2>4 DEF v
<1> QED
  BY <1>1, <1>2, PendingIs

\* On every graph: when links only fail and no node re-elects itself while a FLOOD is
\* on its way, a FLOOD that is sent after the tree has been built is handed once to the
\* user of every other node of its component, and to no one twice.
THEOREM FloodsReachEachOnce ==
  ASSUME WaitConverged
  PROVE  Spec /\ LinksOnlyFail /\ SteadyFloods => []FloodExactlyOnce
<1>1. ASSUME IInv, IInv', LInv, FloodInv, [Next]_vars,
             [OnlyFail]_vars, [NoReelection]_vars
      PROVE  LInv' /\ FloodInv'
  <2>1. OnlyFail /\ NoReelection
    BY <1>1 DEF OnlyFail, NoReelection, vars, linkVars, nodeVars
  <2>2. LInv'
    BY <1>1, <2>1, LinksStay
  <2>3. CASE FloodPending
    BY <1>1, <2>1, <2>2, <2>3, PendingStep DEF FloodInv
  <2>4. CASE ~FloodPending
    BY <1>1, <2>1, <2>2, <2>4, CalmStep
  <2> QED
    BY <2>2, <2>3, <2>4
<1>2. IInv /\ LInv /\ FloodInv => FloodExactlyOnce
  <2> SUFFICES ASSUME IInv, LInv, FloodInv PROVE FloodExactlyOnce
    OBVIOUS
  <2>0. delivered \in [Node -> Nat] /\ expected \in [Node -> Nat]
    BY DEF IInv, TypeOK, DriverTypeOK
  <2>1. CASE Flooding
    <3>1. PICK W \in SUBSET Node, C \in SUBSET Node, t \in Node : Wave(W, C, t)
      BY <2>1 DEF Flooding
    <3>2. \A n \in Node : expected[n] = delivered[n] + 1 \/ expected[n] = delivered[n]
      BY <3>1 DEF Wave, Counted
    <3>3. \A n \in Node : delivered[n] <= expected[n]
      BY <2>0, <3>2
    <3>4. ~FloodPending => delivered = expected
      BY <2>1, <3>1, WaveSpent DEF Flooding, LInv
    <3> QED
      BY <3>3, <3>4 DEF FloodExactlyOnce
  <2>2. CASE ~FloodPending /\ delivered = expected
    BY <2>0, <2>2 DEF FloodExactlyOnce
  <2> QED
    BY <2>1, <2>2 DEF FloodInv
<1>3. LinksOnlyFail => [][OnlyFail]_vars
  BY PTL DEF LinksOnlyFail, OnlyFail
<1>4. SteadyFloods => [][NoReelection]_vars
  BY PTL DEF SteadyFloods, NoReelection
<1> QED
  BY <1>1, <1>2, <1>3, <1>4, InitLinks, InitFloods, Invariance, PTL DEF Spec
=============================================================================
