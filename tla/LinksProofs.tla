---------------------------- MODULE LinksProofs ----------------------------
(***************************************************************************)
(* Theorems about the ports of a node, for every number of neighbours,     *)
(* every capacity of the sockets and every number of packets and of link   *)
(* changes.  They hold of Spec, that is without fairness.                  *)
(***************************************************************************)
EXTENDS Links, TLAPS

TypeOK ==
  /\ written \in [Port -> Nat] /\ consumed \in [Port -> Nat]
  /\ sending \in [Port -> BOOLEAN] /\ nb_up \in [Port -> BOOLEAN]
  /\ tx \in [Port -> Nat]
  /\ mq_user \in Nat
  /\ link_states \in [Port -> BOOLEAN] /\ wanted \in [Port -> BOOLEAN]
  /\ mutex \in [Port -> {"free", "node", "ctrl"}]
  /\ npc \in {"loop", "scan", "locked", "peeked", "send", "exited"}
  /\ rx_port_idx \in AnyPort
  /\ npc = "send" => out \in Port
  /\ outs_left \in [Port -> Nat]
  /\ cpc \in {"await", "lock", "drain"}
  /\ IF cpc = "await" THEN cport = 0 ELSE cport \in Port
  /\ due \in [Port -> Nat]
  /\ over \in [AnyPort -> [AnyPort -> Nat]]

\* Who holds a mutex: the node thread that of the port it looks at, the ctrl
\* thread that of the port it drains.
Locks ==
  /\ npc \in {"locked", "peeked"} => rx_port_idx \in Port /\ mutex[rx_port_idx] = "node"
  /\ cpc = "drain" => mutex[cport] = "ctrl" /\ ~link_states[cport]

\* The ctrl thread switches what is not yet as the test case wants it.
Switches == /\ cpc = "lock" => link_states[cport] # wanted[cport]
            /\ cpc = "drain" => ~wanted[cport]

\* Packets are read whole; a disable is due what had been written by then.
Pieces ==
  \A k \in Port :
    /\ consumed[k] % 2 = 0
    /\ due[k] % 2 = 0
    /\ due[k] <= written[k]

\* What the node thread has seen is there.
Seen == npc = "peeked" => Waiting(rx_port_idx)

\* Steps of the round-robin from port r to port k.
Ahead(r, k) == IF k >= r THEN k - r ELSE k - r + P + 1

\* A port is overtaken only while a packet waits there, and who has overtaken it
\* comes after it in the round.
Queueing ==
  \A k, j \in AnyPort :
    /\ over[k][j] <= 1
    /\ over[k][j] > 0 => Waiting(k) /\ Ahead(rx_port_idx, k) < Ahead(rx_port_idx, j)

IInv ==
  /\ TypeOK /\ Locks /\ Switches /\ Pieces
  /\ PeekHolds /\ Seen /\ OffMeansSilent
  /\ Queueing

-----------------------------------------------------------------------------
(* The round *)

LEMMA PortIs == \A k \in Port : k \in AnyPort /\ k # User /\ k # 0
  BY LinksAssumption DEF AnyPort, Port, User

\* The round goes from each port to the next, and from the user's to the first.
LEMMA NextPortIs ==
  ASSUME NEW k \in AnyPort
  PROVE  /\ NextPort(k) = IF k = User THEN 1 ELSE k + 1
         /\ NextPort(k) \in AnyPort
<1>1. P \in Nat \ {0} /\ k \in 1 .. P + 1
  BY LinksAssumption DEF AnyPort, Port, User
<1>2. CASE k = P + 1
  <2>1. k % (P + 1) = 0
    BY <1>1, <1>2
  <2> QED
    BY <1>1, <1>2, <2>1 DEF NextPort, User, AnyPort, Port
<1>3. CASE k # P + 1
  <2>1. k % (P + 1) = k
    BY <1>1, <1>3
  <2> QED
    BY <1>1, <1>3, <2>1 DEF NextPort, User, AnyPort, Port
<1> QED
  BY <1>2, <1>3

\* When the round moves on from r, every other port comes one step nearer and r
\* becomes the last.
LEMMA RoundMoves ==
  ASSUME NEW r \in AnyPort, NEW k \in AnyPort
  PROVE  /\ Ahead(r, k) \in 0 .. P
         /\ Ahead(r, k) = 0 <=> k = r
         /\ Ahead(NextPort(r), k) = IF k = r THEN P ELSE Ahead(r, k) - 1
<1>1. P \in Nat \ {0} /\ r \in 1 .. P + 1 /\ k \in 1 .. P + 1
  BY LinksAssumption DEF AnyPort, Port, User
<1>2. NextPort(r) = IF r = P + 1 THEN 1 ELSE r + 1
  BY NextPortIs DEF User
<1> QED
  BY <1>1, <1>2 DEF Ahead

\* A step that neither serves a port nor takes away a packet that waits.
LEMMA QueueingKept ==
  ASSUME Queueing, UNCHANGED <<over, rx_port_idx>>,
         \A k \in AnyPort : Waiting(k) => Waiting(k)'
  PROVE  Queueing'
  BY DEF Queueing

\* A port where nothing waits is passed over.
LEMMA QueueingSkipped ==
  ASSUME Queueing, rx_port_idx \in AnyPort, over \in [AnyPort -> [AnyPort -> Nat]],
         ~Waiting(rx_port_idx), rx_port_idx' = NextPort(rx_port_idx), UNCHANGED over,
         \A k \in AnyPort : Waiting(k) => Waiting(k)'
  PROVE  Queueing'
<1> SUFFICES ASSUME NEW k \in AnyPort, NEW j \in AnyPort, over[k][j] > 0
             PROVE  Waiting(k)' /\ Ahead(rx_port_idx', k) < Ahead(rx_port_idx', j)
  BY DEF Queueing
<1>1. Waiting(k) /\ k # rx_port_idx /\ Ahead(rx_port_idx, k) < Ahead(rx_port_idx, j)
  BY DEF Queueing
<1>2. P \in Nat \ {0}
  BY LinksAssumption
<1> QED
  BY <1>1, <1>2, RoundMoves

\* A port is served: it becomes the last of the round, and so has not overtaken
\* any port before that still waits.
LEMMA QueueingServed ==
  ASSUME Queueing, rx_port_idx \in AnyPort, over \in [AnyPort -> [AnyPort -> Nat]],
         Overtake(rx_port_idx), rx_port_idx' = NextPort(rx_port_idx),
         \A k \in AnyPort \ {rx_port_idx} : Waiting(k) => Waiting(k)'
  PROVE  Queueing' /\ over' \in [AnyPort -> [AnyPort -> Nat]]
<1> DEFINE r == rx_port_idx
<1>1. \A k \in AnyPort : over[k] \in [AnyPort -> Nat]
  OBVIOUS
<1>2. over' \in [AnyPort -> [AnyPort -> Nat]]
  BY <1>1 DEF Overtake
<1> SUFFICES ASSUME NEW k \in AnyPort, NEW j \in AnyPort
             PROVE  /\ over'[k][j] <= 1
                    /\ over'[k][j] > 0 =>
                         Waiting(k)' /\ Ahead(rx_port_idx', k) < Ahead(rx_port_idx', j)
  BY <1>2 DEF Queueing
<1>3. CASE k = r \/ ~Waiting(k)
  <2>1. over'[k][j] = 0
    BY <1>3 DEF Overtake
  <2> QED
    BY <2>1
<1>4. CASE k # r /\ Waiting(k)
  <2>1. over'[k][j] = IF j = r THEN over[k][j] + 1 ELSE over[k][j]
    BY <1>1, <1>4 DEF Overtake
  <2>2. over[k][j] <= 1 /\ (over[k][j] > 0 => Ahead(r, k) < Ahead(r, j)) /\ over[k][j] \in Nat
    BY <1>1 DEF Queueing
  <2>3. /\ Ahead(r, k) \in 1 .. P /\ Ahead(r, j) \in 0 .. P
        /\ j = r => Ahead(r, j) = 0
        /\ Ahead(rx_port_idx', k) = Ahead(r, k) - 1
        /\ Ahead(rx_port_idx', j) = IF j = r THEN P ELSE Ahead(r, j) - 1
    BY <1>4, RoundMoves
  <2>4. P \in Nat \ {0} /\ Waiting(k)'
    BY <1>4, LinksAssumption
  <2> QED
    BY <2>1, <2>2, <2>3, <2>4
<1> QED
  BY <1>3, <1>4

-----------------------------------------------------------------------------
(* Invariance *)

LEMMA InitIInv == Init => IInv
<1> SUFFICES ASSUME Init PROVE IInv
  OBVIOUS
<1>1. P \in Nat \ {0} /\ 1 \in AnyPort /\ MaxOut \in [Port -> Nat]
  BY LinksAssumption DEF AnyPort, Port
<1> QED
  BY <1>1 DEF Init, IInv, TypeOK, Locks, Switches, Pieces, PeekHolds, Seen, OffMeansSilent, Off,
              Queueing

\* The neighbours only add to the node's sockets and read what it has sent.
LEMMA NeighbourKeepsIInv ==
  ASSUME IInv, NEW k \in Port,
         NbSend(k) \/ NbSendPart(k) \/ NbRecv(k) \/ NbUpdateLinkState(k)
  PROVE  IInv'
<1>1. TypeOK'
  <2>1. CASE NbSend(k)
    BY <2>1 DEF IInv, TypeOK, NbSend, nodeVars, ctrlVars, testVars
  <2>2. CASE NbSendPart(k)
    <3>1. (written'[k] % 2 = 1) \in BOOLEAN
      OBVIOUS
    <3>2. sending' \in [Port -> BOOLEAN]
      BY <2>2, <3>1, Zenon DEF IInv, TypeOK, NbSendPart
    <3>3. written' \in [Port -> Nat]
      BY <2>2 DEF IInv, TypeOK, NbSendPart
    <3> QED
      BY <2>2, <3>2, <3>3 DEF IInv, TypeOK, NbSendPart, nodeVars, ctrlVars, testVars
  <2>3. CASE NbRecv(k)
    BY <2>3 DEF IInv, TypeOK, NbRecv, nodeVars, ctrlVars, testVars
  <2>4. CASE NbUpdateLinkState(k)
    BY <2>4 DEF IInv, TypeOK, NbUpdateLinkState, nodeVars, ctrlVars, testVars
  <2> QED
    BY <2>1, <2>2, <2>3, <2>4
<1>2. /\ \A j \in Port : written[j] <= written'[j]
      /\ UNCHANGED <<consumed, mq_user, mutex, nodeVars, ctrlVars, testVars, over>>
  BY DEF IInv, TypeOK, NbSend, NbSendPart, NbRecv, NbUpdateLinkState
<1>3. \A j \in AnyPort : Waiting(j) => Waiting(j)'
  BY <1>1, <1>2 DEF IInv, TypeOK, Waiting, Whole, AnyPort, ctrlVars
<1>4. Queueing'
  BY <1>2, <1>3, QueueingKept DEF IInv, nodeVars
<1>5. Locks' /\ Switches' /\ PeekHolds' /\ OffMeansSilent'
  BY <1>2 DEF IInv, Locks, Switches, PeekHolds, OffMeansSilent, Off, nodeVars, ctrlVars, testVars
<1>6. Pieces'
  BY <1>1, <1>2 DEF IInv, TypeOK, Pieces, ctrlVars
<1>7. Seen'
  BY <1>2, <1>3 DEF IInv, TypeOK, Seen, nodeVars
<1> QED
  BY <1>1, <1>4, <1>5, <1>6, <1>7 DEF IInv

\* The node thread reads a port under its mutex, and takes what it has seen.
LEMMA NodeKeepsIInv ==
  ASSUME IInv, NodeStep
  PROVE  IInv'
<1> USE DEF IInv
<1>1. CASE StartRecv
  <2>1. /\ TypeOK' /\ Locks' /\ Switches' /\ Pieces' /\ PeekHolds' /\ Seen' /\ OffMeansSilent'
        /\ UNCHANGED <<over, rx_port_idx, written, consumed, mq_user, link_states>>
    BY <1>1 DEF StartRecv, TypeOK, Locks, Switches, Pieces, PeekHolds, Seen, OffMeansSilent, Off,
                sockVars, ctrlVars, testVars
  <2>2. Queueing'
    BY <2>1, QueueingKept DEF Waiting, Whole
  <2> QED
    BY <2>1, <2>2
<1>2. CASE RecvUser
  <2> USE <1>2
  <2>1. rx_port_idx = User /\ User \in AnyPort /\ NextPort(User) \in AnyPort
    BY NextPortIs DEF RecvUser, AnyPort
  <2>2. CASE mq_user > 0
    <3>1. Taken /\ Overtake(rx_port_idx)
      BY <2>1, <2>2 DEF RecvUser
    <3>2. UNCHANGED <<written, consumed, link_states>>
      BY DEF RecvUser, sockVars, ctrlVars
    <3>3. \A k \in AnyPort \ {rx_port_idx} : Waiting(k) => Waiting(k)'
      BY <2>1, <3>2 DEF Waiting, Whole
    <3>4. Queueing' /\ over' \in [AnyPort -> [AnyPort -> Nat]]
      BY <2>1, <3>1, <3>3, QueueingServed DEF TypeOK, Taken
    <3>5. TypeOK' /\ Locks' /\ Switches' /\ Pieces' /\ PeekHolds' /\ Seen' /\ OffMeansSilent'
      BY <2>1, <2>2, <3>1, <3>4 DEF RecvUser, Taken, TypeOK, Locks, Switches, Pieces, PeekHolds,
                Seen, OffMeansSilent, Off, sockVars, ctrlVars, testVars
    <3> QED
      BY <3>4, <3>5
  <2>3. CASE ~(mq_user > 0)
    <3>1. Skip /\ UNCHANGED <<mq_user, over, written, consumed, link_states>>
      BY <2>3 DEF RecvUser, sockVars, ctrlVars
    <3>2. Queueing'
      BY <2>1, <2>3, <3>1, QueueingSkipped DEF TypeOK, Skip, Waiting, Whole
    <3>3. TypeOK' /\ Locks' /\ Switches' /\ Pieces' /\ PeekHolds' /\ Seen' /\ OffMeansSilent'
      BY <2>1, <3>1 DEF RecvUser, Skip, TypeOK, Locks, Switches, Pieces, PeekHolds, Seen,
                OffMeansSilent, Off, sockVars, ctrlVars, testVars
    <3> QED
      BY <3>2, <3>3
  <2> QED
    BY <2>2, <2>3
<1>3. CASE LockPort
  <2> USE <1>3
  <2>1. rx_port_idx \in Port
    BY DEF LockPort, TypeOK, AnyPort
  <2>2. TypeOK' /\ Locks' /\ Switches' /\ Pieces' /\ PeekHolds' /\ Seen' /\ OffMeansSilent'
    BY <2>1 DEF LockPort, TypeOK, Locks, Switches, Pieces, PeekHolds, Seen, OffMeansSilent, Off,
                sockVars, ctrlVars, testVars
  <2>3. Queueing'
    BY QueueingKept DEF LockPort, Waiting, Whole, sockVars, ctrlVars
  <2> QED
    BY <2>2, <2>3
<1>4. CASE Peek
  <2> USE <1>4
  <2>1. rx_port_idx \in Port /\ NextPort(rx_port_idx) \in AnyPort
    BY NextPortIs DEF Peek, Locks, TypeOK
  <2>2. UNCHANGED <<written, consumed, link_states, mq_user, over>>
    BY DEF Peek, sockVars, ctrlVars
  <2>3. CASE Waiting(rx_port_idx)
    <3>1. link_states[rx_port_idx]
      BY <2>1, <2>3, LinksAssumption DEF Waiting, Port, User
    <3>3. TypeOK' /\ Locks' /\ Switches' /\ Pieces' /\ PeekHolds' /\ OffMeansSilent'
      BY <2>1, <2>3, <3>1 DEF Peek, TypeOK, Locks, Switches, Pieces, PeekHolds, OffMeansSilent, Off,
                sockVars, ctrlVars, testVars
    <3>2. Queueing' /\ Seen'
      BY <2>2, <2>3, QueueingKept DEF Peek, Waiting, Whole, Seen
    <3> QED
      BY <3>2, <3>3
  <2>4. CASE ~Waiting(rx_port_idx)
    <3>1. TypeOK' /\ Locks' /\ Switches' /\ Pieces' /\ PeekHolds' /\ Seen' /\ OffMeansSilent'
      BY <2>1, <2>4 DEF Peek, Skip, TypeOK, Locks, Switches, Pieces, PeekHolds, Seen,
                OffMeansSilent, Off, sockVars, ctrlVars, testVars
    <3>2. Queueing'
      BY <2>1, <2>2, <2>4, QueueingSkipped DEF TypeOK, Peek, Skip, Waiting, Whole
    <3> QED
      BY <3>1, <3>2
  <2> QED
    BY <2>3, <2>4
<1>5. CASE Take
  <2> USE <1>5
  <2>1. rx_port_idx \in Port /\ NextPort(rx_port_idx) \in AnyPort /\ Waiting(rx_port_idx)
    BY NextPortIs DEF Take, Locks, Seen, TypeOK
  <2>2. /\ Whole(rx_port_idx) /\ Taken /\ Overtake(rx_port_idx)
        /\ consumed' = [consumed EXCEPT ![rx_port_idx] = @ + 2]
        /\ UNCHANGED <<written, link_states, mq_user>>
    BY <2>1 DEF Take, Waiting, ctrlVars
  <2>3. \A k \in AnyPort \ {rx_port_idx} : Waiting(k) => Waiting(k)'
    BY <2>1, <2>2 DEF Waiting, Whole, TypeOK, AnyPort
  <2>4. Queueing' /\ over' \in [AnyPort -> [AnyPort -> Nat]]
    BY <2>1, <2>2, <2>3, QueueingServed DEF TypeOK, Taken
  <2>5. TypeOK' /\ Locks' /\ Switches' /\ PeekHolds' /\ Seen'
    BY <2>1, <2>2, <2>4 DEF Take, Taken, TypeOK, Locks, Switches, PeekHolds, Seen, ctrlVars,
              testVars
  <2>6. \A k \in Port : consumed'[k] \in Nat /\ consumed'[k] % 2 = 0 /\ consumed'[k] >= consumed[k]
    <3>1. \A x \in Nat : x % 2 = 0 => (x + 2) % 2 = 0
      OBVIOUS
    <3>2. \A k \in Port : consumed[k] \in Nat /\ consumed[k] % 2 = 0
      BY DEF TypeOK, Pieces
    <3>3. \A k \in Port : consumed'[k] = IF k = rx_port_idx THEN consumed[k] + 2 ELSE consumed[k]
      BY <2>2 DEF TypeOK
    <3> QED
      BY <3>1, <3>2, <3>3
  <2>7. Pieces'
    BY <2>2, <2>6 DEF Take, Pieces, ctrlVars
  <2>8. OffMeansSilent'
    BY <2>2, <2>6 DEF Take, Taken, TypeOK, OffMeansSilent, Off, ctrlVars, testVars
  <2> QED
    BY <2>4, <2>5, <2>7, <2>8
<1>6. CASE (\E k \in Port : StartSend(k)) \/ FinishSend
  <2>1. TypeOK' /\ PeekHolds' /\ Seen'
    <3>1. ASSUME NEW k \in Port, StartSend(k)
          PROVE  TypeOK' /\ PeekHolds' /\ Seen'
      BY <3>1 DEF StartSend, TypeOK, PeekHolds, Seen, sockVars, ctrlVars, testVars
    <3>2. CASE FinishSend
      BY <3>2 DEF FinishSend, TypeOK, PeekHolds, Seen, sockVars, ctrlVars, testVars
    <3> QED
      BY <1>6, <3>1, <3>2
  <2>2. /\ UNCHANGED <<written, consumed, mq_user, mutex, link_states, over, rx_port_idx, cpc,
                       cport, due, wanted>>
        /\ npc' \in {"send", "loop"}
    BY <1>6 DEF StartSend, FinishSend, sockVars, ctrlVars, testVars
  <2>3. Locks' /\ Switches' /\ Pieces' /\ OffMeansSilent'
    BY <2>2 DEF Locks, Switches, Pieces, OffMeansSilent, Off
  <2>4. Queueing'
    BY <2>2, QueueingKept DEF Waiting, Whole
  <2> QED
    BY <2>1, <2>3, <2>4
<1> QED
  BY <1>1, <1>2, <1>3, <1>4, <1>5, <1>6 DEF NodeStep

\* The ctrl thread switches a link only while nobody reads it, and drains it.
LEMMA CtrlKeepsIInv ==
  ASSUME IInv, CtrlStep
  PROVE  IInv'
<1> USE DEF IInv
<1>1. ASSUME NEW k \in Port, Request(k)
      PROVE  IInv'
  <2>1. /\ TypeOK' /\ Locks' /\ Switches' /\ Pieces' /\ PeekHolds'
        /\ UNCHANGED <<over, rx_port_idx, npc, written, consumed, mq_user, link_states, wanted, due>>
    BY <1>1 DEF Request, TypeOK, Locks, Switches, Pieces, PeekHolds, sockVars, nodeVars, testVars
  <2>2. Queueing' /\ Seen'
    BY <2>1, QueueingKept DEF Waiting, Whole, Seen
  <2>3. \A j \in Port : Off(j)' => Off(j)
    BY <1>1, <2>1, PortIs DEF Request, TypeOK, Off
  <2>4. OffMeansSilent'
    BY <2>1, <2>3 DEF OffMeansSilent
  <2> QED
    BY <2>1, <2>2, <2>4
<1>2. CASE Switch
  <2> USE <1>2
  <2> DEFINE k == cport
  <2>1. /\ k \in Port /\ k \in AnyPort /\ k # 0
        /\ ~(npc \in {"locked", "peeked"} /\ rx_port_idx = k)
        /\ link_states[k] # wanted[k]
    BY PortIs DEF Switch, TypeOK, Locks, Switches
  <2>2. UNCHANGED <<written, consumed, mq_user, npc, rx_port_idx, wanted>>
    BY DEF Switch, sockVars, nodeVars, testVars
  <2>3. CASE wanted[k]
    <3>1. TypeOK' /\ Locks' /\ Switches' /\ PeekHolds'
      BY <2>1, <2>3 DEF Switch, TypeOK, Locks, Switches, PeekHolds, sockVars, nodeVars, testVars
    <3>7. Pieces'
      <4>1. \A j \in Port : due'[j] = IF j = k THEN 0 ELSE due[j]
        BY <2>3 DEF Switch, TypeOK
      <4> QED
        BY <2>2, <4>1 DEF Pieces, TypeOK
    <3>2. /\ \A j \in Port : link_states[j] => link_states'[j]
          /\ UNCHANGED over
      BY <2>1, <2>3 DEF Switch, TypeOK
    <3>3. \A j \in AnyPort : Waiting(j) => Waiting(j)'
      BY <2>2, <3>2 DEF Waiting, Whole, AnyPort
    <3>4. Queueing' /\ Seen'
      BY <2>2, <3>2, <3>3, QueueingKept DEF Seen, TypeOK
    <3>5. \A j \in Port : Off(j)' => Off(j) /\ due'[j] = due[j]
      BY <2>1, <2>2, <2>3 DEF Switch, TypeOK, Off
    <3>6. OffMeansSilent'
      BY <2>2, <3>5 DEF OffMeansSilent
    <3> QED
      BY <3>1, <3>4, <3>6, <3>7
  <2>4. CASE ~wanted[k]
    <3> DEFINE w == 2 * (written[k] \div 2)
    <3>1. w \in Nat /\ w % 2 = 0 /\ w <= written[k]
      BY <2>1 DEF TypeOK
    <3>2. due' = [due EXCEPT ![k] = w] /\ cport' = k
      BY <2>4 DEF Switch
    <3>3. Pieces'
      BY <2>1, <2>2, <3>1, <3>2 DEF TypeOK, Pieces
    <3>4. over' = [over EXCEPT ![k] = [j \in AnyPort |-> 0]]
      BY <2>4 DEF Switch
    <3>5. TypeOK' /\ Locks' /\ Switches' /\ PeekHolds'
      <4>1. over' \in [AnyPort -> [AnyPort -> Nat]] /\ due' \in [Port -> Nat]
        BY <3>1, <3>2, <3>4 DEF TypeOK
      <4> QED
        BY <2>1, <2>2, <2>4, <4>1 DEF Switch, TypeOK, Locks, Switches, PeekHolds, sockVars,
                  nodeVars, testVars
    <3>6. \A j \in AnyPort \ {k} : Waiting(j) => Waiting(j)'
      BY <2>1, <2>2 DEF Switch, TypeOK, Waiting, Whole, AnyPort
    <3>7. Queueing'
      BY <2>1, <2>2, <3>4, <3>6 DEF Queueing, TypeOK
    <3>8. Seen'
      BY <2>1, <2>2, <3>6 DEF Seen, TypeOK
    <3>9. \A j \in Port : Off(j)' => Off(j) /\ due'[j] = due[j]
      BY <2>1, <2>2, <3>2 DEF Switch, TypeOK, Off
    <3>10. OffMeansSilent'
      BY <2>2, <3>9 DEF OffMeansSilent
    <3> QED
      BY <3>3, <3>5, <3>7, <3>8, <3>10
  <2> QED
    BY <2>3, <2>4
<1>3. CASE Drain
  <2> USE <1>3
  <2> DEFINE k == cport
  <2>1. /\ k \in Port /\ k \in AnyPort /\ k # User /\ k # 0
        /\ ~(npc \in {"locked", "peeked"} /\ rx_port_idx = k)
        /\ ~link_states[k] /\ ~wanted[k]
    BY PortIs DEF Drain, TypeOK, Locks, Switches
  <2>2. UNCHANGED <<written, mq_user, npc, rx_port_idx, wanted, link_states, due, over>>
    BY DEF Drain, nodeVars, testVars
  <2>3. \A j \in Port \ {k} : consumed'[j] = consumed[j]
    BY DEF Drain, TypeOK
  <2>4. Seen' /\ Queueing'
    <3>1. \A j \in AnyPort : Waiting(j) => Waiting(j)'
      BY <2>1, <2>2, <2>3 DEF Waiting, Whole, AnyPort
    <3> QED
      BY <2>2, <3>1, QueueingKept DEF Seen, TypeOK
  <2>5. CASE Whole(k)
    <3>1. consumed' = [consumed EXCEPT ![k] = @ + 2] /\ UNCHANGED <<mutex, cpc, cport>>
      BY <2>5 DEF Drain
    <3>2. consumed'[k] \in Nat /\ consumed'[k] % 2 = 0
      <4>1. consumed[k] \in Nat /\ consumed[k] % 2 = 0
        BY <2>1 DEF TypeOK, Pieces
      <4>2. consumed'[k] = consumed[k] + 2
        BY <2>1, <3>1 DEF TypeOK
      <4> QED
        BY <4>1, <4>2
    <3>3. TypeOK' /\ Locks' /\ Switches' /\ PeekHolds'
      BY <2>1, <2>2, <3>1 DEF Drain, TypeOK, Locks, Switches, PeekHolds, nodeVars, testVars
    <3>4. Pieces'
      BY <2>2, <2>3, <3>2 DEF Pieces
    <3>5. OffMeansSilent'
      BY <2>1, <2>2, <2>3, <3>1 DEF OffMeansSilent, Off
    <3> QED
      BY <2>4, <3>3, <3>4, <3>5
  <2>6. CASE ~Whole(k)
    <3>1. EndDrain /\ UNCHANGED consumed
      BY <2>6 DEF Drain
    <3>2. consumed[k] >= due[k]
      <4>1. /\ {consumed[k], written[k], due[k]} \subseteq Nat
            /\ consumed[k] % 2 = 0 /\ due[k] % 2 = 0 /\ due[k] <= written[k]
        BY <2>1 DEF TypeOK, Pieces
      <4>2. written[k] - consumed[k] < 2
        BY <2>1, <2>6, <4>1 DEF Whole
      <4> QED
        BY <4>1, <4>2
    <3>3. TypeOK' /\ Locks' /\ Switches' /\ Pieces' /\ PeekHolds'
      BY <2>1, <2>2, <3>1 DEF Drain, EndDrain, TypeOK, Locks, Switches, Pieces, PeekHolds,
                nodeVars, testVars
    <3>4. OffMeansSilent'
      BY <2>1, <2>2, <3>1, <3>2 DEF OffMeansSilent, Off, EndDrain
    <3> QED
      BY <2>4, <3>3, <3>4
  <2> QED
    BY <2>5, <2>6
<1> QED
  BY <1>1, <1>2, <1>3 DEF CtrlStep

\* The test case changes what is wanted only when all links are as it wants them.
LEMMA TestKeepsIInv ==
  ASSUME IInv, SendPacket \/ \E k \in Port : ChangeLinkState(k)
  PROVE  IInv'
<1> USE DEF IInv
<1>1. CASE SendPacket
  <2>1. /\ TypeOK' /\ Locks' /\ Switches' /\ Pieces' /\ PeekHolds' /\ OffMeansSilent'
        /\ UNCHANGED <<over, rx_port_idx, npc, written, consumed, link_states>>
        /\ mq_user' = mq_user + 1
    BY <1>1 DEF SendPacket, TypeOK, Locks, Switches, Pieces, PeekHolds, OffMeansSilent, Off,
                sockVars, nodeVars, ctrlVars
  <2>2. \A j \in AnyPort : Waiting(j) => Waiting(j)'
    BY <2>1 DEF Waiting, Whole, TypeOK
  <2> QED
    BY <2>1, <2>2, QueueingKept DEF Seen, TypeOK
<1>2. ASSUME NEW k \in Port, ChangeLinkState(k)
      PROVE  IInv'
  <2> USE <1>2
  <2>1. TypeOK' /\ Locks' /\ Switches' /\ Pieces' /\ PeekHolds'
    BY DEF ChangeLinkState, TypeOK, Locks, Switches, Pieces, PeekHolds, sockVars, nodeVars, ctrlVars
  <2>2. UNCHANGED <<over, rx_port_idx, npc, written, consumed, mq_user, link_states, cport, due>>
    BY DEF ChangeLinkState, sockVars, nodeVars, ctrlVars
  <2>3. Queueing' /\ Seen'
    BY <2>2, QueueingKept DEF Waiting, Whole, Seen
  <2>4. \A j \in Port : Off(j)' => Off(j)
    BY <2>2 DEF ChangeLinkState, TypeOK, Off
  <2>5. OffMeansSilent'
    BY <2>2, <2>4 DEF OffMeansSilent
  <2> QED
    BY <2>1, <2>3, <2>5
<1> QED
  BY <1>1, <1>2

LEMMA Invariance == Spec => []IInv
<1>1. IInv /\ [Next]_vars => IInv'
  <2>1. ASSUME IInv, UNCHANGED vars PROVE IInv'
    BY <2>1 DEF IInv, TypeOK, Locks, Switches, Pieces, PeekHolds, Seen, OffMeansSilent, Off,
                Queueing, Waiting, Whole, vars, sockVars, nodeVars, ctrlVars, testVars
  <2> QED
    BY <2>1, NeighbourKeepsIInv, NodeKeepsIInv, CtrlKeepsIInv, TestKeepsIInv DEF Next
<1> QED
  BY <1>1, InitIInv, PTL DEF Spec

-----------------------------------------------------------------------------
(* Theorems *)

\* node_recv never finds less than it has just seen: the mutex of the port keeps
\* task_update_link_state from draining it in between.
THEOREM NoShortRead == Spec => []PeekHolds
  BY Invariance, PTL DEF IInv

\* Between the answer to a disable and the next enable the node reads nothing from
\* the port, and what was there at the disable is gone, however many links are
\* switched and however packets are cut in pieces.
THEOREM DisabledPortsAreSilent == Spec => []OffMeansSilent
  BY Invariance, PTL DEF IInv

\* node_recv serves its ports in turn: none is served twice while a packet waits
\* at another that is enabled.
THEOREM RoundRobin == Spec => []NoPortServedTwice
<1>1. IInv => NoPortServedTwice
  BY DEF IInv, Queueing, NoPortServedTwice
<1> QED
  BY <1>1, Invariance, PTL
=============================================================================
