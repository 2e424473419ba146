------------------------------- MODULE Links -------------------------------
(***************************************************************************)
(* The ports of one node (framework/fragment.cpp, node_context): its node  *)
(* thread reads them round-robin and sends with blocking calls, its ctrl   *)
(* thread switches links on and off under the ports' mutexes, and the      *)
(* neighbours do the same at the other ends.  Sockets are bounded, and a   *)
(* packet may be half there: it goes over the wire in two pieces.          *)
(*                                                                         *)
(* The pieces of a link are numbered, so that a socket is two counters:    *)
(* what was written to it and what was read.  Piece 2i ends packet i.      *)
(***************************************************************************)
EXTENDS Integers

CONSTANTS
  P,           \* config.num_neighbors; port P + 1 is the user port
  RxCapacity,  \* pieces that a receive socket holds
  TxCapacity,  \* packets that a socket to a neighbour holds
  MaxPackets,  \* MaxPackets[k]: bound on the packets of the neighbour at port k
  MaxOut,      \* MaxOut[k]: bound on the packets the node sends to port k
  MaxInject,   \* bound on the packets of the user
  MaxChanges   \* bound on the calls of change_link_state

Port == 1 .. P
User == P + 1
AnyPort == Port \cup {User}

ASSUME LinksAssumption ==
  /\ {P, TxCapacity} \subseteq Nat \ {0}
  /\ RxCapacity \in Nat /\ RxCapacity >= 2
  /\ {MaxPackets, MaxOut} \subseteq [Port -> Nat]
  /\ {MaxInject, MaxChanges} \subseteq Nat

VARIABLES
  written, consumed,  \* per port: pieces written to and read from its receive socket
  sending,            \* per port: the neighbour's node thread is in node_send to this node
  nb_up,              \* per port: link_states of the neighbour's end
  tx,                 \* per port: packets in the socket to the neighbour
  mq_user,            \* packets in the user's queue
  link_states, mutex, \* per port
  npc,                \* node thread: "loop" (between calls), "scan", "locked" (has the mutex),
                      \* "peeked" (and has seen a whole packet), "send" or "exited"
  rx_port_idx,
  stop_idx,           \* User between calls, where it does not matter
  out,                \* the port node_send is called for
  cpc, cport,         \* ctrl thread: "await" a request, "lock", "drain"; the port it is for
  wanted,             \* per port: what change_link_state was last called with
  outs_left, injects_left, changes_left,
  due,                \* per port: packets to be gone when a disable is answered, a ghost
  over                \* over[k][j]: packets taken from j while one was waiting at k, a ghost

sockVars == <<written, consumed, sending, nb_up, tx>>
nodeVars == <<npc, rx_port_idx, stop_idx, out, outs_left>>
ctrlVars == <<link_states, cpc, cport, due>>
testVars == <<wanted, changes_left, injects_left>>
vars == <<sockVars, mq_user, mutex, nodeVars, ctrlVars, testVars, over>>

Whole(k) == IF k = User THEN mq_user > 0 ELSE written[k] - consumed[k] >= 2

\* A packet is there that the node thread may take.
Waiting(k) == Whole(k) /\ (k # User => link_states[k])

Init ==
  /\ written = [k \in Port |-> 0] /\ consumed = [k \in Port |-> 0]
  /\ sending = [k \in Port |-> FALSE]
  /\ nb_up = [k \in Port |-> TRUE]
  /\ tx = [k \in Port |-> 0]
  /\ mq_user = 0
  /\ link_states = [k \in Port |-> TRUE]
  /\ mutex = [k \in Port |-> "free"]
  /\ npc = "loop" /\ rx_port_idx = 1 /\ stop_idx = User /\ out = 0 /\ outs_left = MaxOut
  /\ cpc = "await" /\ cport = 0
  /\ wanted = [k \in Port |-> TRUE]
  /\ changes_left = MaxChanges /\ injects_left = MaxInject
  /\ due = [k \in Port |-> 0]
  /\ over = [k \in AnyPort |-> [j \in AnyPort |-> 0]]

-----------------------------------------------------------------------------
(* The neighbours *)

NbSend(k) ==
  /\ ~sending[k]
  /\ written[k] < 2 * MaxPackets[k]
  /\ sending' = [sending EXCEPT ![k] = TRUE]
  /\ UNCHANGED <<written, consumed, nb_up, tx, mq_user, mutex, nodeVars, ctrlVars, testVars, over>>

\* node_send writes as long as there is room, and returns after the last piece.
NbSendPart(k) ==
  /\ sending[k]
  /\ written[k] - consumed[k] < RxCapacity
  /\ written' = [written EXCEPT ![k] = @ + 1]
  /\ sending' = [sending EXCEPT ![k] = written'[k] % 2 = 1]
  /\ UNCHANGED <<consumed, nb_up, tx, mq_user, mutex, nodeVars, ctrlVars, testVars, over>>

\* It reads when it is not sending and its end is enabled.
NbRecv(k) ==
  /\ ~sending[k] /\ nb_up[k]
  /\ tx[k] > 0
  /\ tx' = [tx EXCEPT ![k] = @ - 1]
  /\ UNCHANGED <<written, consumed, sending, nb_up, mq_user, mutex, nodeVars, ctrlVars, testVars,
                 over>>

\* Its ctrl thread does what change_link_state asks for, and drains.
NbUpdateLinkState(k) ==
  /\ nb_up[k] # wanted[k]
  /\ nb_up' = [nb_up EXCEPT ![k] = wanted[k]]
  /\ tx' = IF wanted[k] THEN tx ELSE [tx EXCEPT ![k] = 0]
  /\ UNCHANGED <<written, consumed, sending, mq_user, mutex, nodeVars, ctrlVars, testVars, over>>

-----------------------------------------------------------------------------
(* The node thread: node_recv *)

StartRecv ==
  /\ npc = "loop"
  /\ npc' = "scan" /\ stop_idx' = rx_port_idx
  /\ UNCHANGED <<rx_port_idx, out, outs_left, sockVars, mq_user, mutex, ctrlVars, testVars, over>>

\* Mutant: the modulus is the number of neighbours, the user port is left out.
NextPortNoUser(k) == 1 + (k % P)

NextPort(k) == 1 + (k % (P + 1))

\* Nothing at this port: the next one, unless all have been tried.
Skip ==
  /\ rx_port_idx' = NextPort(rx_port_idx)
  /\ IF rx_port_idx' = stop_idx
       THEN npc' = "loop" /\ stop_idx' = User
       ELSE npc' = "scan" /\ UNCHANGED stop_idx
  /\ UNCHANGED <<out, outs_left>>

\* Mutant: after a packet, the same port is tried again.
TakenStays ==
  /\ UNCHANGED rx_port_idx
  /\ npc' = "loop" /\ stop_idx' = User
  /\ UNCHANGED <<out, outs_left>>

\* A packet is returned to the node, and the next call starts at the next port.
Taken ==
  /\ rx_port_idx' = NextPort(rx_port_idx)
  /\ npc' = "loop" /\ stop_idx' = User
  /\ UNCHANGED <<out, outs_left>>

\* Ghost: a packet is taken from j.
Overtake(j) ==
  over' = [k \in AnyPort |->
    IF k = j \/ ~Waiting(k) THEN [i \in AnyPort |-> 0] ELSE [over[k] EXCEPT ![j] = @ + 1]]

RecvUser ==
  /\ npc = "scan" /\ rx_port_idx = User
  /\ IF mq_user > 0
       THEN mq_user' = mq_user - 1 /\ Taken /\ Overtake(User)
       ELSE Skip /\ UNCHANGED <<mq_user, over>>
  /\ UNCHANGED <<sockVars, mutex, ctrlVars, testVars>>

LockPort ==
  /\ npc = "scan" /\ rx_port_idx # User
  /\ mutex[rx_port_idx] = "free"
  /\ mutex' = [mutex EXCEPT ![rx_port_idx] = "node"]
  /\ npc' = "locked"
  /\ UNCHANGED <<rx_port_idx, stop_idx, out, outs_left, sockVars, mq_user, ctrlVars, testVars, over>>

\* _recv_once, as far as it peeks: is the link up and a whole packet there?
Peek ==
  /\ npc = "locked"
  /\ IF Waiting(rx_port_idx)
       THEN /\ npc' = "peeked"
            /\ UNCHANGED <<rx_port_idx, stop_idx, out, outs_left, mutex>>
       ELSE /\ mutex' = [mutex EXCEPT ![rx_port_idx] = "free"]
            /\ Skip
  /\ UNCHANGED <<sockVars, mq_user, ctrlVars, testVars, over>>

\* _recv_once, as it reads: fewer bytes than it has seen would end the thread.
Take ==
  /\ npc = "peeked"
  /\ mutex' = [mutex EXCEPT ![rx_port_idx] = "free"]
  /\ IF Whole(rx_port_idx)
       THEN /\ consumed' = [consumed EXCEPT ![rx_port_idx] = @ + 2]
            /\ Taken
            /\ Overtake(rx_port_idx)
       ELSE /\ npc' = "exited"
            /\ UNCHANGED <<consumed, rx_port_idx, stop_idx, out, outs_left, over>>
  /\ UNCHANGED <<written, sending, nb_up, tx, mq_user, ctrlVars, testVars>>

(* The node thread: node_send *)

StartSend(k) ==
  /\ npc = "loop" /\ outs_left[k] > 0
  /\ npc' = "send" /\ out' = k
  /\ outs_left' = [outs_left EXCEPT ![k] = @ - 1]
  /\ UNCHANGED <<rx_port_idx, stop_idx, sockVars, mq_user, mutex, ctrlVars, testVars, over>>

\* Mutant: waits for room for one more packet than it has.
FinishSendSpare ==
  /\ npc = "send"
  /\ tx[out] + 1 < TxCapacity
  /\ tx' = [tx EXCEPT ![out] = @ + 1]
  /\ npc' = "loop" /\ out' = 0
  /\ UNCHANGED <<rx_port_idx, stop_idx, outs_left, written, consumed, sending, nb_up, mq_user, mutex,
                 ctrlVars, testVars, over>>

\* The call returns when the socket has taken the packet; nothing else ends it.
FinishSend ==
  /\ npc = "send"
  /\ tx[out] < TxCapacity
  /\ tx' = [tx EXCEPT ![out] = @ + 1]
  /\ npc' = "loop" /\ out' = 0
  /\ UNCHANGED <<rx_port_idx, stop_idx, outs_left, written, consumed, sending, nb_up, mq_user, mutex,
                 ctrlVars, testVars, over>>

NodeStep ==
  \/ StartRecv
  \/ RecvUser
  \/ LockPort
  \/ Peek
  \/ Take
  \/ \E k \in Port : StartSend(k)
  \/ FinishSend

-----------------------------------------------------------------------------
(* The ctrl thread, and the test case it serves *)

\* change_link_state: both ends are asked, one after the other, in either order.
ChangeLinkState(k) ==
  /\ changes_left > 0
  /\ \A j \in Port : link_states[j] = wanted[j] /\ nb_up[j] = wanted[j]
  /\ cpc = "await"
  /\ wanted' = [wanted EXCEPT ![k] = ~@]
  /\ changes_left' = changes_left - 1
  /\ UNCHANGED <<injects_left, sockVars, mq_user, mutex, nodeVars, ctrlVars, over>>

\* task_send_packet
SendPacket ==
  /\ cpc = "await"
  /\ injects_left > 0
  /\ injects_left' = injects_left - 1
  /\ mq_user' = mq_user + 1
  /\ UNCHANGED <<wanted, changes_left, sockVars, mutex, nodeVars, ctrlVars, over>>

Request(k) ==
  /\ cpc = "await"
  /\ link_states[k] # wanted[k]
  /\ cpc' = "lock" /\ cport' = k
  /\ UNCHANGED <<link_states, due, sockVars, mq_user, mutex, nodeVars, testVars, over>>

\* Mutant: the switch is thrown without the lock.
SwitchUnlocked ==
  /\ cpc = "lock"
  /\ link_states' = [link_states EXCEPT ![cport] = wanted[cport]]
  /\ IF wanted[cport]
       THEN /\ cpc' = "await" /\ cport' = 0
            /\ due' = [due EXCEPT ![cport] = 0]
            /\ UNCHANGED mutex
       ELSE /\ cpc' = "drain"
            /\ due' = [due EXCEPT ![cport] = 2 * (written[cport] \div 2)]
            /\ UNCHANGED <<mutex, cport>>
  /\ UNCHANGED <<sockVars, mq_user, nodeVars, testVars, over>>

\* task_update_link_state: lock and switch; an enable is done with that.  With
\* a disable, nothing waits at the port any more.
Switch ==
  /\ cpc = "lock"
  /\ mutex[cport] = "free"
  /\ link_states' = [link_states EXCEPT ![cport] = wanted[cport]]
  /\ IF wanted[cport]
       THEN /\ cpc' = "await" /\ cport' = 0
            /\ due' = [due EXCEPT ![cport] = 0]
            /\ UNCHANGED mutex
       ELSE /\ cpc' = "drain"
            /\ mutex' = [mutex EXCEPT ![cport] = "ctrl"]
            /\ due' = [due EXCEPT ![cport] = 2 * (written[cport] \div 2)]
            /\ UNCHANGED cport
  /\ over' = IF wanted[cport] THEN over ELSE [over EXCEPT ![cport] = [j \in AnyPort |-> 0]]
  /\ UNCHANGED <<sockVars, mq_user, nodeVars, testVars>>

\* Unlock, and answer.
EndDrain ==
  /\ mutex' = [mutex EXCEPT ![cport] = "free"]
  /\ cpc' = "await" /\ cport' = 0

\* Mutant: one packet is all that is drained.
DrainOnce ==
  /\ cpc = "drain"
  /\ consumed' = IF Whole(cport) THEN [consumed EXCEPT ![cport] = @ + 2] ELSE consumed
  /\ EndDrain
  /\ UNCHANGED <<link_states, due, written, sending, nb_up, tx, mq_user, nodeVars, testVars, over>>

\* Try once more, until nothing whole is there.  A packet half there stays.
Drain ==
  /\ cpc = "drain"
  /\ IF Whole(cport)
       THEN /\ consumed' = [consumed EXCEPT ![cport] = @ + 2]
            /\ UNCHANGED <<mutex, cpc, cport>>
       ELSE EndDrain /\ UNCHANGED consumed
  /\ UNCHANGED <<link_states, due, written, sending, nb_up, tx, mq_user, nodeVars, testVars, over>>

CtrlStep ==
  \/ \E k \in Port : Request(k)
  \/ Switch
  \/ Drain

-----------------------------------------------------------------------------
Next ==
  \/ NodeStep
  \/ CtrlStep
  \/ SendPacket
  \/ \E k \in Port :
       \/ ChangeLinkState(k)
       \/ NbSend(k)
       \/ NbSendPart(k)
       \/ NbRecv(k)
       \/ NbUpdateLinkState(k)

Spec == Init /\ [][Next]_vars

\* All threads run.  Nobody has to send or to change a link; no thread is promised
\* a mutex that is free only now and then.
FairSpec ==
  /\ Spec
  /\ WF_vars(NodeStep)
  /\ WF_vars(CtrlStep)
  /\ WF_vars(\E k \in Port : NbSendPart(k) \/ NbRecv(k))

-----------------------------------------------------------------------------
(* Properties *)

\* Draining a port never takes away what the node thread has just seen there:
\* the node thread does not die of a short read.
PeekHolds == npc # "exited"

\* The end of port k at this node is off, and the test case has been told so.
Off(k) == ~wanted[k] /\ ~link_states[k] /\ cport # k

\* From the answer to a disable to the next enable, the node gets nothing from
\* the port; and nothing that was there whole when it was disabled is left for
\* later.
OffMeansSilent ==
  /\ \A k \in Port : Off(k) => ~(npc = "peeked" /\ rx_port_idx = k)
  /\ \A k \in Port : Off(k) => consumed[k] >= due[k]

\* Round-robin: while a packet waits at a port, no other port is served twice,
\* whichever port the calls of node_recv start from and end at.
NoPortServedTwice == \A k, j \in AnyPort : over[k][j] <= 1

\* Unless the node is stuck in a send for ever, no packet waits for ever at
\* a port that stays enabled, the user's port included.
Served ==
  \A k \in AnyPort : <>[](npc = "send") \/ []<>~Waiting(k)

\* Neighbour and node each wait for the other to read.
Deadlocked(k) == sending[k] /\ written[k] - consumed[k] = RxCapacity /\ tx[k] = TxCapacity

\* node_send returns, unless the neighbour's end of the link is disabled or the
\* neighbour is itself in a node_send to this node, and both sockets are full:
\* blocking sends look at nothing else, so these two are never resolved.
SendReturns ==
  \A k \in Port : (out = k) ~> (out # k \/ ~nb_up[k] \/ Deadlocked(k))
=============================================================================
