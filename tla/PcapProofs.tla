----------------------------- MODULE PcapProofs -----------------------------
(***************************************************************************)
(* Theorems about the way of packets from the nodes to the test case, for  *)
(* every number of fragments, packets, subscription changes and crashes    *)
(* and every capacity of queues and connections.                           *)
(***************************************************************************)
EXTENDS PcapPlane, SequenceTheorems, TLAPS

Item == Packet \cup {SENTINEL}

OrchTypes ==
  /\ main \in {"run", "wait", "join", "end", "done"}
  /\ callee \in Fragment
  /\ sent \in 0 .. MaxPackets
  /\ want \in [Fragment -> BOOLEAN]
  /\ opc \in {"poll", "scan", "recv", "exited"}
  /\ at \in Fragment

CtrlTypes ==
  /\ request \in [Fragment -> [type : {"NONE", "PCAP_SUBSCRIPTION", "SEND_PACKET", "END_TESTCASE"},
                               arg : Nat]]
  /\ \A f \in Fragment : request[f].type = "SEND_PACKET" => request[f].arg \in Packet
  /\ response \in [Fragment -> {"pending", "NONE", "FRAGMENT_EXCEPTION"}]
  /\ ctrl \in [Fragment -> {"await", "sentinel", "sleep", "ended", "failed"}]
  /\ crashed \in [Fragment -> BOOLEAN]

NodeTypes ==
  /\ mq_user \in [Fragment -> Seq(Packet)]
  /\ node \in [Fragment -> {"loop", "handle", "exited"}]
  /\ packet \in [Fragment -> {<<>>} \cup ({"user", "link"} \X Packet)]
  /\ \A f \in Fragment : node[f] = "handle" => packet[f] \in {"user", "link"} \X Packet
  /\ net \in [Fragment -> SUBSET Packet]

\* Where a mirrored packet goes, from the queue to the test case.
PathTypes ==
  /\ pcap \in [Fragment -> {"check", "read", "send", "sending", "exited"}]
  /\ counted \in [Fragment -> Seq(Item)]
  /\ wire \in [Fragment -> Seq(Item)]
  /\ hand \in [Fragment -> Seq(Item)]
  /\ mq_pcap \in [Fragment -> Seq(Item)]
  /\ mirrored \in [Fragment -> Seq(Item)]

TypeOK == OrchTypes /\ CtrlTypes /\ NodeTypes /\ PathTypes

\* The pcap thread has nothing in its hand when it goes to its queue.
EmptyHanded == \A f \in Fragment : pcap[f] \in {"check", "read"} => hand[f] = <<>>

\* Until the pcap thread has read it, the sentinel is in the queue.
SentinelComes ==
  \A f \in Fragment :
    ctrl[f] = "sleep" => pcap[f] = "exited" \/ \E i \in DOMAIN mq_pcap[f] : mq_pcap[f][i] = SENTINEL

\* The END_TESTCASE round has begun.
Ending == main \in {"end", "done"}

\* While the test case runs, nobody but the callee has a request or an answer under
\* way, and a fragment that is left with a request will not answer.
Calls ==
  \A f \in Fragment :
    /\ response[f] # "pending" => (main = "wait" /\ callee = f) \/ Ending
    /\ request[f].type # "NONE" /\ ~crashed[f] /\ ctrl[f] # "failed" =>
         (main = "wait" /\ callee = f /\ response[f] = "pending") \/ Ending
    /\ request[f].type = "END_TESTCASE" \/ ctrl[f] \in {"sentinel", "sleep", "ended"} => Ending

\* The orchestrator's pcap thread is joined before the END_TESTCASE round.
Joined == Ending => opc = "exited"

\* When the pcap thread has died of a broken connection, some fragment is gone that
\* will not answer END_TESTCASE.
Culprit ==
  pcap_thread_error = "PCAP_CONNECTION_BROKEN" =>
    \E f \in Fragment : crashed[f] /\ (Ending => response[f] = "pending")

\* A run without an error had an answer from every fragment.
AllAnswered ==
  main = "done" /\ exit_code = "NONE" => \A f \in Fragment : response[f] # "pending"

IInv ==
  /\ TypeOK /\ EmptyHanded /\ NothingLost /\ SentinelComes
  /\ Calls /\ Joined /\ Culprit /\ AllAnswered

-----------------------------------------------------------------------------
(* Sequences *)

\* Moving the first element of the second part to the end of the first.
LEMMA MoveHead ==
  ASSUME NEW S, NEW c \in Seq(S), NEW w \in Seq(S), w # <<>>
  PROVE  Append(c, Head(w)) \o Tail(w) = c \o w
<1>1. Head(w) \in S /\ Tail(w) \in Seq(S)
  BY HeadTailProperties
<1>2. <<Head(w)>> \in Seq(S) /\ <<Head(w)>> \o Tail(w) = w
  BY <1>1
<1>3. Append(c, Head(w)) = c \o <<Head(w)>>
  BY <1>1, AppendIsConcat
<1>4. (c \o <<Head(w)>>) \o Tail(w) = c \o (<<Head(w)>> \o Tail(w))
  BY <1>1, <1>2, ConcatAssociative
<1> QED
  BY <1>2, <1>3, <1>4

\* Appending to the last part.
LEMMA AppendLast ==
  ASSUME NEW S, NEW x \in Seq(S), NEW q \in Seq(S), NEW e \in S
  PROVE  x \o Append(q, e) = Append(x \o q, e)
<1>1. <<e>> \in Seq(S) /\ x \o q \in Seq(S)
  BY ConcatProperties
<1>2. Append(q, e) = q \o <<e>> /\ Append(x \o q, e) = (x \o q) \o <<e>>
  BY <1>1, AppendIsConcat
<1> QED
  BY <1>1, <1>2, ConcatAssociative

-----------------------------------------------------------------------------
(* Types *)

LEMMA ItemIs == Packet \subseteq Item /\ SENTINEL \in Item
  BY DEF Item

LEMMA InitTypeOK == Init => TypeOK
<1> SUFFICES ASSUME Init PROVE TypeOK
  OBVIOUS
<1>1. 1 \in Fragment /\ 0 \in 0 .. MaxPackets
  BY PcapAssumption DEF Fragment
<1> QED
  BY <1>1 DEF Init, TypeOK, OrchTypes, CtrlTypes, NodeTypes, PathTypes, NoRequest

LEMMA MainKeepsTypeOK ==
  ASSUME TypeOK, MainStep
  PROVE  TypeOK'
<1>1. NodeTypes' /\ PathTypes'
  <2>1. UNCHANGED <<fragVars, loopVars>>
    BY DEF MainStep, ChangeSubscription, SendPacket, Call, CallReturns, EndRun, Join, EndTestcase
  <2> QED
    BY <2>1 DEF TypeOK, NodeTypes, PathTypes, fragVars, loopVars, mqVars, nodeVars, pcapVars
<1>2. OrchTypes' /\ CtrlTypes'
  <2> USE DEF TypeOK, OrchTypes, CtrlTypes, loopVars, msgVars, fragVars, ctrlVars
  <2>1. ASSUME NEW f \in Fragment, NEW subscribe \in BOOLEAN, ChangeSubscription(f, subscribe)
        PROVE  OrchTypes' /\ CtrlTypes'
    BY <2>1 DEF ChangeSubscription, Call, Request
  <2>2. ASSUME NEW f \in Source, SendPacket(f)
        PROVE  OrchTypes' /\ CtrlTypes'
    <3>1. f \in Fragment /\ sent + 1 \in Packet /\ sent + 1 \in 0 .. MaxPackets /\ sent + 1 \in Nat
      BY <2>2, PcapAssumption DEF Fragment, Packet, SendPacket
    <3>2. request' = [request EXCEPT ![f] = [type |-> "SEND_PACKET", arg |-> sent + 1]]
      BY <2>2 DEF SendPacket, Call, Request
    <3> QED
      BY <2>2, <3>1, <3>2 DEF SendPacket, Call
  <2>3. CASE CallReturns
    <3>1. 1 \in Fragment
      BY PcapAssumption DEF Fragment
    <3> QED
      BY <2>3, <3>1 DEF CallReturns, LeaveRun
  <2>4. CASE EndRun
    BY <2>4 DEF EndRun, LeaveRun
  <2>5. CASE Join
    BY <2>5 DEF Join, Request
  <2>6. CASE EndTestcase
    BY <2>6 DEF EndTestcase
  <2> QED
    BY <2>1, <2>2, <2>3, <2>4, <2>5, <2>6 DEF MainStep
<1> QED
  BY <1>1, <1>2 DEF TypeOK

LEMMA LoopKeepsTypeOK ==
  ASSUME TypeOK, LoopStep
  PROVE  TypeOK'
<1>1. 1 \in Fragment /\ (at # N => at + 1 \in Fragment)
  BY PcapAssumption DEF TypeOK, OrchTypes, Fragment
<1>2. CtrlTypes' /\ NodeTypes'
  <2>1. UNCHANGED <<msgVars, ctrlVars, mqVars, nodeVars, crashed>>
    BY DEF LoopStep, Poll, PollFails, LeaveLoop, LoopEnds, Scan, Receive, ReceiveZero, ReceiveLate,
       ReceiveBroken, fragVars
  <2> QED
    BY <2>1 DEF TypeOK, CtrlTypes, NodeTypes, msgVars, ctrlVars, mqVars, nodeVars
<1>3. OrchTypes'
  BY <1>1 DEF LoopStep, Poll, PollFails, LeaveLoop, LoopEnds, Scan, Receive, ReceiveZero,
     ReceiveLate, ReceiveBroken, ScanNext, TypeOK, OrchTypes, mainVars
<1>4. PathTypes'
  <2>1. CASE Receive
    <3>1. at \in Fragment /\ wire[at] \in Seq(Item) /\ wire[at] # <<>> /\ counted[at] \in Seq(Item)
      BY <2>1 DEF Receive, TypeOK, OrchTypes, PathTypes
    <3>2. Append(counted[at], Head(wire[at])) \in Seq(Item) /\ Tail(wire[at]) \in Seq(Item)
      BY <3>1, HeadTailProperties, AppendProperties
    <3> QED
      BY <2>1, <3>1, <3>2 DEF Receive, TypeOK, PathTypes, mqVars, nodeVars
  <2>2. CASE ~Receive
    <3>1. UNCHANGED <<fragVars, counted>>
      BY <2>2 DEF LoopStep, Poll, PollFails, LeaveLoop, LoopEnds, Scan, ReceiveZero, ReceiveLate,
         ReceiveBroken
    <3> QED
      BY <3>1 DEF TypeOK, PathTypes, fragVars, mqVars, nodeVars, pcapVars
  <2> QED
    BY <2>1, <2>2
<1> QED
  BY <1>2, <1>3, <1>4 DEF TypeOK

LEMMA CtrlKeepsTypeOK ==
  ASSUME TypeOK, NEW f \in Fragment, CtrlStep(f) \/ Crash(f)
  PROVE  TypeOK'
<1>1. OrchTypes'
  <2>1. UNCHANGED orchVars
    BY DEF CtrlStep, UpdateSubscription, InjectPacket, StopThreads, WriteSentinel, JoinThreads,
       Crash
  <2> QED
    BY <2>1 DEF TypeOK, OrchTypes, orchVars, mainVars, loopVars
<1>2. CtrlTypes'
  <2> USE DEF TypeOK, CtrlTypes
  <2>1. CASE UpdateSubscription(f)
    BY <2>1 DEF UpdateSubscription, Serve, Respond, CheckThreads, NoRequest
  <2>2. CASE InjectPacket(f)
    BY <2>2 DEF InjectPacket, Serve, Respond, CheckThreads, NoRequest
  <2>3. CASE StopThreads(f)
    BY <2>3 DEF StopThreads, Serve, NoRequest
  <2>4. CASE WriteSentinel(f)
    BY <2>4 DEF WriteSentinel, msgVars
  <2>5. CASE JoinThreads(f)
    BY <2>5 DEF JoinThreads, Respond
  <2>6. CASE Crash(f)
    BY <2>6 DEF Crash, msgVars, ctrlVars
  <2> QED
    BY <2>1, <2>2, <2>3, <2>4, <2>5, <2>6 DEF CtrlStep
<1>3. NodeTypes'
  <2>1. CASE InjectPacket(f)
    <3>1. request[f].arg \in Packet /\ mq_user[f] \in Seq(Packet)
      BY <2>1 DEF InjectPacket, Serve, TypeOK, CtrlTypes, NodeTypes
    <3>2. Append(mq_user[f], request[f].arg) \in Seq(Packet)
      BY <3>1, AppendProperties
    <3>3. mq_user' \in [Fragment -> Seq(Packet)]
      BY <2>1, <3>2 DEF InjectPacket, TypeOK, NodeTypes
    <3> QED
      BY <2>1, <3>3 DEF InjectPacket, TypeOK, NodeTypes, nodeVars
  <2>2. CASE ~InjectPacket(f)
    <3>1. UNCHANGED <<mq_user, node, packet, net>>
      BY <2>2 DEF CtrlStep, UpdateSubscription, StopThreads, WriteSentinel, JoinThreads, Crash,
         mqVars, nodeVars
    <3> QED
      BY <3>1 DEF TypeOK, NodeTypes
  <2> QED
    BY <2>1, <2>2
<1>4. PathTypes'
  <2>1. CASE WriteSentinel(f)
    <3>1. /\ Append(mq_pcap[f], SENTINEL) \in Seq(Item)
          /\ Append(mirrored[f], SENTINEL) \in Seq(Item)
      BY ItemIs, AppendProperties DEF TypeOK, PathTypes
    <3> QED
      BY <2>1, <3>1 DEF WriteSentinel, TypeOK, PathTypes, orchVars, loopVars, pcapVars
  <2>2. CASE ~WriteSentinel(f)
    <3>1. UNCHANGED <<pcapVars, counted, mq_pcap, mirrored>>
      BY <2>2 DEF CtrlStep, UpdateSubscription, InjectPacket, StopThreads, JoinThreads, Crash,
         orchVars, loopVars, mqVars, nodeVars
    <3> QED
      BY <3>1 DEF TypeOK, PathTypes, pcapVars
  <2> QED
    BY <2>1, <2>2
<1> QED
  BY <1>1, <1>2, <1>3, <1>4 DEF TypeOK

LEMMA NodeKeepsTypeOK ==
  ASSUME TypeOK, NEW f \in Fragment, NodeStep(f)
  PROVE  TypeOK'
<1>1. OrchTypes' /\ CtrlTypes'
  <2>1. UNCHANGED <<orchVars, msgVars, ctrlVars, crashed>>
    BY DEF NodeStep, NodeReceive, ForwardFlood, DeliverFlood, NodeExit
  <2> QED
    BY <2>1 DEF TypeOK, OrchTypes, CtrlTypes, orchVars, mainVars, loopVars, msgVars, ctrlVars
<1>2. NodeTypes'
  <2> USE DEF TypeOK, NodeTypes
  <2>1. CASE NodeReceive(f)
    <3>1. CASE /\ mq_user[f] # <<>>
               /\ packet' = [packet EXCEPT ![f] = <<"user", Head(mq_user[f])>>]
               /\ mq_user' = [mq_user EXCEPT ![f] = Tail(@)]
               /\ UNCHANGED net
      <4>1. Head(mq_user[f]) \in Packet /\ Tail(mq_user[f]) \in Seq(Packet)
        BY <3>1, HeadTailProperties
      <4>2. mq_user' \in [Fragment -> Seq(Packet)]
        BY <3>1, <4>1
      <4>3. <<"user", Head(mq_user[f])>> \in {"user", "link"} \X Packet
        BY <4>1
      <4> QED
        BY <2>1, <3>1, <4>2, <4>3 DEF NodeReceive
    <3>2. ASSUME NEW p \in net[f],
                 packet' = [packet EXCEPT ![f] = <<"link", p>>],
                 net' = [net EXCEPT ![f] = @ \ {p}],
                 UNCHANGED mq_user
          PROVE  NodeTypes'
      <4>1. <<"link", p>> \in {"user", "link"} \X Packet
        OBVIOUS
      <4> QED
        BY <2>1, <3>2, <4>1 DEF NodeReceive
    <3> QED
      BY <2>1, <3>1, <3>2 DEF NodeReceive
  <2>2. CASE ForwardFlood(f)
    <3>1. packet[f][2] \in Packet
      BY <2>2 DEF ForwardFlood
    <3> QED
      BY <2>2, <3>1 DEF ForwardFlood, NodeHandled, mqVars
  <2>3. CASE DeliverFlood(f) \/ NodeExit(f)
    BY <2>3 DEF DeliverFlood, NodeExit, NodeHandled, mqVars
  <2> QED
    BY <2>1, <2>2, <2>3 DEF NodeStep
<1>3. PathTypes'
  <2>1. CASE DeliverFlood(f)
    <3>1. packet[f][2] \in Item
      BY <2>1, ItemIs DEF DeliverFlood, TypeOK, NodeTypes
    <3>2. /\ Append(mq_pcap[f], packet[f][2]) \in Seq(Item)
          /\ Append(mirrored[f], packet[f][2]) \in Seq(Item)
      BY <3>1, AppendProperties DEF TypeOK, PathTypes
    <3> QED
      BY <2>1, <3>2 DEF DeliverFlood, NodeHandled, TypeOK, PathTypes, orchVars, loopVars, pcapVars
  <2>2. CASE ~DeliverFlood(f)
    <3>1. UNCHANGED <<pcapVars, counted, mq_pcap, mirrored>>
      BY <2>2 DEF NodeStep, NodeReceive, ForwardFlood, NodeExit, orchVars, loopVars, mqVars,
         nodeVars
    <3> QED
      BY <3>1 DEF TypeOK, PathTypes, pcapVars
  <2> QED
    BY <2>1, <2>2
<1> QED
  BY <1>1, <1>2, <1>3 DEF TypeOK

LEMMA PcapKeepsTypeOK ==
  ASSUME TypeOK, NEW f \in Fragment, PcapStep(f)
  PROVE  TypeOK'
<1>1. OrchTypes' /\ CtrlTypes' /\ NodeTypes'
  <2>1. UNCHANGED <<orchVars, msgVars, ctrlVars, crashed, nodeVars, mq_user>>
    BY DEF PcapStep, PcapCheck, PcapRead, PcapSendPart, PcapSend, mqVars
  <2> QED
    BY <2>1 DEF TypeOK, OrchTypes, CtrlTypes, NodeTypes, orchVars, mainVars, loopVars, msgVars,
       ctrlVars, nodeVars
<1>2. PathTypes'
  <2> USE DEF TypeOK, PathTypes, orchVars, loopVars, nodeVars, mqVars
  <2>1. CASE PcapCheck(f)
    BY <2>1 DEF PcapCheck, PcapGoto
  <2>2. CASE PcapSendPart(f)
    BY <2>2 DEF PcapSendPart, PcapGoto
  <2>3. CASE PcapRead(f)
    <3>1. Head(mq_pcap[f]) \in Item /\ Tail(mq_pcap[f]) \in Seq(Item)
      BY <2>3, HeadTailProperties DEF PcapRead
    <3>2. <<Head(mq_pcap[f])>> \in Seq(Item)
      BY <3>1
    <3> QED
      BY <2>3, <3>1, <3>2 DEF PcapRead, PcapGoto
  <2>4. CASE PcapSend(f)
    <3>1. wire[f] \o hand[f] \in Seq(Item) /\ <<>> \in Seq(Item)
      BY ConcatProperties, EmptySeq
    <3> QED
      BY <2>4, <3>1 DEF PcapSend, PcapGoto
  <2> QED
    BY <2>1, <2>2, <2>3, <2>4 DEF PcapStep
<1> QED
  BY <1>1, <1>2 DEF TypeOK

LEMMA NextTypeOK == TypeOK /\ [Next]_vars => TypeOK'
<1>1. ASSUME TypeOK, UNCHANGED vars PROVE TypeOK'
  BY <1>1 DEF TypeOK, OrchTypes, CtrlTypes, NodeTypes, PathTypes, vars, orchVars, mainVars,
     loopVars, msgVars, fragVars, ctrlVars, mqVars, nodeVars, pcapVars
<1> QED
  BY <1>1, MainKeepsTypeOK, LoopKeepsTypeOK, CtrlKeepsTypeOK, NodeKeepsTypeOK, PcapKeepsTypeOK
  DEF Next, Finished, FragmentStep

-----------------------------------------------------------------------------
(* The way of a packet *)

LEMMA PathParts ==
  ASSUME TypeOK, NEW f \in Fragment
  PROVE  /\ counted[f] \in Seq(Item) /\ wire[f] \in Seq(Item) /\ hand[f] \in Seq(Item)
         /\ mq_pcap[f] \in Seq(Item) /\ mirrored[f] \in Seq(Item)
  BY DEF TypeOK, PathTypes

\* Who appends to the queue: the node thread and, at the end, the ctrl thread.
LEMMA AppendKeepsPath ==
  ASSUME TypeOK, NothingLost, EmptyHanded, NEW f \in Fragment, NEW e \in Item,
         mq_pcap' = [mq_pcap EXCEPT ![f] = Append(@, e)],
         mirrored' = [mirrored EXCEPT ![f] = Append(@, e)],
         UNCHANGED <<counted, wire, hand, pcap>>
  PROVE  NothingLost' /\ EmptyHanded'
<1>1. EmptyHanded'
  BY DEF EmptyHanded
<1>2. ASSUME NEW g \in Fragment
      PROVE  (counted[g] \o wire[g] \o hand[g] \o mq_pcap[g] = mirrored[g])'
  <2>1. CASE g # f
    BY <2>1 DEF NothingLost, TypeOK, PathTypes
  <2>2. CASE g = f
    <3> DEFINE x == counted[f] \o wire[f] \o hand[f]
    <3>1. x \in Seq(Item)
      BY PathParts, ConcatProperties
    <3>2. x \o Append(mq_pcap[f], e) = Append(x \o mq_pcap[f], e)
      <4>1. mq_pcap[f] \in Seq(Item)
        BY PathParts
      <4> HIDE DEF x
      <4> QED
        BY <3>1, <4>1, AppendLast
    <3>3. x \o mq_pcap[f] = mirrored[f]
      BY DEF NothingLost
    <3>4. mq_pcap'[f] = Append(mq_pcap[f], e) /\ mirrored'[f] = Append(mirrored[f], e)
      BY DEF TypeOK, PathTypes
    <3> QED
      BY <2>2, <3>2, <3>3, <3>4
  <2> QED
    BY <2>1, <2>2
<1> QED
  BY <1>1, <1>2 DEF NothingLost

LEMMA ReceiveKeepsPath ==
  ASSUME TypeOK, NothingLost, EmptyHanded, Receive
  PROVE  NothingLost' /\ EmptyHanded'
<1>1. EmptyHanded'
  BY DEF EmptyHanded, Receive
<1>2. ASSUME NEW g \in Fragment
      PROVE  (counted[g] \o wire[g] \o hand[g] \o mq_pcap[g] = mirrored[g])'
  <2>1. at \in Fragment /\ UNCHANGED <<hand, mq_pcap, mirrored>>
    BY DEF Receive, TypeOK, OrchTypes, mqVars, nodeVars
  <2>2. counted'[g] \o wire'[g] = counted[g] \o wire[g]
    <3>1. CASE g # at
      BY <3>1, <2>1 DEF Receive, TypeOK, PathTypes
    <3>2. CASE g = at
      <4>1. wire[g] # <<>>
        BY <3>2 DEF Receive
      <4>2. Append(counted[g], Head(wire[g])) \o Tail(wire[g]) = counted[g] \o wire[g]
        BY <4>1, PathParts, MoveHead
      <4>3. counted'[g] = Append(counted[g], Head(wire[g])) /\ wire'[g] = Tail(wire[g])
        BY <2>1, <3>2 DEF Receive, TypeOK, PathTypes
      <4> QED
        BY <4>2, <4>3
    <3> QED
      BY <3>1, <3>2
  <2> QED
    BY <2>1, <2>2 DEF NothingLost
<1> QED
  BY <1>1, <1>2 DEF NothingLost

LEMMA PcapReadKeepsPath ==
  ASSUME TypeOK, NothingLost, EmptyHanded, NEW f \in Fragment, PcapRead(f)
  PROVE  NothingLost' /\ EmptyHanded'
<1>1. UNCHANGED <<counted, wire, mirrored>>
  BY DEF PcapRead, orchVars, loopVars, nodeVars
<1>2. EmptyHanded'
  BY DEF EmptyHanded, PcapRead, PcapGoto, TypeOK, PathTypes
<1>3. ASSUME NEW g \in Fragment
      PROVE  (counted[g] \o wire[g] \o hand[g] \o mq_pcap[g] = mirrored[g])'
  <2>1. CASE g # f
    BY <1>1, <2>1 DEF NothingLost, PcapRead, TypeOK, PathTypes
  <2>2. CASE g = f
    <3> DEFINE x == counted[f] \o wire[f]
    <3>1. x \in Seq(Item) /\ mq_pcap[f] \in Seq(Item) /\ mq_pcap[f] # <<>>
      BY PathParts, ConcatProperties DEF PcapRead
    <3>2. hand[f] = <<>>
      BY DEF EmptyHanded, PcapRead
    <3>3. x \o hand[f] = x
      BY <3>1, <3>2, ConcatEmptySeq
    <3>4. Head(mq_pcap[f]) \in Item
      BY <3>1, HeadTailProperties
    <3>5. Append(x, Head(mq_pcap[f])) = x \o <<Head(mq_pcap[f])>>
      BY <3>1, <3>4, AppendIsConcat
    <3>6. Append(x, Head(mq_pcap[f])) \o Tail(mq_pcap[f]) = x \o mq_pcap[f]
      BY <3>1, MoveHead
    <3>7. hand'[f] = <<Head(mq_pcap[f])>> /\ mq_pcap'[f] = Tail(mq_pcap[f])
      BY DEF PcapRead, TypeOK, PathTypes
    <3>8. x \o hand[f] \o mq_pcap[f] = mirrored[f]
      BY DEF NothingLost
    <3> QED
      BY <1>1, <2>2, <3>3, <3>5, <3>6, <3>7, <3>8
  <2> QED
    BY <2>1, <2>2
<1> QED
  BY <1>2, <1>3 DEF NothingLost

LEMMA PcapSendKeepsPath ==
  ASSUME TypeOK, NothingLost, EmptyHanded, NEW f \in Fragment, PcapSend(f)
  PROVE  NothingLost' /\ EmptyHanded'
<1>1. UNCHANGED <<counted, mq_pcap, mirrored>>
  BY DEF PcapSend, orchVars, loopVars, nodeVars, mqVars
<1>2. EmptyHanded'
  BY DEF EmptyHanded, PcapSend, PcapGoto, TypeOK, PathTypes
<1>3. ASSUME NEW g \in Fragment
      PROVE  (counted[g] \o wire[g] \o hand[g] \o mq_pcap[g] = mirrored[g])'
  <2>1. CASE g # f
    BY <1>1, <2>1 DEF NothingLost, PcapSend, TypeOK, PathTypes
  <2>2. CASE g = f
    <3> DEFINE x == counted[f] \o wire[f]
    <3>1. counted[f] \o (wire[f] \o hand[f]) = x \o hand[f]
      <4>1. counted[f] \in Seq(Item) /\ wire[f] \in Seq(Item) /\ hand[f] \in Seq(Item)
        BY PathParts
      <4>2. \A a, b, c \in Seq(Item) : a \o (b \o c) = (a \o b) \o c
        BY ConcatAssociative, SMTT(30)
      <4> QED
        BY <4>1, <4>2, Zenon
    <3>2. x \o hand[f] \in Seq(Item)
      BY PathParts, ConcatProperties
    <3>3. (x \o hand[f]) \o <<>> = x \o hand[f]
      BY <3>2, ConcatEmptySeq
    <3>4. wire'[f] = wire[f] \o hand[f] /\ hand'[f] = <<>>
      BY DEF PcapSend, TypeOK, PathTypes
    <3>5. x \o hand[f] \o mq_pcap[f] = mirrored[f]
      BY DEF NothingLost
    <3> QED
      BY <1>1, <2>2, <3>1, <3>3, <3>4, <3>5
  <2> QED
    BY <2>1, <2>2
<1> QED
  BY <1>2, <1>3 DEF NothingLost

LEMMA NextPath ==
  ASSUME TypeOK, NothingLost, EmptyHanded, [Next]_vars
  PROVE  NothingLost' /\ EmptyHanded'
<1>1. ASSUME UNCHANGED <<counted, wire, hand, mq_pcap, mirrored, pcap>>
      PROVE  NothingLost' /\ EmptyHanded'
  BY <1>1 DEF NothingLost, EmptyHanded
<1>2. CASE MainStep \/ UNCHANGED vars
  BY <1>1, <1>2 DEF MainStep, ChangeSubscription, SendPacket, Call, CallReturns, EndRun, Join,
     EndTestcase, vars, orchVars, loopVars, fragVars, mqVars, nodeVars, pcapVars
<1>3. CASE LoopStep
  BY <1>1, <1>3, ReceiveKeepsPath DEF LoopStep, Poll, PollFails, LeaveLoop, LoopEnds, Scan,
     ReceiveZero, ReceiveLate, ReceiveBroken, fragVars, mqVars, nodeVars, pcapVars
<1>4. ASSUME NEW f \in Fragment, CtrlStep(f) \/ Crash(f)
      PROVE  NothingLost' /\ EmptyHanded'
  <2>1. CASE WriteSentinel(f)
    <3>1. UNCHANGED <<counted, wire, hand, pcap>>
      BY <2>1 DEF WriteSentinel, orchVars, loopVars, pcapVars
    <3> QED
      BY <1>1, <2>1, <3>1, ItemIs, AppendKeepsPath DEF WriteSentinel
  <2>2. CASE ~WriteSentinel(f)
    BY <1>1, <1>4, <2>2 DEF CtrlStep, UpdateSubscription, InjectPacket, StopThreads, JoinThreads,
       Crash, orchVars, loopVars, mqVars, nodeVars, pcapVars
  <2> QED
    BY <2>1, <2>2
<1>5. ASSUME NEW f \in Fragment, NodeStep(f)
      PROVE  NothingLost' /\ EmptyHanded'
  <2>1. CASE DeliverFlood(f)
    <3>1. UNCHANGED <<counted, wire, hand, pcap>>
      BY <2>1 DEF DeliverFlood, orchVars, loopVars, pcapVars
    <3>2. packet[f][2] \in Item
      BY <2>1, ItemIs DEF DeliverFlood, TypeOK, NodeTypes
    <3> QED
      BY <1>1, <2>1, <3>1, <3>2, AppendKeepsPath DEF DeliverFlood
  <2>2. CASE ~DeliverFlood(f)
    BY <1>1, <1>5, <2>2 DEF NodeStep, NodeReceive, ForwardFlood, NodeExit, orchVars, loopVars,
       mqVars, pcapVars
  <2> QED
    BY <2>1, <2>2
<1>6. ASSUME NEW f \in Fragment, PcapCheck(f) \/ PcapSendPart(f)
      PROVE  NothingLost' /\ EmptyHanded'
  <2>1. UNCHANGED <<counted, wire, hand, mq_pcap, mirrored>>
    BY <1>6 DEF PcapCheck, PcapSendPart, orchVars, loopVars, mqVars, nodeVars
  <2> QED
    BY <1>6, <2>1 DEF PcapCheck, PcapSendPart, PcapGoto, NothingLost, EmptyHanded, TypeOK, PathTypes
<1> QED
  BY <1>2, <1>3, <1>4, <1>5, <1>6, PcapReadKeepsPath, PcapSendKeepsPath
  DEF Next, FragmentStep, PcapStep, Finished

-----------------------------------------------------------------------------
(* The end of the test case *)

\* Has: the sentinel is in the queue.
LEMMA SentinelStays ==
  ASSUME NEW q \in Seq(Item), NEW e \in Item
  PROVE  /\ (\E i \in DOMAIN q : q[i] = SENTINEL) =>
              \E i \in DOMAIN Append(q, e) : Append(q, e)[i] = SENTINEL
         /\ \E i \in DOMAIN Append(q, SENTINEL) : Append(q, SENTINEL)[i] = SENTINEL
         /\ q # <<>> /\ Head(q) # SENTINEL /\ (\E i \in DOMAIN q : q[i] = SENTINEL) =>
              \E i \in DOMAIN Tail(q) : Tail(q)[i] = SENTINEL
<1>1. ASSUME NEW i \in DOMAIN q, q[i] = SENTINEL
      PROVE  \E j \in DOMAIN Append(q, e) : Append(q, e)[j] = SENTINEL
  <2>1. i \in DOMAIN Append(q, e) /\ Append(q, e)[i] = q[i]
    OBVIOUS
  <2> QED
    BY <1>1, <2>1
<1>2. \E i \in DOMAIN Append(q, SENTINEL) : Append(q, SENTINEL)[i] = SENTINEL
  <2>1. /\ Len(q) + 1 \in DOMAIN Append(q, SENTINEL)
        /\ Append(q, SENTINEL)[Len(q) + 1] = SENTINEL
    BY ItemIs
  <2> QED
    BY <2>1
<1>3. ASSUME q # <<>>, Head(q) # SENTINEL, NEW i \in DOMAIN q, q[i] = SENTINEL
      PROVE  \E j \in DOMAIN Tail(q) : Tail(q)[j] = SENTINEL
  <2>1. i # 1 /\ i \in 1 .. Len(q)
    BY <1>3
  <2>2. i - 1 \in DOMAIN Tail(q) /\ Tail(q)[i - 1] = q[i]
    BY <1>3, <2>1
  <2> QED
    BY <1>3, <2>2
<1> QED
  BY <1>1, <1>2, <1>3

LEMMA NextSentinel ==
  ASSUME TypeOK, SentinelComes, [Next]_vars
  PROVE  SentinelComes'
<1>1. ASSUME UNCHANGED <<ctrl, pcap, mq_pcap>> PROVE SentinelComes'
  BY <1>1 DEF SentinelComes
<1>2. CASE MainStep \/ LoopStep \/ UNCHANGED vars
  BY <1>1, <1>2 DEF MainStep, ChangeSubscription, SendPacket, Call, CallReturns, EndRun, Join,
     EndTestcase, LoopStep, Poll, PollFails, LeaveLoop, LoopEnds, Scan, Receive, ReceiveZero,
     ReceiveLate, ReceiveBroken, vars, fragVars, ctrlVars, mqVars, pcapVars
<1>3. ASSUME NEW f \in Fragment, CtrlStep(f) \/ Crash(f)
      PROVE  SentinelComes'
  <2>1. CASE WriteSentinel(f)
    <3>1. CASE Len(mq_pcap[f]) < PcapDepth
      <4>1. mq_pcap'[f] = Append(mq_pcap[f], SENTINEL) /\ mq_pcap[f] \in Seq(Item)
        BY <2>1, <3>1 DEF WriteSentinel, TypeOK, PathTypes
      <4>2. \E i \in DOMAIN mq_pcap'[f] : mq_pcap'[f][i] = SENTINEL
        BY <4>1, SentinelStays, ItemIs
      <4>3. \A g \in Fragment \ {f} :
              ctrl'[g] = ctrl[g] /\ mq_pcap'[g] = mq_pcap[g] /\ pcap'[g] = pcap[g]
        BY <2>1, <3>1 DEF WriteSentinel, pcapVars, TypeOK, PathTypes, CtrlTypes
      <4>4. SUFFICES ASSUME NEW g \in Fragment, ctrl'[g] = "sleep"
                     PROVE  \/ pcap'[g] = "exited"
                            \/ \E i \in DOMAIN mq_pcap'[g] : mq_pcap'[g][i] = SENTINEL
        BY DEF SentinelComes
      <4>5. CASE g = f
        BY <4>2, <4>5
      <4>6. CASE g # f
        <5>1. ctrl'[g] = ctrl[g] /\ mq_pcap'[g] = mq_pcap[g] /\ pcap'[g] = pcap[g]
          BY <4>3, <4>6
        <5>2. pcap[g] = "exited" \/ \E i \in DOMAIN mq_pcap[g] : mq_pcap[g][i] = SENTINEL
          BY <4>4, <5>1 DEF SentinelComes
        <5> QED
          BY <5>1, <5>2
      <4> QED
        BY <4>5, <4>6
    <3>2. CASE ~(Len(mq_pcap[f]) < PcapDepth)
      <4>1. UNCHANGED <<pcap, mq_pcap>>
        BY <2>1, <3>2 DEF WriteSentinel, pcapVars
      <4>2. ctrl' = [ctrl EXCEPT ![f] = "failed"]
        BY <2>1, <3>2 DEF WriteSentinel
      <4>3. \A g \in Fragment : ctrl'[g] = "sleep" => ctrl[g] = "sleep"
        BY <4>2 DEF TypeOK, CtrlTypes
      <4> QED
        BY <4>1, <4>3 DEF SentinelComes
    <3> QED
      BY <3>1, <3>2
  <2>2. CASE ~WriteSentinel(f)
    <3>1. UNCHANGED <<pcap, mq_pcap>>
      BY <1>3, <2>2 DEF CtrlStep, UpdateSubscription, InjectPacket, StopThreads, JoinThreads, Crash,
         mqVars, pcapVars
    <3>2. \A g \in Fragment : ctrl'[g] = "sleep" => ctrl[g] = "sleep"
      BY <1>3, <2>2 DEF CtrlStep, UpdateSubscription, InjectPacket, StopThreads, JoinThreads,
         CheckThreads, Crash, ctrlVars, TypeOK, CtrlTypes
    <3> QED
      BY <3>1, <3>2 DEF SentinelComes
  <2> QED
    BY <2>1, <2>2
<1>4. ASSUME NEW f \in Fragment, NodeStep(f)
      PROVE  SentinelComes'
  <2>1. UNCHANGED <<ctrl, pcap>>
    BY <1>4 DEF NodeStep, NodeReceive, ForwardFlood, DeliverFlood, NodeExit, ctrlVars, pcapVars
  <2>2. CASE DeliverFlood(f) /\ mq_pcap' # mq_pcap
    <3>1. mq_pcap' = [mq_pcap EXCEPT ![f] = Append(@, packet[f][2])]
      BY <2>2 DEF DeliverFlood
    <3>2. packet[f][2] \in Item
      BY <2>2, ItemIs DEF DeliverFlood, TypeOK, NodeTypes
    <3>3. (\E i \in DOMAIN mq_pcap[f] : mq_pcap[f][i] = SENTINEL) =>
             \E i \in DOMAIN mq_pcap'[f] : mq_pcap'[f][i] = SENTINEL
      <4>1. mq_pcap'[f] = Append(mq_pcap[f], packet[f][2]) /\ mq_pcap[f] \in Seq(Item)
        BY <3>1 DEF TypeOK, PathTypes
      <4> QED
        BY <3>2, <4>1, SentinelStays
    <3>4. \A g \in Fragment \ {f} : mq_pcap'[g] = mq_pcap[g]
      BY <3>1 DEF TypeOK, PathTypes
    <3> QED
      BY <2>1, <3>3, <3>4 DEF SentinelComes
  <2>3. CASE UNCHANGED mq_pcap
    BY <1>1, <2>1, <2>3
  <2> QED
    BY <1>4, <2>2, <2>3 DEF NodeStep, NodeReceive, ForwardFlood, NodeExit, mqVars
<1>5. ASSUME NEW f \in Fragment, PcapStep(f)
      PROVE  SentinelComes'
  <2>1. UNCHANGED ctrl
    BY <1>5 DEF PcapStep, PcapCheck, PcapRead, PcapSendPart, PcapSend, ctrlVars
  <2>2. CASE PcapRead(f)
    <3>1. mq_pcap[f] \in Seq(Item) /\ mq_pcap[f] # <<>> /\ pcap[f] = "read"
      BY <2>2 DEF PcapRead, TypeOK, PathTypes
    <3>2. mq_pcap'[f] = Tail(mq_pcap[f])
      BY <2>2 DEF PcapRead, TypeOK, PathTypes
    <3>3. Head(mq_pcap[f]) = SENTINEL => pcap'[f] = "exited"
      BY <2>2 DEF PcapRead, PcapGoto, TypeOK, PathTypes
    <3>4. ctrl[f] = "sleep" /\ Head(mq_pcap[f]) # SENTINEL =>
            \E i \in DOMAIN mq_pcap'[f] : mq_pcap'[f][i] = SENTINEL
      BY <3>1, <3>2, SentinelStays, ItemIs DEF SentinelComes
    <3>5. \A g \in Fragment \ {f} : mq_pcap'[g] = mq_pcap[g] /\ pcap'[g] = pcap[g]
      BY <2>2 DEF PcapRead, PcapGoto, TypeOK, PathTypes
    <3> QED
      BY <2>1, <3>3, <3>4, <3>5 DEF SentinelComes
  <2>3. CASE ~PcapRead(f)
    <3>1. UNCHANGED mq_pcap
      BY <1>5, <2>3 DEF PcapStep, PcapCheck, PcapSendPart, PcapSend, mqVars
    <3>2. \A g \in Fragment : pcap[g] = "exited" => pcap'[g] = "exited"
      BY <1>5, <2>3 DEF PcapStep, PcapCheck, PcapSendPart, PcapSend, PcapGoto, TypeOK, PathTypes
    <3> QED
      BY <2>1, <3>1, <3>2 DEF SentinelComes
  <2> QED
    BY <2>2, <2>3
<1> QED
  BY <1>2, <1>3, <1>4, <1>5 DEF Next, FragmentStep, Finished

-----------------------------------------------------------------------------
(* Errors *)

LEMMA NextCalls ==
  ASSUME TypeOK, Calls, [Next]_vars
  PROVE  Calls'
<1> USE DEF Calls, Ending
<1>1. ASSUME UNCHANGED <<main, callee, request, response, ctrl>>,
             \A f \in Fragment : crashed[f] => crashed'[f]
      PROVE  Calls'
  BY <1>1
<1>2. CASE MainStep
  <2> USE DEF TypeOK, OrchTypes, CtrlTypes
  <2>1. UNCHANGED <<ctrl, crashed>>
    BY <1>2 DEF MainStep, ChangeSubscription, SendPacket, Call, CallReturns, EndRun, Join,
       EndTestcase, fragVars, ctrlVars
  <2>2. ASSUME NEW f \in Fragment, NEW r, r.type # "END_TESTCASE", Call(f, r)
        PROVE  Calls'
    <3>1. UNCHANGED response /\ main = "run" /\ main' = "wait" /\ callee' = f
      BY <2>2 DEF Call
    <3>2. request'[f] = r /\ \A g \in Fragment \ {f} : request'[g] = request[g]
      BY <2>2 DEF Call
    <3> QED
      BY <2>1, <2>2, <3>1, <3>2
  <2>3. ASSUME NEW f \in Fragment, NEW subscribe \in BOOLEAN, ChangeSubscription(f, subscribe)
        PROVE  Calls'
    BY <2>2, <2>3 DEF ChangeSubscription, Request
  <2>4. ASSUME NEW f \in Source, SendPacket(f)
        PROVE  Calls'
    BY <2>2, <2>4, PcapAssumption DEF SendPacket, Request, Fragment
  <2>5. CASE CallReturns
    BY <2>1, <2>5 DEF CallReturns, LeaveRun, Silent
  <2>6. CASE EndRun
    BY <2>1, <2>6 DEF EndRun, LeaveRun, msgVars
  <2>7. CASE Join \/ EndTestcase
    BY <2>7 DEF Join, EndTestcase
  <2> QED
    BY <1>2, <2>3, <2>4, <2>5, <2>6, <2>7 DEF MainStep
<1>3. CASE LoopStep
  <2>1. UNCHANGED <<main, callee, request, response, ctrl, crashed>>
    BY <1>3 DEF LoopStep, Poll, PollFails, LeaveLoop, LoopEnds, Scan, Receive, ReceiveZero,
       ReceiveLate, ReceiveBroken, mainVars, msgVars, fragVars, ctrlVars
  <2> QED
    BY <1>1, <2>1
<1>4. ASSUME NEW f \in Fragment, CtrlStep(f)
      PROVE  Calls'
  <2> USE DEF TypeOK, CtrlTypes
  <2>1. UNCHANGED <<main, callee, crashed>>
    BY <1>4 DEF CtrlStep, UpdateSubscription, InjectPacket, StopThreads, WriteSentinel, JoinThreads,
       orchVars, mainVars
  <2>2. CASE UpdateSubscription(f)
    BY <2>1, <2>2 DEF UpdateSubscription, Serve, Respond, CheckThreads, NoRequest
  <2>3. CASE InjectPacket(f)
    BY <2>1, <2>3 DEF InjectPacket, Serve, Respond, CheckThreads, NoRequest
  <2>4. CASE StopThreads(f)
    BY <2>1, <2>4 DEF StopThreads, Serve, NoRequest
  <2>5. CASE WriteSentinel(f)
    BY <2>1, <2>5 DEF WriteSentinel, msgVars
  <2>6. CASE JoinThreads(f)
    BY <2>1, <2>6 DEF JoinThreads, Respond
  <2> QED
    BY <1>4, <2>2, <2>3, <2>4, <2>5, <2>6 DEF CtrlStep
<1>5. ASSUME NEW f \in Fragment, NodeStep(f) \/ PcapStep(f) \/ Crash(f)
      PROVE  Calls'
  <2>1. UNCHANGED <<main, callee, request, response, ctrl>>
    BY <1>5 DEF NodeStep, NodeReceive, ForwardFlood, DeliverFlood, NodeExit, PcapStep, PcapCheck,
       PcapRead, PcapSendPart, PcapSend, Crash, orchVars, mainVars, msgVars, ctrlVars
  <2>2. \A g \in Fragment : crashed[g] => crashed'[g]
    BY <1>5 DEF NodeStep, NodeReceive, ForwardFlood, DeliverFlood, NodeExit, PcapStep, PcapCheck,
       PcapRead, PcapSendPart, PcapSend, Crash, TypeOK, CtrlTypes
  <2> QED
    BY <1>1, <2>1, <2>2
<1>6. CASE UNCHANGED vars
  BY <1>1, <1>6 DEF vars, orchVars, mainVars, msgVars, fragVars, ctrlVars
<1> QED
  BY <1>2, <1>3, <1>4, <1>5, <1>6 DEF Next, FragmentStep, Finished

LEMMA NextJoined ==
  ASSUME TypeOK, Joined, [Next]_vars
  PROVE  Joined'
<1> USE DEF Joined, Ending
<1>1. CASE MainStep
  BY <1>1 DEF MainStep, ChangeSubscription, SendPacket, Call, CallReturns, LeaveRun, EndRun, Join,
     EndTestcase, loopVars
<1>2. CASE LoopStep
  BY <1>2 DEF LoopStep, Poll, PollFails, LeaveLoop, LoopEnds, Scan, Receive, ReceiveZero,
     ReceiveLate, ReceiveBroken, mainVars
<1>3. ASSUME NEW f \in Fragment, FragmentStep(f) \/ Crash(f) PROVE Joined'
  BY <1>3 DEF FragmentStep, CtrlStep, UpdateSubscription, InjectPacket, StopThreads, WriteSentinel,
     JoinThreads, NodeStep, NodeReceive, ForwardFlood, DeliverFlood, NodeExit, PcapStep, PcapCheck,
     PcapRead, PcapSendPart, PcapSend, Crash, orchVars, mainVars, loopVars
<1>4. CASE UNCHANGED vars
  BY <1>4 DEF vars, orchVars, mainVars, loopVars
<1> QED
  BY <1>1, <1>2, <1>3, <1>4 DEF Next, Finished

LEMMA NextCulprit ==
  ASSUME TypeOK, Calls, Joined, Culprit, [Next]_vars
  PROVE  Culprit'
<1> USE DEF Culprit, Ending
<1>1. CASE MainStep
  <2>1. UNCHANGED <<pcap_thread_error, crashed>>
    BY <1>1 DEF MainStep, ChangeSubscription, SendPacket, Call, CallReturns, EndRun, Join,
       EndTestcase, loopVars, fragVars
  <2>2. ASSUME NEW f \in Fragment, crashed[f], Ending => response[f] = "pending"
        PROVE  Ending' => response'[f] = "pending"
    BY <1>1, <2>2 DEF MainStep, ChangeSubscription, SendPacket, Call, CallReturns, LeaveRun, EndRun,
       Join, EndTestcase, Calls, msgVars, TypeOK, OrchTypes, CtrlTypes
  <2> QED
    BY <2>1, <2>2
<1>2. CASE LoopStep
  <2>1. CASE ReceiveBroken
    <3>1. at \in Fragment /\ crashed'[at] /\ ~Ending'
      BY <2>1 DEF ReceiveBroken, LoopEnds, Joined, fragVars, mainVars, TypeOK, OrchTypes
    <3> QED
      BY <3>1
  <2>2. CASE ~ReceiveBroken
    <3>1. UNCHANGED <<main, response, crashed>>
      BY <1>2 DEF LoopStep, Poll, PollFails, LeaveLoop, LoopEnds, Scan, Receive, ReceiveZero,
         ReceiveLate, ReceiveBroken, mainVars, msgVars, fragVars
    <3>2. \/ pcap_thread_error' = pcap_thread_error
          \/ pcap_thread_error' \in {"NONE", "RECV_WAIT_TIMEOUT", "POLL_ERROR"}
      BY <1>2, <2>2 DEF LoopStep, Poll, PollFails, LeaveLoop, LoopEnds, Scan, Receive, ReceiveZero,
         ReceiveLate
    <3> QED
      BY <3>1, <3>2
  <2> QED
    BY <2>1, <2>2
<1>3. ASSUME NEW g \in Fragment, FragmentStep(g) \/ Crash(g)
      PROVE  Culprit'
  <2>1. UNCHANGED <<main, pcap_thread_error>>
    BY <1>3 DEF FragmentStep, CtrlStep, UpdateSubscription, InjectPacket, StopThreads,
       WriteSentinel, JoinThreads, NodeStep, NodeReceive, ForwardFlood, DeliverFlood, NodeExit,
       PcapStep, PcapCheck, PcapRead, PcapSendPart, PcapSend, Crash, orchVars, mainVars, loopVars
  <2>2. ASSUME NEW f \in Fragment, crashed[f]
        PROVE  crashed'[f] /\ response'[f] = response[f]
    <3>1. CASE CtrlStep(g)
      BY <2>2, <3>1 DEF CtrlStep, UpdateSubscription, InjectPacket, StopThreads, WriteSentinel,
         JoinThreads, Serve, Respond, msgVars, TypeOK, CtrlTypes
    <3>2. CASE NodeStep(g) \/ PcapStep(g)
      BY <2>2, <3>2 DEF NodeStep, NodeReceive, ForwardFlood, DeliverFlood, NodeExit, PcapStep,
         PcapCheck, PcapRead, PcapSendPart, PcapSend, msgVars
    <3>3. CASE Crash(g)
      BY <2>2, <3>3 DEF Crash, msgVars, TypeOK, CtrlTypes
    <3> QED
      BY <1>3, <3>1, <3>2, <3>3 DEF FragmentStep
  <2> QED
    BY <2>1, <2>2
<1>4. CASE UNCHANGED vars
  BY <1>4 DEF vars, orchVars, mainVars, loopVars, msgVars, fragVars
<1> QED
  BY <1>1, <1>2, <1>3, <1>4 DEF Next, Finished

LEMMA NextAllAnswered ==
  ASSUME TypeOK, AllAnswered, [Next]_vars
  PROVE  AllAnswered'
<1> USE DEF AllAnswered
<1>1. CASE MainStep
  BY <1>1 DEF MainStep, ChangeSubscription, SendPacket, Call, CallReturns, LeaveRun, EndRun, Join,
     EndTestcase, msgVars
<1>2. CASE LoopStep
  BY <1>2 DEF LoopStep, Poll, PollFails, LeaveLoop, LoopEnds, Scan, Receive, ReceiveZero,
     ReceiveLate, ReceiveBroken, mainVars, msgVars
<1>3. ASSUME NEW g \in Fragment, FragmentStep(g) \/ Crash(g)
      PROVE  AllAnswered'
  <2>1. UNCHANGED <<main, exit_code>>
    BY <1>3 DEF FragmentStep, CtrlStep, UpdateSubscription, InjectPacket, StopThreads,
       WriteSentinel, JoinThreads, NodeStep, NodeReceive, ForwardFlood, DeliverFlood, NodeExit,
       PcapStep, PcapCheck, PcapRead, PcapSendPart, PcapSend, Crash, orchVars, mainVars
  <2>2. \A f \in Fragment : response[f] # "pending" => response'[f] # "pending"
    BY <1>3 DEF FragmentStep, CtrlStep, UpdateSubscription, InjectPacket, StopThreads,
       WriteSentinel, JoinThreads, Respond, NodeStep, NodeReceive, ForwardFlood, DeliverFlood,
       NodeExit, PcapStep, PcapCheck, PcapRead, PcapSendPart, PcapSend, Crash, msgVars, TypeOK,
       CtrlTypes
  <2> QED
    BY <2>1, <2>2
<1>4. CASE UNCHANGED vars
  BY <1>4 DEF vars, orchVars, mainVars, msgVars
<1> QED
  BY <1>1, <1>2, <1>3, <1>4 DEF Next, Finished

-----------------------------------------------------------------------------
(* The theorems *)

LEMMA Invariance == Spec => []IInv
<1>1. Init => IInv
  <2> SUFFICES ASSUME Init PROVE IInv
    OBVIOUS
  <2>1. TypeOK
    BY InitTypeOK
  <2>2. NothingLost
    BY ConcatEmptySeq, EmptySeq DEF Init, NothingLost
  <2>3. EmptyHanded /\ SentinelComes /\ Calls /\ Joined /\ Culprit /\ AllAnswered
    BY DEF Init, EmptyHanded, SentinelComes, Calls, Joined, Culprit, AllAnswered, Ending, NoRequest
  <2> QED
    BY <2>1, <2>2, <2>3 DEF IInv
<1>2. IInv /\ [Next]_vars => IInv'
  BY NextTypeOK, NextPath, NextSentinel, NextCalls, NextJoined, NextCulprit, NextAllAnswered
  DEF IInv
<1> QED
  BY <1>1, <1>2, PTL DEF Spec

\* No packet is lost, repeated or overtaken between the node that mirrors it
\* (node_send) and testcase::pcap, with any queue depths, subscription changes,
\* crashes and any end of the test case.
THEOREM PcapLosesNothing == Spec => []NothingLost
<1>1. IInv => NothingLost
  BY DEF IInv
<1> QED
  BY <1>1, Invariance, PTL

\* A pcap thread (worker_pcap) whose end the ctrl thread awaits is never asleep at
\* an empty queue: the sentinel is there until it is read.
THEOREM SentinelReachesReader == Spec => []EndReachesReader
<1>1. IInv => EndReachesReader
  <2>1. \A i \in DOMAIN <<>> : FALSE
    OBVIOUS
  <2> QED
    BY <2>1 DEF IInv, SentinelComes, EndReachesReader
<1> QED
  BY <1>1, Invariance, PTL

\* Although pcap_thread_error_ is never read, no run in which the orchestrator's
\* pcap thread died of a broken connection ends as a success.
THEOREM BrokenPcapIsNoticed == Spec => []BrokenPcapSurfaces
<1>1. IInv => BrokenPcapSurfaces
  BY DEF IInv, Culprit, AllAnswered, BrokenPcapSurfaces, Ending
<1> QED
  BY <1>1, Invariance, PTL

\* From the END_TESTCASE round on the count does not change: the pcap thread has
\* been joined.
THEOREM TeardownSeesFinalCount == Spec => CountSettles
<1>1. IInv /\ [Next]_vars => [(main = "end" \/ main = "done") => counted' = counted]_vars
  <2> SUFFICES ASSUME IInv, Next, Ending PROVE counted' = counted
    BY DEF Ending
  <2>1. opc = "exited"
    BY DEF IInv, Joined
  <2> QED
    BY <2>1 DEF Next, MainStep, ChangeSubscription, SendPacket, Call, CallReturns, EndRun, Join,
       EndTestcase, LoopStep, Poll, PollFails, LeaveLoop, Scan, Receive, ReceiveZero, ReceiveLate,
       ReceiveBroken, FragmentStep, CtrlStep, UpdateSubscription, InjectPacket, StopThreads,
       WriteSentinel, JoinThreads, NodeStep, NodeReceive, ForwardFlood, DeliverFlood, NodeExit,
       PcapStep, PcapCheck, PcapRead, PcapSendPart, PcapSend, Crash, Finished, vars, orchVars,
       loopVars
<1> QED
  BY <1>1, Invariance, PTL DEF Spec, CountSettles

=============================================================================
