---------------------------- MODULE WiringProofs ----------------------------
(***************************************************************************)
(* Theorems about who is who, for every number of fragments, every         *)
(* well-formed topology, every order in which processes connect and every  *)
(* choice of client addresses the kernel may make.                         *)
(*                                                                         *)
(* The invariant says what each turn leaves behind, by the rounds in which *)
(* a process or fragment has had its turn.                                 *)
(***************************************************************************)
EXTENDS Wiring, SequenceTheorems, FiniteSetTheorems, TLAPS

RoundName == {"ACCEPT_CTRL", "SETUP_CTRL", "TELL_ID", "ACCEPT_PCAP", "SETUP_PCAP",
              "START_MIXNET_SERVER", "START_MIXNET_CLIENTS", "RESOLVE_MIXNET_CONNS",
              "RUN_TESTCASE"}

Pos(r) == CHOOSE i \in DOMAIN Rounds : Rounds[i] = r

\* x has had its turn in round r.
Had(r, x) == Pos(r) < Pos(round) \/ (round = r /\ x \notin todo)

TypeOK ==
  /\ topology \in Topology
  /\ autotest \in BOOLEAN
  /\ round \in RoundName
  /\ todo \in SUBSET (1 .. N)
  /\ ctrl_states \in Seq(Process) /\ pcap_states \in Seq(Process)
  /\ fd_ctrl \in [Fragment -> Process \cup {NONE}]
  /\ fd_pcap \in [Fragment -> Process \cup {NONE}]
  /\ mixnet_server_netaddr \in [Fragment -> Process \cup {NONE}]
  /\ fid \in [Process -> Fragment \cup {NONE}]

LinkTypes ==
  /\ mixnet_client_netaddrs \in [Fragment -> Seq(Addr)]
  /\ rx_socket_fds \in [Process -> Seq(Connection)]
  /\ states \in [Process -> Seq(Connection)]
  /\ tx_socket_fds \in [Process -> Seq(Connection)]

\* The processes accepted in round r are those that had their turn, once each.
Accepted(s, r) ==
  /\ \A i, j \in DOMAIN s : s[i] = s[j] => i = j
  /\ \A p \in Process : Had(r, p) <=> \E i \in DOMAIN s : s[i] = p
  /\ Len(s) = Cardinality({p \in Process : Had(r, p)})

\* The connections that have had their turn are those that have been filed.
CtrlFiled ==
  /\ \A idx \in 1 .. N : Had("SETUP_CTRL", idx) => fd_ctrl[IdOf(idx)] = ctrl_states[idx]
  /\ \A f \in Fragment :
       fd_ctrl[f] # NONE => \E idx \in 1 .. N : Had("SETUP_CTRL", idx) /\ IdOf(idx) = f

Told == \A f \in Fragment : Had("TELL_ID", f) => fid[fd_ctrl[f]] = f

PcapFiled ==
  /\ \A idx \in 1 .. N :
       Had("SETUP_PCAP", idx) => fd_pcap[fid[pcap_states[idx]]] = pcap_states[idx]
  /\ \A f \in Fragment :
       fd_pcap[f] # NONE =>
         \E idx \in 1 .. N : Had("SETUP_PCAP", idx) /\ fid[pcap_states[idx]] = f

Identities ==
  /\ Accepted(ctrl_states, "ACCEPT_CTRL") /\ CtrlFiled /\ Told
  /\ Accepted(pcap_states, "ACCEPT_PCAP") /\ PcapFiled

Servers ==
  \A f \in Fragment :
    Had("START_MIXNET_SERVER", f) /\ topology[f] # <<>> => mixnet_server_netaddr[f] = fd_ctrl[f]

\* A connection leads to the neighbour whose turn it was, and that one has accepted
\* it; those it has accepted come from different addresses.
Connected ==
  /\ \A p \in Process : \A k \in DOMAIN rx_socket_fds[p] :
       LET c == rx_socket_fds[p][k] IN
         /\ Pos(round) >= Pos("START_MIXNET_CLIENTS")
         /\ c.to = fd_ctrl[Neighbors(p)[k]]
         /\ \E i \in DOMAIN states[c.to] : states[c.to][i] = c
  /\ \A q \in Process : \A i, j \in DOMAIN states[q] :
       states[q][i].addr = states[q][j].addr => i = j

\* What the orchestrator knows of a fragment's connections.
Reported ==
  \A f \in Fragment :
    IF Had("START_MIXNET_CLIENTS", f)
      THEN /\ Len(rx_socket_fds[fd_ctrl[f]]) = Len(topology[f])
           /\ mixnet_client_netaddrs[f] = [k \in DOMAIN rx_socket_fds[fd_ctrl[f]] |->
                                             rx_socket_fds[fd_ctrl[f]][k].addr]
      ELSE mixnet_client_netaddrs[f] = <<>>

Resolved ==
  \A f \in Fragment : Had("RESOLVE_MIXNET_CONNS", f) =>
    \A k \in DOMAIN topology[f] :
      tx_socket_fds[fd_ctrl[f]][k] = rx_socket_fds[fd_ctrl[topology[f][k]]][Nid(topology[f][k], f)]

IInv ==
  /\ TypeOK /\ LinkTypes /\ failed = FALSE
  /\ Identities /\ Servers /\ Connected /\ Reported /\ Resolved

-----------------------------------------------------------------------------
(* Rounds and turns *)

LEMMA PosValues ==
  /\ Pos("ACCEPT_CTRL") = 1 /\ Pos("SETUP_CTRL") = 2 /\ Pos("TELL_ID") = 3
  /\ Pos("ACCEPT_PCAP") = 4 /\ Pos("SETUP_PCAP") = 5 /\ Pos("START_MIXNET_SERVER") = 6
  /\ Pos("START_MIXNET_CLIENTS") = 7 /\ Pos("RESOLVE_MIXNET_CONNS") = 8
  /\ Pos("RUN_TESTCASE") = 9
<1>1. ASSUME NEW i \in 1 .. 9, NEW r, Rounds[i] = r, \A j \in 1 .. 9 : Rounds[j] = r => j = i
      PROVE  Pos(r) = i
  <2>1. DOMAIN Rounds = 1 .. 9
    BY DEF Rounds
  <2> QED
    BY <1>1, <2>1 DEF Pos
<1>2. /\ Rounds[1] = "ACCEPT_CTRL" /\ Rounds[2] = "SETUP_CTRL" /\ Rounds[3] = "TELL_ID"
      /\ Rounds[4] = "ACCEPT_PCAP" /\ Rounds[5] = "SETUP_PCAP" /\ Rounds[6] = "START_MIXNET_SERVER"
      /\ Rounds[7] = "START_MIXNET_CLIENTS" /\ Rounds[8] = "RESOLVE_MIXNET_CONNS"
      /\ Rounds[9] = "RUN_TESTCASE"
  BY DEF Rounds
<1>3. \A i, j \in 1 .. 9 : Rounds[i] = Rounds[j] => i = j
  BY <1>2
<1>4. ASSUME NEW i \in 1 .. 9 PROVE Pos(Rounds[i]) = i
  BY <1>1, <1>3
<1> QED
  BY <1>2, <1>4

LEMMA AfterValues ==
  /\ After("ACCEPT_CTRL") = "SETUP_CTRL" /\ After("SETUP_CTRL") = "TELL_ID"
  /\ After("TELL_ID") = "ACCEPT_PCAP" /\ After("ACCEPT_PCAP") = "SETUP_PCAP"
  /\ After("SETUP_PCAP") = "START_MIXNET_SERVER"
  /\ After("START_MIXNET_SERVER") = "START_MIXNET_CLIENTS"
  /\ After("START_MIXNET_CLIENTS") = "RESOLVE_MIXNET_CONNS"
  /\ After("RESOLVE_MIXNET_CONNS") = "RUN_TESTCASE"
<1>1. \A r : After(r) = Rounds[1 + Pos(r)]
  BY DEF After, Pos
<1>2. /\ Rounds[2] = "SETUP_CTRL" /\ Rounds[3] = "TELL_ID"
      /\ Rounds[4] = "ACCEPT_PCAP" /\ Rounds[5] = "SETUP_PCAP" /\ Rounds[6] = "START_MIXNET_SERVER"
      /\ Rounds[7] = "START_MIXNET_CLIENTS" /\ Rounds[8] = "RESOLVE_MIXNET_CONNS"
      /\ Rounds[9] = "RUN_TESTCASE"
  BY DEF Rounds
<1> QED
  BY <1>1, <1>2, PosValues

\* Rounds before the present one are over, those after it have not begun.
LEMMA RoundOrder ==
  ASSUME TypeOK, NEW s \in RoundName, NEW y \in 1 .. N
  PROVE  /\ Pos(s) < Pos(round) => Had(s, y)
         /\ Pos(round) < Pos(s) => ~Had(s, y)
<1>1. Pos(s) \in 1 .. 9 /\ Pos(round) \in 1 .. 9
  BY PosValues DEF TypeOK, RoundName
<1> QED
  BY <1>1 DEF Had

\* A turn in round r is remembered, and says nothing of other rounds.
LEMMA TurnHad ==
  ASSUME TypeOK, NEW r \in RoundName \ {"RUN_TESTCASE"}, NEW x \in 1 .. N, Turn(r, x)
  PROVE  /\ round = r /\ x \in todo
         /\ UNCHANGED <<topology, autotest>> /\ round' \in RoundName /\ todo' \in SUBSET (1 .. N)
         /\ Pos(round') >= Pos(r)
         /\ ~Had(r, x)
         /\ \A y \in 1 .. N : Had(r, y)' <=> Had(r, y) \/ y = x
         /\ \A s \in RoundName \ {r} : \A y \in 1 .. N : Had(s, y)' <=> Had(s, y)
<1>1. /\ round = r /\ x \in todo /\ UNCHANGED <<topology, autotest>>
      /\ IF todo = {x} THEN round' = After(r) /\ todo' = 1 .. N
                       ELSE round' = r /\ todo' = todo \ {x}
  BY DEF Turn
<1>2. After(r) \in RoundName /\ Pos(After(r)) = Pos(r) + 1
  BY AfterValues, PosValues DEF RoundName
<1>3. \A s \in RoundName : Pos(s) \in 1 .. 9
  BY PosValues DEF RoundName
<1>4. \A s \in RoundName \ {r} : Pos(s) # Pos(r)
  BY PosValues DEF RoundName
<1>5. \A y \in 1 .. N : Had(r, y) <=> y \notin todo
  BY <1>1, <1>3 DEF Had
<1>6. round' \in RoundName /\ todo' \in SUBSET (1 .. N) /\ Pos(round') >= Pos(r)
  <2>1. todo \in SUBSET (1 .. N) /\ round \in RoundName
    BY DEF TypeOK
  <2>2. Pos(r) \in Int
    BY <1>3
  <2>3. CASE todo = {x}
    BY <1>1, <1>2, <2>2, <2>3
  <2>4. CASE todo # {x}
    <3>1. round' = r /\ todo' = todo \ {x}
      BY <1>1, <2>4
    <3>2. todo' \subseteq 1 .. N
      BY <2>1, <3>1, Zenon
    <3>3. Pos(round') >= Pos(r)
      BY <2>2, <3>1
    <3> QED
      BY <1>1, <2>1, <3>1, <3>2, <3>3
  <2> QED
    BY <2>3, <2>4
<1>7. ASSUME NEW y \in 1 .. N PROVE Had(r, y)' <=> Had(r, y) \/ y = x
  <2>1. CASE todo = {x}
    BY <1>1, <1>2, <1>3, <1>5, <2>1 DEF Had
  <2>2. CASE todo # {x}
    BY <1>1, <1>3, <1>5, <2>2 DEF Had
  <2> QED
    BY <2>1, <2>2
<1>8. ASSUME NEW s \in RoundName \ {r}, NEW y \in 1 .. N PROVE Had(s, y)' <=> Had(s, y)
  <2>1. CASE todo = {x}
    <3>1. Had(s, y)' <=> Pos(s) < Pos(r) + 1 \/ (s = After(r) /\ y \notin 1 .. N)
      BY <1>1, <1>2, <2>1 DEF Had
    <3>2. Had(s, y) <=> Pos(s) < Pos(r)
      BY <1>1 DEF Had
    <3> QED
      BY <1>3, <1>4, <3>1, <3>2
  <2>2. CASE todo # {x}
    BY <1>1, <2>2 DEF Had
  <2> QED
    BY <2>1, <2>2
<1> QED
  BY <1>1, <1>5, <1>6, <1>7, <1>8

-----------------------------------------------------------------------------
(* What is known once a round is over *)

\* All processes are accepted, in some order.
LEMMA AllAccepted ==
  ASSUME TypeOK, NEW r \in RoundName, NEW s \in Seq(Process), Accepted(s, r),
         Pos(r) < Pos(round)
  PROVE  /\ DOMAIN s = 1 .. N /\ \A i \in 1 .. N : s[i] \in Process
         /\ \A i, j \in 1 .. N : s[i] = s[j] => i = j
         /\ \A p \in Process : \E i \in 1 .. N : s[i] = p
<1>1. \A p \in Process : Had(r, p)
  BY RoundOrder DEF Process
<1>2. {p \in Process : Had(r, p)} = 1 .. N
  BY <1>1 DEF Process
<1>3. Len(s) = N
  <2>1. Cardinality(1 .. N) = N
    BY WiringAssumption, FS_Interval
  <2> QED
    BY <1>2, <2>1 DEF Accepted
<1>4. DOMAIN s = 1 .. N
  BY <1>3
<1>5. \A i \in 1 .. N : s[i] \in Process
  BY <1>3, ElementOfSeq
<1>6. /\ \A i, j \in DOMAIN s : s[i] = s[j] => i = j
      /\ \A p \in Process : \E i \in DOMAIN s : s[i] = p
  BY <1>1 DEF Accepted
<1> QED
  BY <1>4, <1>5, <1>6

\* In both modes every connection has an ID of its own.
LEMMA IdsDiffer ==
  ASSUME TypeOK, Identities, Pos(round) > 1
  PROVE  /\ \A idx \in 1 .. N : IdOf(idx) \in Fragment
         /\ \A i, j \in 1 .. N : IdOf(i) = IdOf(j) => i = j
         /\ \A f \in Fragment : \E idx \in 1 .. N : IdOf(idx) = f
<1>1. /\ \A i \in 1 .. N : ctrl_states[i] \in Process
      /\ \A i, j \in 1 .. N : ctrl_states[i] = ctrl_states[j] => i = j
      /\ \A p \in Process : \E i \in 1 .. N : ctrl_states[i] = p
  <2>1. "ACCEPT_CTRL" \in RoundName /\ Pos("ACCEPT_CTRL") < Pos(round)
    BY PosValues DEF RoundName
  <2> QED
    BY <2>1, AllAccepted DEF TypeOK, Identities
<1>2. CASE autotest
  BY <1>1, <1>2 DEF IdOf, Process, Fragment
<1>3. CASE ~autotest
  BY <1>3 DEF IdOf, Fragment
<1> QED
  BY <1>2, <1>3

\* Every fragment is one process, and every process one fragment.
LEMMA CtrlBijective ==
  ASSUME TypeOK, Identities, Pos(round) > 2
  PROVE  /\ \A f \in Fragment : fd_ctrl[f] \in Process /\ (autotest => fd_ctrl[f] = f)
         /\ \A f, g \in Fragment : fd_ctrl[f] = fd_ctrl[g] => f = g
         /\ \A p \in Process : \E f \in Fragment : fd_ctrl[f] = p
<1>1. Pos(round) \in 1 .. 9
  BY PosValues DEF TypeOK, RoundName
<1>2. /\ \A i \in 1 .. N : ctrl_states[i] \in Process
      /\ \A i, j \in 1 .. N : ctrl_states[i] = ctrl_states[j] => i = j
      /\ \A p \in Process : \E i \in 1 .. N : ctrl_states[i] = p
  <2>1. "ACCEPT_CTRL" \in RoundName /\ Pos("ACCEPT_CTRL") < Pos(round)
    BY <1>1, PosValues DEF RoundName
  <2> QED
    BY <2>1, AllAccepted DEF TypeOK, Identities
<1>3. \A idx \in 1 .. N : fd_ctrl[IdOf(idx)] = ctrl_states[idx]
  <2>1. \A idx \in 1 .. N : Had("SETUP_CTRL", idx)
    BY <1>1, PosValues, RoundOrder DEF RoundName
  <2> QED
    BY <2>1 DEF Identities, CtrlFiled
<1>4. /\ \A idx \in 1 .. N : IdOf(idx) \in Fragment
      /\ \A i, j \in 1 .. N : IdOf(i) = IdOf(j) => i = j
      /\ \A f \in Fragment : \E idx \in 1 .. N : IdOf(idx) = f
  BY <1>1, IdsDiffer
<1>5. \A f \in Fragment : fd_ctrl[f] \in Process
  BY <1>2, <1>3, <1>4
<1>6. \A f \in Fragment : autotest => fd_ctrl[f] = f
  BY <1>3, <1>4 DEF IdOf
<1>7. \A f, g \in Fragment : fd_ctrl[f] = fd_ctrl[g] => f = g
  BY <1>2, <1>3, <1>4
<1>8. \A p \in Process : \E f \in Fragment : fd_ctrl[f] = p
  BY <1>2, <1>3, <1>4
<1> QED
  BY <1>5, <1>6, <1>7, <1>8

\* A process knows its ID.
LEMMA IdsKnown ==
  ASSUME TypeOK, Identities, Pos(round) > 3
  PROVE  /\ \A f \in Fragment : fd_ctrl[f] \in Process /\ fid[fd_ctrl[f]] = f
         /\ \A p \in Process : fid[p] \in Fragment /\ fd_ctrl[fid[p]] = p
<1>1. Pos(round) \in 1 .. 9
  BY PosValues DEF TypeOK, RoundName
<1>2. \A f \in Fragment : Had("TELL_ID", f)
  BY <1>1, PosValues, RoundOrder DEF RoundName, Fragment
<1>3. \A f \in Fragment : fid[fd_ctrl[f]] = f
  BY <1>2 DEF Identities, Told
<1> QED
  BY <1>1, <1>3, CtrlBijective

\* The same, by the name of the round.
LEMMA IdsKnownLater ==
  ASSUME TypeOK, Identities,
         round \in {"ACCEPT_PCAP", "SETUP_PCAP", "START_MIXNET_SERVER", "START_MIXNET_CLIENTS",
                    "RESOLVE_MIXNET_CONNS", "RUN_TESTCASE"}
  PROVE  /\ \A f \in Fragment : fd_ctrl[f] \in Process /\ fid[fd_ctrl[f]] = f
         /\ \A p \in Process : fid[p] \in Fragment /\ fd_ctrl[fid[p]] = p
<1>1. Pos(round) > 3
  BY PosValues
<1> QED
  BY <1>1, IdsKnown

\* The pcap connection of a fragment leads to the same process.
LEMMA PcapKnown ==
  ASSUME TypeOK, Identities, Pos(round) > 5, NEW f \in Fragment
  PROVE  fd_pcap[f] = fd_ctrl[f]
<1>1. Pos(round) \in 1 .. 9
  BY PosValues DEF TypeOK, RoundName
<1>2. fd_ctrl[f] \in Process /\ fid[fd_ctrl[f]] = f
  BY <1>1, IdsKnown
<1>3. \A p \in Process : \E i \in 1 .. N : pcap_states[i] = p
  <2>1. "ACCEPT_PCAP" \in RoundName /\ Pos("ACCEPT_PCAP") < Pos(round)
    BY <1>1, PosValues DEF RoundName
  <2> QED
    BY <2>1, AllAccepted DEF TypeOK, Identities
<1>4. PICK i \in 1 .. N : pcap_states[i] = fd_ctrl[f]
  BY <1>2, <1>3
<1>5. Had("SETUP_PCAP", i)
  BY <1>1, PosValues, RoundOrder DEF RoundName
<1> QED
  BY <1>2, <1>4, <1>5 DEF Identities, PcapFiled

-----------------------------------------------------------------------------
(* Fragment IDs *)

\* A step that is not about IDs.
LEMMA IdentitiesFrame ==
  ASSUME TypeOK, Identities,
         UNCHANGED <<autotest, ctrl_states, pcap_states, fd_ctrl, fd_pcap, fid>>,
         \A s \in {"ACCEPT_CTRL", "SETUP_CTRL", "TELL_ID", "ACCEPT_PCAP", "SETUP_PCAP"} :
           \A y \in 1 .. N : Had(s, y)' <=> Had(s, y)
  PROVE  Identities'
<1>1. CtrlFiled' /\ Told' /\ PcapFiled'
  BY DEF Identities, CtrlFiled, Told, PcapFiled, IdOf, Fragment
<1>2. Accepted(ctrl_states, "ACCEPT_CTRL")'
  <2>1. {p \in Process : Had("ACCEPT_CTRL", p)'} = {p \in Process : Had("ACCEPT_CTRL", p)}
    BY DEF Process
  <2> QED
    BY <2>1 DEF Identities, Accepted, Process
<1>3. Accepted(pcap_states, "ACCEPT_PCAP")'
  <2>1. {p \in Process : Had("ACCEPT_PCAP", p)'} = {p \in Process : Had("ACCEPT_PCAP", p)}
    BY DEF Process
  <2> QED
    BY <2>1 DEF Identities, Accepted, Process
<1> QED
  BY <1>1, <1>2, <1>3 DEF Identities

\* The parts of a step about IDs that concern another round.
LEMMA AcceptedFrame ==
  ASSUME NEW r, NEW s, Accepted(s, r), \A y \in 1 .. N : Had(r, y)' <=> Had(r, y)
  PROVE  /\ \A i, j \in DOMAIN s : s[i] = s[j] => i = j
         /\ \A p \in Process : Had(r, p)' <=> \E i \in DOMAIN s : s[i] = p
         /\ Len(s) = Cardinality({p \in Process : Had(r, p)'})
<1>1. {p \in Process : Had(r, p)'} = {p \in Process : Had(r, p)}
  BY DEF Process
<1> QED
  BY <1>1 DEF Accepted, Process

LEMMA OneMoreAccepted ==
  ASSUME TypeOK, NEW r \in RoundName \ {"RUN_TESTCASE"}, NEW p \in Process, Turn(r, p),
         NEW s \in Seq(Process), Accepted(s, r)
  PROVE  /\ \A i, j \in DOMAIN Append(s, p) : Append(s, p)[i] = Append(s, p)[j] => i = j
         /\ \A q \in Process : Had(r, q)' <=> \E i \in DOMAIN Append(s, p) : Append(s, p)[i] = q
         /\ Len(Append(s, p)) = Cardinality({q \in Process : Had(r, q)'})
<1> DEFINE t == Append(s, p)
<1>1. ~Had(r, p) /\ \A q \in Process : Had(r, q)' <=> Had(r, q) \/ q = p
  BY TurnHad DEF Process
<1>2. /\ Len(t) = Len(s) + 1 /\ Len(s) \in Nat
      /\ DOMAIN t = 1 .. Len(s) + 1 /\ DOMAIN s = 1 .. Len(s)
      /\ \A i \in 1 .. Len(s) : t[i] = s[i]
      /\ t[Len(s) + 1] = p
  BY AppendProperties
<1>3. \A i \in 1 .. Len(s) : s[i] # p
  BY <1>1, <1>2 DEF Accepted
<1> HIDE DEF t
<1>4. \A i, j \in DOMAIN t : t[i] = t[j] => i = j
  <2>1. \A i, j \in 1 .. Len(s) : s[i] = s[j] => i = j
    BY <1>2 DEF Accepted
  <2> QED
    BY <1>2, <1>3, <2>1
<1>5. ASSUME NEW q \in Process PROVE Had(r, q)' <=> \E i \in DOMAIN t : t[i] = q
  <2>1. Had(r, q) <=> \E i \in 1 .. Len(s) : s[i] = q
    BY <1>2 DEF Accepted
  <2>2. (\E i \in DOMAIN t : t[i] = q) <=> (\E i \in 1 .. Len(s) : s[i] = q) \/ q = p
    BY <1>2
  <2> QED
    BY <1>1, <2>1, <2>2
<1>6. Len(t) = Cardinality({q \in Process : Had(r, q)'})
  <2> DEFINE H == {q \in Process : Had(r, q)}
  <2>1. {q \in Process : Had(r, q)'} = H \cup {p}
    BY <1>1
  <2>2. IsFiniteSet(H) /\ p \notin H
    <3>1. IsFiniteSet(1 .. N)
      BY WiringAssumption, FS_Interval
    <3>2. H \subseteq 1 .. N
      BY DEF Process
    <3> QED
      BY <1>1, <3>1, <3>2, FS_Subset
  <2>3. Cardinality(H \cup {p}) = Cardinality(H) + 1
    BY <2>2, FS_AddElement
  <2>4. Len(s) = Cardinality(H)
    BY DEF Accepted
  <2> QED
    BY <1>2, <2>1, <2>3, <2>4
<1> QED
  BY <1>4, <1>5, <1>6 DEF t

LEMMA AcceptCtrlKeeps ==
  ASSUME TypeOK, Identities, NEW p \in Process, AcceptCtrl(p)
  PROVE  TypeOK' /\ Identities'
<1>1. /\ Turn("ACCEPT_CTRL", p) /\ ctrl_states' = Append(ctrl_states, p)
      /\ UNCHANGED <<pcap_states, fd_ctrl, fd_pcap, mixnet_server_netaddr, fid>>
  BY DEF AcceptCtrl, procVars
<1>2. /\ round = "ACCEPT_CTRL" /\ UNCHANGED <<topology, autotest>>
      /\ round' \in RoundName /\ todo' \in SUBSET (1 .. N)
      /\ \A s \in RoundName \ {"ACCEPT_CTRL"} : \A y \in 1 .. N : Had(s, y)' <=> Had(s, y)
  BY <1>1, TurnHad DEF RoundName, Process
<1>3. \A s \in {"SETUP_CTRL", "TELL_ID", "SETUP_PCAP"} : \A y \in 1 .. N : ~Had(s, y)
  BY <1>2, PosValues, RoundOrder DEF RoundName
<1>4. TypeOK'
  <2>1. ctrl_states' \in Seq(Process)
    BY <1>1, AppendProperties DEF TypeOK
  <2> QED
    BY <1>1, <1>2, <2>1 DEF TypeOK
<1>5. CtrlFiled' /\ Told' /\ PcapFiled'
  BY <1>1, <1>2, <1>3 DEF Identities, CtrlFiled, Told, PcapFiled, Fragment, RoundName
<1>6. Accepted(ctrl_states, "ACCEPT_CTRL")'
  <2>1. "ACCEPT_CTRL" \in RoundName \ {"RUN_TESTCASE"} /\ ctrl_states \in Seq(Process)
    BY DEF RoundName, TypeOK
  <2>2. Accepted(ctrl_states, "ACCEPT_CTRL")
    BY DEF Identities
  <2>3. LET t == Append(ctrl_states, p) IN
          /\ \A i, j \in DOMAIN t : t[i] = t[j] => i = j
          /\ \A q \in Process : Had("ACCEPT_CTRL", q)' <=> \E i \in DOMAIN t : t[i] = q
          /\ Len(t) = Cardinality({q \in Process : Had("ACCEPT_CTRL", q)'})
    BY <1>1, <2>1, <2>2, OneMoreAccepted
  <2> QED
    BY <1>1, <2>3 DEF Accepted
<1>7. Accepted(pcap_states, "ACCEPT_PCAP")'
  BY <1>1, <1>2, AcceptedFrame DEF Identities, Accepted, RoundName
<1> QED
  BY <1>4, <1>5, <1>6, <1>7 DEF Identities

LEMMA AcceptPcapKeeps ==
  ASSUME TypeOK, Identities, NEW p \in Process, AcceptPcap(p)
  PROVE  TypeOK' /\ Identities'
<1>1. /\ Turn("ACCEPT_PCAP", p) /\ pcap_states' = Append(pcap_states, p)
      /\ UNCHANGED <<ctrl_states, fd_ctrl, fd_pcap, mixnet_server_netaddr, fid>>
  BY DEF AcceptPcap, procVars
<1>2. /\ round = "ACCEPT_PCAP" /\ UNCHANGED <<topology, autotest>>
      /\ round' \in RoundName /\ todo' \in SUBSET (1 .. N)
      /\ \A s \in RoundName \ {"ACCEPT_PCAP"} : \A y \in 1 .. N : Had(s, y)' <=> Had(s, y)
  BY <1>1, TurnHad DEF RoundName, Process
<1>3. \A y \in 1 .. N : ~Had("SETUP_PCAP", y)
  BY <1>2, PosValues, RoundOrder DEF RoundName
<1>4. TypeOK'
  <2>1. pcap_states' \in Seq(Process)
    BY <1>1, AppendProperties DEF TypeOK
  <2> QED
    BY <1>1, <1>2, <2>1 DEF TypeOK
<1>5. CtrlFiled' /\ Told' /\ PcapFiled'
  BY <1>1, <1>2, <1>3 DEF Identities, CtrlFiled, Told, PcapFiled, Fragment, RoundName, IdOf
<1>6. Accepted(pcap_states, "ACCEPT_PCAP")'
  <2>1. "ACCEPT_PCAP" \in RoundName \ {"RUN_TESTCASE"} /\ pcap_states \in Seq(Process)
    BY DEF RoundName, TypeOK
  <2>2. Accepted(pcap_states, "ACCEPT_PCAP")
    BY DEF Identities
  <2>3. LET t == Append(pcap_states, p) IN
          /\ \A i, j \in DOMAIN t : t[i] = t[j] => i = j
          /\ \A q \in Process : Had("ACCEPT_PCAP", q)' <=> \E i \in DOMAIN t : t[i] = q
          /\ Len(t) = Cardinality({q \in Process : Had("ACCEPT_PCAP", q)'})
    BY <1>1, <2>1, <2>2, OneMoreAccepted
  <2> QED
    BY <1>1, <2>3 DEF Accepted
<1>7. Accepted(ctrl_states, "ACCEPT_CTRL")'
  BY <1>1, <1>2, AcceptedFrame DEF Identities, Accepted, RoundName
<1> QED
  BY <1>4, <1>5, <1>6, <1>7 DEF Identities

\* No two processes claim the same ID.
LEMMA SetupCtrlKeeps ==
  ASSUME TypeOK, Identities, ~failed, NEW idx \in 1 .. N, SetupCtrl(idx)
  PROVE  TypeOK' /\ Identities' /\ UNCHANGED failed
<1>1. /\ Turn("SETUP_CTRL", idx)
      /\ UNCHANGED <<ctrl_states, pcap_states, fd_pcap, mixnet_server_netaddr, fid>>
  BY DEF SetupCtrl, procVars
<1>2. /\ round = "SETUP_CTRL" /\ UNCHANGED <<topology, autotest>>
      /\ round' \in RoundName /\ todo' \in SUBSET (1 .. N) /\ ~Had("SETUP_CTRL", idx)
      /\ \A y \in 1 .. N : Had("SETUP_CTRL", y)' <=> Had("SETUP_CTRL", y) \/ y = idx
      /\ \A s \in RoundName \ {"SETUP_CTRL"} : \A y \in 1 .. N : Had(s, y)' <=> Had(s, y)
  BY <1>1, TurnHad DEF RoundName
<1>3. \A s \in {"TELL_ID", "SETUP_PCAP"} : \A y \in 1 .. N : ~Had(s, y)
  BY <1>2, PosValues, RoundOrder DEF RoundName
<1>4. /\ \A i \in 1 .. N : IdOf(i) \in Fragment
      /\ \A i, j \in 1 .. N : IdOf(i) = IdOf(j) => i = j
  BY <1>2, PosValues, IdsDiffer
<1>5. ctrl_states[idx] \in Process /\ ctrl_states[idx] # NONE
  <2>1. "ACCEPT_CTRL" \in RoundName /\ Pos("ACCEPT_CTRL") < Pos(round)
    BY <1>2, PosValues DEF RoundName
  <2>2. ctrl_states[idx] \in Process
    BY <2>1, AllAccepted DEF TypeOK, Identities
  <2> QED
    BY <2>2 DEF Process, NONE
<1>6. fd_ctrl[IdOf(idx)] = NONE
  BY <1>2, <1>4 DEF Identities, CtrlFiled
<1>7. fd_ctrl' = [fd_ctrl EXCEPT ![IdOf(idx)] = ctrl_states[idx]] /\ UNCHANGED failed
  BY <1>6 DEF SetupCtrl
<1>8. TypeOK'
  BY <1>1, <1>2, <1>4, <1>5, <1>7 DEF TypeOK
<1>9. CtrlFiled'
  <2>1. /\ fd_ctrl'[IdOf(idx)] = ctrl_states[idx]
        /\ \A f \in Fragment : f # IdOf(idx) => fd_ctrl'[f] = fd_ctrl[f]
    BY <1>4, <1>7 DEF TypeOK
  <2>2. \A i \in 1 .. N : IdOf(i)' = IdOf(i)
    BY <1>1, <1>2 DEF IdOf
  <2>3. ASSUME NEW i \in 1 .. N, Had("SETUP_CTRL", i)' PROVE fd_ctrl'[IdOf(i)] = ctrl_states[i]
    BY <1>2, <1>4, <2>1, <2>3 DEF Identities, CtrlFiled
  <2>4. ASSUME NEW f \in Fragment, fd_ctrl'[f] # NONE
        PROVE  \E i \in 1 .. N : Had("SETUP_CTRL", i)' /\ IdOf(i) = f
    BY <1>2, <2>1, <2>4 DEF Identities, CtrlFiled
  <2> QED
    BY <1>1, <2>2, <2>3, <2>4 DEF CtrlFiled
<1>10. Told' /\ PcapFiled'
  BY <1>1, <1>2, <1>3 DEF Identities, Told, PcapFiled, Fragment, RoundName
<1>11. Accepted(ctrl_states, "ACCEPT_CTRL")' /\ Accepted(pcap_states, "ACCEPT_PCAP")'
  BY <1>1, <1>2, AcceptedFrame DEF Identities, Accepted, RoundName
<1> QED
  BY <1>7, <1>8, <1>9, <1>10, <1>11 DEF Identities

LEMMA TellIdKeeps ==
  ASSUME TypeOK, Identities, NEW f \in Fragment, TellId(f)
  PROVE  TypeOK' /\ Identities'
<1>1. /\ Turn("TELL_ID", f) /\ fid' = [fid EXCEPT ![fd_ctrl[f]] = f]
      /\ UNCHANGED <<ctrl_states, pcap_states, fd_ctrl, fd_pcap, mixnet_server_netaddr>>
  BY DEF TellId, orchVars
<1>2. /\ round = "TELL_ID" /\ UNCHANGED <<topology, autotest>>
      /\ round' \in RoundName /\ todo' \in SUBSET (1 .. N)
      /\ \A y \in 1 .. N : Had("TELL_ID", y)' <=> Had("TELL_ID", y) \/ y = f
      /\ \A s \in RoundName \ {"TELL_ID"} : \A y \in 1 .. N : Had(s, y)' <=> Had(s, y)
  BY <1>1, TurnHad DEF RoundName, Fragment
<1>3. \A y \in 1 .. N : ~Had("SETUP_PCAP", y)
  BY <1>2, PosValues, RoundOrder DEF RoundName
<1>4. /\ \A g \in Fragment : fd_ctrl[g] \in Process
      /\ \A g \in Fragment : fd_ctrl[g] = fd_ctrl[f] => g = f
  BY <1>2, PosValues, CtrlBijective
<1>5. TypeOK'
  BY <1>1, <1>2, <1>4 DEF TypeOK
<1>6. Told'
  <2>1. ASSUME NEW g \in Fragment, Had("TELL_ID", g)' PROVE fid'[fd_ctrl[g]] = g
    <3>1. CASE g = f
      BY <1>1, <1>4, <3>1 DEF TypeOK
    <3>2. CASE g # f
      <4>1. fid[fd_ctrl[g]] = g
        BY <1>2, <2>1, <3>2 DEF Identities, Told, Fragment
      <4>2. fid'[fd_ctrl[g]] = fid[fd_ctrl[g]]
        BY <1>1, <1>4, <3>2 DEF TypeOK
      <4> QED
        BY <4>1, <4>2
    <3> QED
      BY <3>1, <3>2
  <2> QED
    BY <1>1, <2>1 DEF Told
<1>7. CtrlFiled' /\ PcapFiled'
  BY <1>1, <1>2, <1>3 DEF Identities, CtrlFiled, PcapFiled, Fragment, RoundName, IdOf
<1>8. Accepted(ctrl_states, "ACCEPT_CTRL")' /\ Accepted(pcap_states, "ACCEPT_PCAP")'
  BY <1>1, <1>2, AcceptedFrame DEF Identities, Accepted, RoundName
<1> QED
  BY <1>5, <1>6, <1>7, <1>8 DEF Identities

LEMMA SetupPcapKeeps ==
  ASSUME TypeOK, Identities, ~failed, NEW idx \in 1 .. N, SetupPcap(idx)
  PROVE  TypeOK' /\ Identities' /\ UNCHANGED failed
<1>1. /\ Turn("SETUP_PCAP", idx)
      /\ UNCHANGED <<ctrl_states, pcap_states, fd_ctrl, mixnet_server_netaddr, fid>>
  BY DEF SetupPcap, procVars
<1>2. /\ round = "SETUP_PCAP" /\ UNCHANGED <<topology, autotest>>
      /\ round' \in RoundName /\ todo' \in SUBSET (1 .. N) /\ ~Had("SETUP_PCAP", idx)
      /\ \A y \in 1 .. N : Had("SETUP_PCAP", y)' <=> Had("SETUP_PCAP", y) \/ y = idx
      /\ \A s \in RoundName \ {"SETUP_PCAP"} : \A y \in 1 .. N : Had(s, y)' <=> Had(s, y)
  BY <1>1, TurnHad DEF RoundName
<1>3. \A p \in Process : fid[p] \in Fragment /\ fd_ctrl[fid[p]] = p
  BY <1>2, IdsKnownLater
<1>4. /\ \A i \in 1 .. N : pcap_states[i] \in Process
      /\ \A i, j \in 1 .. N : pcap_states[i] = pcap_states[j] => i = j
  <2>1. "ACCEPT_PCAP" \in RoundName /\ Pos("ACCEPT_PCAP") < Pos(round)
    BY <1>2, PosValues DEF RoundName
  <2> QED
    BY <2>1, AllAccepted DEF TypeOK, Identities
<1> DEFINE Owner(i) == fid[pcap_states[i]]
<1>5. /\ \A i \in 1 .. N : Owner(i) \in Fragment
      /\ \A i, j \in 1 .. N : Owner(i) = Owner(j) => i = j
  BY <1>3, <1>4
<1>6. fd_pcap[Owner(idx)] = NONE
  BY <1>2, <1>5 DEF Identities, PcapFiled
<1>7. fd_pcap' = [fd_pcap EXCEPT ![Owner(idx)] = pcap_states[idx]] /\ UNCHANGED failed
  BY <1>6 DEF SetupPcap
<1>8. TypeOK'
  BY <1>1, <1>2, <1>4, <1>5, <1>7 DEF TypeOK
<1>9. PcapFiled'
  <2>1. /\ fd_pcap'[Owner(idx)] = pcap_states[idx]
        /\ \A f \in Fragment : f # Owner(idx) => fd_pcap'[f] = fd_pcap[f]
    BY <1>5, <1>7 DEF TypeOK
  <2>2. ASSUME NEW i \in 1 .. N, Had("SETUP_PCAP", i)' PROVE fd_pcap'[Owner(i)] = pcap_states[i]
    BY <1>2, <1>5, <2>1, <2>2 DEF Identities, PcapFiled
  <2>3. ASSUME NEW f \in Fragment, fd_pcap'[f] # NONE
        PROVE  \E i \in 1 .. N : Had("SETUP_PCAP", i)' /\ Owner(i) = f
    BY <1>2, <2>1, <2>3 DEF Identities, PcapFiled
  <2> QED
    BY <1>1, <2>2, <2>3 DEF PcapFiled
<1>10. Told' /\ CtrlFiled'
  BY <1>1, <1>2 DEF Identities, Told, CtrlFiled, Fragment, RoundName, IdOf
<1>11. Accepted(ctrl_states, "ACCEPT_CTRL")' /\ Accepted(pcap_states, "ACCEPT_PCAP")'
  BY <1>1, <1>2, AcceptedFrame DEF Identities, Accepted, RoundName
<1> QED
  BY <1>7, <1>8, <1>9, <1>10, <1>11 DEF Identities

-----------------------------------------------------------------------------
(* Mixnet connections *)

\* The neighbour's list has this node in one place.
LEMMA NidIs ==
  ASSUME TypeOK, NEW f \in Fragment, NEW k \in DOMAIN topology[f]
  PROVE  /\ topology[f][k] \in Fragment
         /\ Nid(topology[f][k], f) \in DOMAIN topology[topology[f][k]]
         /\ topology[topology[f][k]][Nid(topology[f][k], f)] = f
         /\ topology[topology[f][k]] # <<>>
<1>1. WellFormed(topology)
  BY WiringAssumption DEF TypeOK
<1>2. topology[f] \in Seq(Fragment)
  BY <1>1 DEF WellFormed
<1>3. topology[f][k] \in Fragment
  BY <1>2
<1>4. PICK l \in DOMAIN topology[topology[f][k]] : topology[topology[f][k]][l] = f
  BY <1>1 DEF WellFormed
<1>5. \A i \in DOMAIN <<>> : FALSE
  OBVIOUS
<1> QED
  BY <1>3, <1>4, <1>5 DEF Nid

LinkInv == LinkTypes /\ Servers /\ Connected /\ Reported /\ Resolved

\* While IDs are handed out there are no connections.
LEMMA EarlyLinks ==
  ASSUME TypeOK, LinkInv,
         NEW r \in {"ACCEPT_CTRL", "SETUP_CTRL", "TELL_ID", "ACCEPT_PCAP", "SETUP_PCAP"},
         NEW x \in 1 .. N, Turn(r, x),
         UNCHANGED <<mixnet_server_netaddr, mixnet_client_netaddrs, rx_socket_fds, states,
                     tx_socket_fds>>
  PROVE  LinkInv'
<1>1. r \in RoundName \ {"RUN_TESTCASE"}
  BY DEF RoundName
<1>2. /\ round = r
      /\ \A s \in RoundName \ {r} : \A y \in 1 .. N : Had(s, y)' <=> Had(s, y)
  BY <1>1, TurnHad
<1>3. Pos(round) < 6
  BY <1>2, PosValues
<1>4. \A s \in {"START_MIXNET_SERVER", "START_MIXNET_CLIENTS", "RESOLVE_MIXNET_CONNS"} :
        \A y \in Fragment : ~Had(s, y) /\ ~Had(s, y)'
  <2>1. ASSUME NEW s \in {"START_MIXNET_SERVER", "START_MIXNET_CLIENTS", "RESOLVE_MIXNET_CONNS"},
               NEW y \in 1 .. N
        PROVE  ~Had(s, y) /\ ~Had(s, y)'
    <3>1. s \in RoundName \ {r} /\ Pos(round) < Pos(s)
      BY <1>2, PosValues DEF RoundName
    <3> QED
      BY <1>2, <3>1, RoundOrder
  <2> QED
    BY <2>1 DEF Fragment
<1>5. Servers' /\ Reported' /\ Resolved' /\ LinkTypes'
  BY <1>4 DEF LinkInv, Servers, Reported, Resolved, LinkTypes
<1>6. \A p \in Process : \A k \in DOMAIN rx_socket_fds[p] : FALSE
  <2>1. Pos(round) \in Nat
    BY <1>2, PosValues
  <2> QED
    BY <1>3, <2>1, PosValues DEF LinkInv, Connected
<1>7. Connected'
  BY <1>6 DEF LinkInv, Connected
<1> QED
  BY <1>5, <1>7 DEF LinkInv

LEMMA StartMixnetServerKeeps ==
  ASSUME TypeOK, Identities, LinkInv, NEW f \in Fragment, StartMixnetServer(f)
  PROVE  TypeOK' /\ Identities' /\ LinkInv'
<1>1. /\ Turn("START_MIXNET_SERVER", f)
      /\ mixnet_server_netaddr' = IF topology[f] = <<>> THEN mixnet_server_netaddr
                                  ELSE [mixnet_server_netaddr EXCEPT ![f] = fd_ctrl[f]]
      /\ UNCHANGED <<ctrl_states, pcap_states, fd_ctrl, fd_pcap, mixnet_client_netaddrs, fid,
                     rx_socket_fds, states, tx_socket_fds>>
  BY DEF StartMixnetServer, procVars
<1>2. /\ round = "START_MIXNET_SERVER" /\ UNCHANGED <<topology, autotest>>
      /\ round' \in RoundName /\ todo' \in SUBSET (1 .. N)
      /\ \A y \in 1 .. N : Had("START_MIXNET_SERVER", y)' <=> Had("START_MIXNET_SERVER", y) \/ y = f
      /\ \A s \in RoundName \ {"START_MIXNET_SERVER"} : \A y \in 1 .. N : Had(s, y)' <=> Had(s, y)
  BY <1>1, TurnHad DEF RoundName, Fragment
<1>3. TypeOK'
  BY <1>1, <1>2 DEF TypeOK
<1>4. Identities'
  BY <1>1, <1>2, IdentitiesFrame DEF RoundName
<1>5. \A s \in {"START_MIXNET_CLIENTS", "RESOLVE_MIXNET_CONNS"} :
        \A y \in Fragment : ~Had(s, y) /\ ~Had(s, y)'
  BY <1>2, PosValues, RoundOrder DEF RoundName, Fragment
<1>6. Servers'
  BY <1>1, <1>2 DEF LinkInv, Servers, TypeOK, Fragment
<1>7. LinkTypes' /\ Reported' /\ Resolved'
  BY <1>1, <1>5 DEF LinkInv, LinkTypes, Reported, Resolved
<1>8. Connected'
  BY <1>1, <1>2, PosValues DEF LinkInv, Connected
<1> QED
  BY <1>3, <1>4, <1>6, <1>7, <1>8 DEF LinkInv

LEMMA ConnectMixnetKeeps ==
  ASSUME TypeOK, Identities, LinkInv, NEW p \in Process, NEW a \in Addr, ConnectMixnet(p, a)
  PROVE  TypeOK' /\ Identities' /\ LinkInv'
<1> DEFINE f == fid[p]
           L == Len(rx_socket_fds[p])
           g == topology[f][L + 1]
           q == mixnet_server_netaddr[g]
           c == [from |-> p, to |-> q, addr |-> a]
<1>1. /\ round = "START_MIXNET_CLIENTS" /\ L < Len(topology[f])
      /\ \A i \in DOMAIN states[q] : states[q][i].addr # a
      /\ rx_socket_fds' = [rx_socket_fds EXCEPT ![p] = Append(@, c)]
      /\ states' = [states EXCEPT ![q] = Append(@, c)]
      /\ UNCHANGED <<topology, autotest, round, todo, ctrl_states, pcap_states, fd_ctrl, fd_pcap,
                     mixnet_server_netaddr, mixnet_client_netaddrs, fid, tx_socket_fds>>
  BY DEF ConnectMixnet, Neighbors, orchVars
<1>2. \A s, y : Had(s, y)' <=> Had(s, y)
  BY <1>1 DEF Had
<1>3. TypeOK'
  BY <1>1 DEF TypeOK
<1>4. Identities'
  BY <1>1, <1>2, IdentitiesFrame
<1>5. /\ f \in Fragment /\ fd_ctrl[f] = p
      /\ \A h \in Fragment : fd_ctrl[h] \in Process /\ fid[fd_ctrl[h]] = h
  <2>1. round \in {"START_MIXNET_CLIENTS", "RUN_TESTCASE"}
    BY <1>1
  <2>2. /\ \A h \in Fragment : fd_ctrl[h] \in Process /\ fid[fd_ctrl[h]] = h
        /\ \A y \in Process : fid[y] \in Fragment /\ fd_ctrl[fid[y]] = y
    BY <2>1, IdsKnownLater
  <2> QED
    BY <2>2
<1>6. L \in Nat /\ L + 1 \in DOMAIN topology[f]
  <2>1. rx_socket_fds[p] \in Seq(Connection)
    BY DEF LinkInv, LinkTypes
  <2>2. topology[f] \in Seq(Fragment)
    BY <1>5, WiringAssumption DEF TypeOK, WellFormed
  <2>3. L \in Nat /\ Len(topology[f]) \in Nat /\ DOMAIN topology[f] = 1 .. Len(topology[f])
    BY <2>1, <2>2
  <2>4. L < Len(topology[f])
    BY <1>1
  <2> HIDE DEF L
  <2> QED
    BY <2>3, <2>4
<1>7. q = fd_ctrl[g] /\ q \in Process
  <2>1. g \in Fragment /\ topology[g] # <<>>
    BY <1>5, <1>6, NidIs
  <2>2. Had("START_MIXNET_SERVER", g)
    <3>1. \A y \in 1 .. N : Had("START_MIXNET_SERVER", y)
      <4>1. round = "START_MIXNET_CLIENTS"
        BY <1>1
      <4>2. "START_MIXNET_SERVER" \in RoundName /\ Pos("START_MIXNET_SERVER") < Pos(round)
        BY <4>1, PosValues DEF RoundName
      <4> QED
        BY <4>2, RoundOrder
    <3> QED
      BY <2>1, <3>1 DEF Fragment
  <2> QED
    BY <1>5, <2>1, <2>2 DEF LinkInv, Servers
<1>8. c \in Connection /\ c.to = q /\ c.addr = a
  BY <1>7 DEF Connection
<1>9. rx_socket_fds[p] \in Seq(Connection) /\ states[q] \in Seq(Connection)
  BY <1>7 DEF LinkInv, LinkTypes
<1>10. /\ rx_socket_fds'[p] = Append(rx_socket_fds[p], c)
       /\ \A r \in Process \ {p} : rx_socket_fds'[r] = rx_socket_fds[r]
       /\ states'[q] = Append(states[q], c)
       /\ \A r \in Process \ {q} : states'[r] = states[r]
  BY <1>1, <1>7 DEF LinkInv, LinkTypes
<1> HIDE DEF f, L, g, q, c
<1>11. /\ DOMAIN rx_socket_fds'[p] = 1 .. (L + 1) /\ DOMAIN rx_socket_fds[p] = 1 .. L
       /\ \A i \in 1 .. L : rx_socket_fds'[p][i] = rx_socket_fds[p][i]
       /\ rx_socket_fds'[p][L + 1] = c
  BY <1>8, <1>9, <1>10, AppendProperties DEF L
<1>12. /\ DOMAIN states'[q] = 1 .. (Len(states[q]) + 1) /\ DOMAIN states[q] = 1 .. Len(states[q])
       /\ Len(states[q]) \in Nat
       /\ \A i \in 1 .. Len(states[q]) : states'[q][i] = states[q][i]
       /\ states'[q][Len(states[q]) + 1] = c
  BY <1>8, <1>9, <1>10, AppendProperties
<1>13. LinkTypes'
  <2>1. Append(rx_socket_fds[p], c) \in Seq(Connection) /\ Append(states[q], c) \in Seq(Connection)
    BY <1>8, <1>9, AppendProperties
  <2> QED
    BY <1>1, <1>7, <2>1 DEF LinkInv, LinkTypes
<1>14. ASSUME NEW r \in Process, NEW i \in DOMAIN states[r]
       PROVE  i \in DOMAIN states'[r] /\ states'[r][i] = states[r][i]
  <2>1. CASE r = q
    BY <1>12, <1>14, <2>1
  <2>2. CASE r # q
    BY <1>10, <1>14, <2>2
  <2> QED
    BY <2>1, <2>2
<1>15. ASSUME NEW r \in Process, NEW k \in DOMAIN rx_socket_fds'[r]
       PROVE  LET d == rx_socket_fds'[r][k] IN
                /\ d.to = fd_ctrl[Neighbors(r)[k]]
                /\ \E i \in DOMAIN states'[d.to] : states'[d.to][i] = d
  <2>1. CASE r = p /\ k = L + 1
    <3>1. rx_socket_fds'[r][k] = c
      BY <1>11, <2>1
    <3>2. c.to = fd_ctrl[Neighbors(r)[k]]
      BY <1>7, <1>8, <2>1 DEF Neighbors, g, f
    <3>3. \E i \in DOMAIN states'[q] : states'[q][i] = c
      BY <1>12
    <3> QED
      BY <1>8, <3>1, <3>2, <3>3
  <2>2. CASE ~(r = p /\ k = L + 1)
    <3>1. k \in DOMAIN rx_socket_fds[r] /\ rx_socket_fds'[r][k] = rx_socket_fds[r][k]
      BY <1>6, <1>10, <1>11, <1>15, <2>2
    <3>2. rx_socket_fds[r][k] \in Connection
      BY <3>1 DEF LinkInv, LinkTypes
    <3>3. rx_socket_fds[r][k].to \in Process
      BY <3>2 DEF Connection
    <3>4. LET d == rx_socket_fds[r][k] IN
            /\ d.to = fd_ctrl[Neighbors(r)[k]]
            /\ \E i \in DOMAIN states[d.to] : states[d.to][i] = d
      BY <3>1 DEF LinkInv, Connected
    <3> QED
      BY <1>14, <3>1, <3>3, <3>4
  <2> QED
    BY <2>1, <2>2
<1>16. ASSUME NEW r \in Process, NEW i \in DOMAIN states'[r], NEW j \in DOMAIN states'[r],
              states'[r][i].addr = states'[r][j].addr
       PROVE  i = j
  <2>1. CASE r # q
    BY <1>10, <1>16, <2>1 DEF LinkInv, Connected
  <2>2. CASE r = q
    <3>1. \A k, l \in 1 .. Len(states[q]) : states[q][k].addr = states[q][l].addr => k = l
      BY <1>7, <1>12 DEF LinkInv, Connected
    <3>2. \A k \in 1 .. Len(states[q]) : states[q][k].addr # a
      BY <1>1, <1>12
    <3> DEFINE n == Len(states[q])
    <3>3. \A k \in 1 .. n + 1 : k \in 1 .. n \/ k = n + 1
      BY <1>12
    <3>4. i \in 1 .. n + 1 /\ j \in 1 .. n + 1
      BY <1>12, <1>16, <2>2
    <3>5. \A k \in 1 .. n : states'[q][k].addr = states[q][k].addr
      BY <1>12
    <3>6. states'[q][n + 1].addr = a
      BY <1>8, <1>12
    <3> HIDE DEF n
    <3>7. CASE i \in 1 .. n /\ j \in 1 .. n
      BY <1>16, <2>2, <3>1, <3>5, <3>7 DEF n
    <3> QED
      BY <1>16, <2>2, <3>2, <3>3, <3>4, <3>5, <3>6, <3>7 DEF n
  <2> QED
    BY <2>1, <2>2
<1>17. Connected'
  <2>1. Pos(round') >= Pos("START_MIXNET_CLIENTS")
    BY <1>1, PosValues
  <2>2. \A r : Neighbors(r)' = Neighbors(r)
    BY <1>1 DEF Neighbors
  <2>3. UNCHANGED fd_ctrl
    BY <1>1
  <2> QED
    BY <1>15, <1>16, <2>1, <2>2, <2>3 DEF Connected
<1>18. Servers'
  BY <1>1, <1>2 DEF LinkInv, Servers
<1>19. Reported'
  <2>1. ASSUME NEW h \in Fragment, Had("START_MIXNET_CLIENTS", h)
        PROVE  rx_socket_fds'[fd_ctrl[h]] = rx_socket_fds[fd_ctrl[h]]
    <3>1. Len(rx_socket_fds[fd_ctrl[h]]) = Len(topology[h])
      BY <2>1 DEF LinkInv, Reported
    <3>2. h # f
      <4>1. L # Len(topology[f])
        BY <1>1, <1>6
      <4> QED
        BY <1>5, <3>1, <4>1 DEF L
    <3>3. fd_ctrl[h] \in Process /\ fd_ctrl[h] # p
      BY <1>5, <3>2
    <3> QED
      BY <1>10, <3>3
  <2>2. UNCHANGED <<topology, fd_ctrl, mixnet_client_netaddrs>>
    BY <1>1
  <2> QED
    BY <1>2, <2>1, <2>2 DEF LinkInv, Reported
<1>20. Resolved'
  <2>1. \A h \in Fragment : ~Had("RESOLVE_MIXNET_CONNS", h)
    BY <1>1, PosValues, RoundOrder DEF RoundName, Fragment
  <2> QED
    BY <1>2, <2>1 DEF Resolved
<1> QED
  BY <1>3, <1>4, <1>13, <1>17, <1>18, <1>19, <1>20 DEF LinkInv

LEMMA StartMixnetClientsKeeps ==
  ASSUME TypeOK, Identities, LinkInv, NEW f \in Fragment, StartMixnetClients(f)
  PROVE  TypeOK' /\ Identities' /\ LinkInv'
<1> DEFINE p == fd_ctrl[f]
           addrs == [k \in DOMAIN rx_socket_fds[p] |-> rx_socket_fds[p][k].addr]
<1>1. /\ Turn("START_MIXNET_CLIENTS", f)
      /\ Len(rx_socket_fds[p]) = Len(Neighbors(p))
      /\ mixnet_client_netaddrs' = [mixnet_client_netaddrs EXCEPT ![f] = @ \o addrs]
      /\ UNCHANGED <<ctrl_states, pcap_states, fd_ctrl, fd_pcap, mixnet_server_netaddr, fid,
                     rx_socket_fds, states, tx_socket_fds>>
  BY DEF StartMixnetClients, procVars
<1>2. /\ round = "START_MIXNET_CLIENTS" /\ UNCHANGED <<topology, autotest>>
      /\ round' \in RoundName /\ todo' \in SUBSET (1 .. N) /\ Pos(round') >= Pos(round)
      /\ ~Had("START_MIXNET_CLIENTS", f)
      /\ \A y \in 1 .. N : Had("START_MIXNET_CLIENTS", y)' <=> Had("START_MIXNET_CLIENTS", y) \/ y = f
      /\ \A s \in RoundName \ {"START_MIXNET_CLIENTS"} : \A y \in 1 .. N : Had(s, y)' <=> Had(s, y)
  BY <1>1, TurnHad DEF RoundName, Fragment
<1>3. TypeOK'
  BY <1>1, <1>2 DEF TypeOK
<1>4. Identities'
  BY <1>1, <1>2, IdentitiesFrame DEF RoundName
<1>5. p \in Process /\ Neighbors(p) = topology[f]
  BY <1>2, IdsKnownLater DEF Neighbors
<1>6. addrs \in Seq(Addr)
  <2>1. rx_socket_fds[p] \in Seq(Connection)
    BY <1>5 DEF LinkInv, LinkTypes
  <2>2. \A k \in 1 .. Len(rx_socket_fds[p]) : rx_socket_fds[p][k] \in Connection
    BY <2>1, ElementOfSeq
  <2>3. \A k \in 1 .. Len(rx_socket_fds[p]) : rx_socket_fds[p][k].addr \in Addr
    BY <2>2 DEF Connection
  <2>4. DOMAIN rx_socket_fds[p] = 1 .. Len(rx_socket_fds[p]) /\ Len(rx_socket_fds[p]) \in Nat
    BY <2>1
  <2>5. addrs \in [1 .. Len(rx_socket_fds[p]) -> Addr]
    BY <2>3, <2>4
  <2> HIDE DEF addrs
  <2> QED
    BY <2>4, <2>5, SeqDef
<1>7. mixnet_client_netaddrs[f] \o addrs = addrs
  <2>1. mixnet_client_netaddrs[f] = <<>>
    BY <1>2 DEF LinkInv, Reported
  <2> HIDE DEF addrs
  <2> QED
    BY <1>6, <2>1, ConcatEmptySeq
<1>8. LinkTypes'
  BY <1>1, <1>6, <1>7 DEF LinkInv, LinkTypes
<1>9. Servers'
  BY <1>1, <1>2 DEF LinkInv, Servers, Fragment, RoundName
<1>10. Connected'
  <2>1. Pos(round') >= Pos("START_MIXNET_CLIENTS")
    BY <1>2
  <2>2. \A r : Neighbors(r)' = Neighbors(r)
    BY <1>1, <1>2 DEF Neighbors
  <2> QED
    BY <1>1, <2>1, <2>2 DEF LinkInv, Connected
<1>11. Reported'
  <2>1. ASSUME NEW g \in Fragment PROVE
          IF Had("START_MIXNET_CLIENTS", g)'
            THEN /\ Len(rx_socket_fds[fd_ctrl[g]]) = Len(topology[g])
                 /\ mixnet_client_netaddrs'[g] = [k \in DOMAIN rx_socket_fds[fd_ctrl[g]] |->
                                                    rx_socket_fds[fd_ctrl[g]][k].addr]
            ELSE mixnet_client_netaddrs'[g] = <<>>
    <3>1. CASE g = f
      <4>1. Had("START_MIXNET_CLIENTS", g)'
        BY <1>2, <3>1 DEF Fragment
      <4>2. mixnet_client_netaddrs'[f] = addrs
        BY <1>1, <1>7 DEF LinkInv, LinkTypes
      <4> QED
        BY <1>1, <1>5, <3>1, <4>1, <4>2
    <3>2. CASE g # f
      <4>1. mixnet_client_netaddrs'[g] = mixnet_client_netaddrs[g]
        BY <1>1, <3>2 DEF LinkInv, LinkTypes
      <4>2. Had("START_MIXNET_CLIENTS", g)' <=> Had("START_MIXNET_CLIENTS", g)
        BY <1>2, <3>2 DEF Fragment
      <4> QED
        BY <4>1, <4>2 DEF LinkInv, Reported
    <3> QED
      BY <3>1, <3>2
  <2>2. UNCHANGED <<topology, fd_ctrl, rx_socket_fds>>
    BY <1>1, <1>2
  <2> QED
    BY <2>1, <2>2 DEF Reported
<1>12. Resolved'
  <2>1. \A h \in Fragment : ~Had("RESOLVE_MIXNET_CONNS", h)'
    BY <1>2, PosValues, RoundOrder DEF RoundName, Fragment
  <2> QED
    BY <2>1 DEF Resolved
<1> QED
  BY <1>3, <1>4, <1>8, <1>9, <1>10, <1>11, <1>12 DEF LinkInv

\* Every neighbour's address is found, and the connection with that address is the
\* one that the neighbour made for this node.
LEMMA ResolveFinds ==
  ASSUME TypeOK, Identities, LinkInv, round = "RESOLVE_MIXNET_CONNS",
         NEW f \in Fragment, NEW k \in DOMAIN topology[f]
  PROVE  \E i \in DOMAIN states[fd_ctrl[f]] :
           /\ {j \in DOMAIN states[fd_ctrl[f]] :
                 states[fd_ctrl[f]][j].addr = ClientAddr(f, k)} = {i}
           /\ states[fd_ctrl[f]][i] =
                rx_socket_fds[fd_ctrl[topology[f][k]]][Nid(topology[f][k], f)]
<1> DEFINE p == fd_ctrl[f]
           g == topology[f][k]
           q == fd_ctrl[g]
           l == Nid(g, f)
           c == rx_socket_fds[q][l]
<1>1. g \in Fragment /\ l \in DOMAIN topology[g] /\ topology[g][l] = f
  BY NidIs
<1>2. p \in Process /\ q \in Process /\ fid[q] = g
  BY <1>1, IdsKnownLater
<1>3. /\ Len(rx_socket_fds[q]) = Len(topology[g])
      /\ mixnet_client_netaddrs[g] = [j \in DOMAIN rx_socket_fds[q] |-> rx_socket_fds[q][j].addr]
  <2>1. "START_MIXNET_CLIENTS" \in RoundName /\ Pos("START_MIXNET_CLIENTS") < Pos(round)
    BY PosValues DEF RoundName
  <2>2. \A y \in 1 .. N : Had("START_MIXNET_CLIENTS", y)
    BY <2>1, RoundOrder
  <2> QED
    BY <1>1, <2>2 DEF LinkInv, Reported, Fragment
<1>4. l \in DOMAIN rx_socket_fds[q]
  <2>1. topology[g] \in Seq(Fragment) /\ rx_socket_fds[q] \in Seq(Connection)
    BY <1>1, <1>2, WiringAssumption DEF TypeOK, WellFormed, LinkInv, LinkTypes
  <2>2. DOMAIN topology[g] = 1 .. Len(topology[g]) /\ DOMAIN rx_socket_fds[q] = 1 .. Len(rx_socket_fds[q])
    BY <2>1
  <2> QED
    BY <1>1, <1>3, <2>2
<1>5. ClientAddr(f, k) = c.addr
  BY <1>3, <1>4 DEF ClientAddr
<1>6. c.to = p /\ \E i \in DOMAIN states[p] : states[p][i] = c
  <2>1. c.to = fd_ctrl[Neighbors(q)[l]] /\ \E i \in DOMAIN states[c.to] : states[c.to][i] = c
    <3>1. \A r \in Process : \A m \in DOMAIN rx_socket_fds[r] :
            /\ rx_socket_fds[r][m].to = fd_ctrl[Neighbors(r)[m]]
            /\ \E i \in DOMAIN states[rx_socket_fds[r][m].to] :
                 states[rx_socket_fds[r][m].to][i] = rx_socket_fds[r][m]
      BY DEF LinkInv, Connected
    <3> HIDE DEF q, l
    <3> QED
      BY <1>2, <1>4, <3>1
  <2>2. Neighbors(q)[l] = f
    BY <1>1, <1>2 DEF Neighbors
  <2> QED
    BY <2>1, <2>2
<1>7. PICK i \in DOMAIN states[p] : states[p][i] = c
  BY <1>6
<1>8. \A j \in DOMAIN states[p] : states[p][j].addr = c.addr => j = i
  BY <1>2, <1>7 DEF LinkInv, Connected
<1>9. {j \in DOMAIN states[p] : states[p][j].addr = ClientAddr(f, k)} = {i}
  BY <1>5, <1>7, <1>8
<1> QED
  BY <1>7, <1>9

LEMMA ResolveKeeps ==
  ASSUME TypeOK, Identities, LinkInv, ~failed, NEW f \in Fragment, Resolve(f)
  PROVE  TypeOK' /\ Identities' /\ LinkInv' /\ UNCHANGED failed
<1> DEFINE p == fd_ctrl[f]
           Match(k) == {i \in DOMAIN states[p] : states[p][i].addr = ClientAddr(f, k)}
           First(S) == CHOOSE i \in S : \A j \in S : i <= j
           Mine(k) == rx_socket_fds[fd_ctrl[topology[f][k]]][Nid(topology[f][k], f)]
<1>1. /\ Turn("RESOLVE_MIXNET_CONNS", f)
      /\ UNCHANGED <<ctrl_states, pcap_states, fd_ctrl, fd_pcap, mixnet_server_netaddr,
                     mixnet_client_netaddrs, fid, rx_socket_fds, states>>
  BY DEF Resolve, orchVars
<1>2. /\ round = "RESOLVE_MIXNET_CONNS" /\ UNCHANGED <<topology, autotest>>
      /\ round' \in RoundName /\ todo' \in SUBSET (1 .. N) /\ Pos(round') >= Pos(round)
      /\ \A y \in 1 .. N : Had("RESOLVE_MIXNET_CONNS", y)' <=> Had("RESOLVE_MIXNET_CONNS", y) \/ y = f
      /\ \A s \in RoundName \ {"RESOLVE_MIXNET_CONNS"} : \A y \in 1 .. N : Had(s, y)' <=> Had(s, y)
  BY <1>1, TurnHad DEF RoundName, Fragment
<1>3. TypeOK'
  BY <1>1, <1>2 DEF TypeOK
<1>4. Identities'
  BY <1>1, <1>2, IdentitiesFrame DEF RoundName
<1>5. /\ \A g \in Fragment : fd_ctrl[g] \in Process
      /\ \A g \in Fragment : fd_ctrl[g] = fd_ctrl[f] => g = f
  BY <1>2, PosValues, CtrlBijective
<1>6. states[p] \in Seq(Connection)
  BY <1>5 DEF LinkInv, LinkTypes
<1>7. ASSUME NEW k \in DOMAIN topology[f]
      PROVE  Match(k) # {} /\ states[p][First(Match(k))] = Mine(k) /\ Mine(k) \in Connection
  <2>1. PICK i \in DOMAIN states[p] : Match(k) = {i} /\ states[p][i] = Mine(k)
    BY <1>2, <1>7, ResolveFinds
  <2>2. i \in Nat /\ states[p][i] \in Connection
    BY <1>6
  <2>3. First({i}) = i
    BY <2>2
  <2> QED
    BY <2>1, <2>2, <2>3
<1>8. /\ tx_socket_fds' = [tx_socket_fds EXCEPT ![p] =
                             [k \in DOMAIN topology[f] |-> states[p][First(Match(k))]]]
      /\ UNCHANGED failed
  BY <1>7 DEF Resolve
<1> DEFINE row == [k \in DOMAIN topology[f] |-> states[p][First(Match(k))]]
<1>9. row = [k \in DOMAIN topology[f] |-> Mine(k)]
  BY <1>7
<1>10. row \in Seq(Connection)
  <2>1. topology[f] \in Seq(Fragment)
    BY WiringAssumption DEF TypeOK, WellFormed
  <2>2. DOMAIN topology[f] = 1 .. Len(topology[f]) /\ Len(topology[f]) \in Nat
    BY <2>1
  <2>3. row \in [1 .. Len(topology[f]) -> Connection]
    BY <1>7, <1>9, <2>2
  <2> HIDE DEF row
  <2> QED
    BY <2>2, <2>3, SeqDef
<1>11. LinkTypes'
  BY <1>1, <1>5, <1>8, <1>10 DEF LinkInv, LinkTypes
<1>12. Servers'
  BY <1>1, <1>2 DEF LinkInv, Servers, Fragment, RoundName
<1>13. Connected'
  <2>1. Pos(round') >= Pos("START_MIXNET_CLIENTS")
    <3>1. Pos(round') \in Nat
      BY <1>2, PosValues DEF RoundName
    <3> QED
      BY <1>2, <3>1, PosValues
  <2>2. \A r : Neighbors(r)' = Neighbors(r)
    BY <1>1, <1>2 DEF Neighbors
  <2> QED
    BY <1>1, <2>1, <2>2 DEF LinkInv, Connected
<1>14. Reported'
  BY <1>1, <1>2 DEF LinkInv, Reported, Fragment, RoundName
<1>15. Resolved'
  <2>1. ASSUME NEW g \in Fragment, Had("RESOLVE_MIXNET_CONNS", g)', NEW k \in DOMAIN topology[g]
        PROVE  tx_socket_fds'[fd_ctrl[g]][k] =
                 rx_socket_fds[fd_ctrl[topology[g][k]]][Nid(topology[g][k], g)]
    <3>1. CASE g = f
      <4>1. tx_socket_fds'[p] = row
        BY <1>5, <1>8 DEF LinkInv, LinkTypes
      <4>2. row[k] = Mine(k)
        BY <1>9, <2>1, <3>1
      <4> HIDE DEF row
      <4> QED
        BY <2>1, <3>1, <4>1, <4>2
    <3>2. CASE g # f
      <4>1. tx_socket_fds'[fd_ctrl[g]] = tx_socket_fds[fd_ctrl[g]]
        BY <1>5, <1>8, <3>2 DEF LinkInv, LinkTypes
      <4>2. Had("RESOLVE_MIXNET_CONNS", g)
        BY <1>2, <2>1, <3>2 DEF Fragment
      <4> QED
        BY <2>1, <4>1, <4>2 DEF LinkInv, Resolved
    <3> QED
      BY <3>1, <3>2
  <2>2. \A g, h : Nid(g, h)' = Nid(g, h)
    BY <1>2 DEF Nid
  <2>3. UNCHANGED <<topology, fd_ctrl, rx_socket_fds>>
    BY <1>1, <1>2
  <2> QED
    BY <2>1, <2>2, <2>3 DEF Resolved
<1> QED
  BY <1>3, <1>4, <1>8, <1>11, <1>12, <1>13, <1>14, <1>15 DEF LinkInv

-----------------------------------------------------------------------------
(* The theorems *)

LEMMA InitIInv == Init => IInv
<1> SUFFICES ASSUME Init PROVE IInv
  OBVIOUS
<1>1. \A s \in RoundName : \A y \in 1 .. N : ~Had(s, y)
  BY PosValues DEF Init, Had, RoundName, Process
<1>2. TypeOK /\ LinkTypes /\ failed = FALSE
  BY DEF Init, TypeOK, LinkTypes, RoundName, Process, Fragment
<1>3. \A i \in DOMAIN <<>> : FALSE
  OBVIOUS
<1>4. Accepted(<<>>, "ACCEPT_CTRL") /\ Accepted(<<>>, "ACCEPT_PCAP")
  <2>1. /\ {p \in Process : Had("ACCEPT_CTRL", p)} = {}
        /\ {p \in Process : Had("ACCEPT_PCAP", p)} = {}
    BY <1>1 DEF Process, RoundName
  <2>2. Len(<<>>) = 0 /\ Cardinality({}) = 0
    BY FS_EmptySet
  <2> QED
    BY <1>1, <1>3, <2>1, <2>2 DEF Accepted, Process, RoundName
<1>5. CtrlFiled /\ Told /\ PcapFiled
  BY <1>1 DEF Init, CtrlFiled, Told, PcapFiled, Fragment, RoundName
<1>6. Servers /\ Connected /\ Reported /\ Resolved
  BY <1>1, <1>3 DEF Init, Servers, Connected, Reported, Resolved, Fragment, RoundName
<1>7. ctrl_states = <<>> /\ pcap_states = <<>>
  BY DEF Init
<1> QED
  BY <1>2, <1>4, <1>5, <1>6, <1>7 DEF IInv, Identities

LEMMA NextIInv == IInv /\ [Next]_vars => IInv'
<1> SUFFICES ASSUME IInv, [Next]_vars PROVE IInv'
  OBVIOUS
<1>1. TypeOK /\ Identities /\ LinkInv /\ failed = FALSE
  BY DEF IInv, LinkInv
<1>2. SUFFICES TypeOK' /\ Identities' /\ LinkInv' /\ UNCHANGED failed
  BY <1>1 DEF IInv, LinkInv
<1>3. ASSUME NEW p \in Process, AcceptCtrl(p) PROVE TypeOK' /\ Identities' /\ LinkInv' /\ UNCHANGED failed
  <2>1. LinkInv' /\ UNCHANGED failed
    BY <1>1, <1>3, EarlyLinks DEF AcceptCtrl, procVars, Process
  <2> QED
    BY <1>1, <1>3, <2>1, AcceptCtrlKeeps
<1>4. ASSUME NEW p \in Process, AcceptPcap(p) PROVE TypeOK' /\ Identities' /\ LinkInv' /\ UNCHANGED failed
  <2>1. LinkInv' /\ UNCHANGED failed
    BY <1>1, <1>4, EarlyLinks DEF AcceptPcap, procVars, Process
  <2> QED
    BY <1>1, <1>4, <2>1, AcceptPcapKeeps
<1>5. ASSUME NEW p \in Process, NEW a \in Addr, ConnectMixnet(p, a)
      PROVE  TypeOK' /\ Identities' /\ LinkInv' /\ UNCHANGED failed
  <2>1. UNCHANGED failed
    BY <1>5 DEF ConnectMixnet
  <2> QED
    BY <1>1, <1>5, <2>1, ConnectMixnetKeeps
<1>6. ASSUME NEW idx \in 1 .. N, SetupCtrl(idx)
      PROVE  TypeOK' /\ Identities' /\ LinkInv' /\ UNCHANGED failed
  <2>1. LinkInv'
    BY <1>1, <1>6, EarlyLinks DEF SetupCtrl, procVars
  <2> QED
    BY <1>1, <1>6, <2>1, SetupCtrlKeeps
<1>7. ASSUME NEW idx \in 1 .. N, SetupPcap(idx)
      PROVE  TypeOK' /\ Identities' /\ LinkInv' /\ UNCHANGED failed
  <2>1. LinkInv'
    BY <1>1, <1>7, EarlyLinks DEF SetupPcap, procVars
  <2> QED
    BY <1>1, <1>7, <2>1, SetupPcapKeeps
<1>8. ASSUME NEW f \in Fragment, TellId(f) PROVE TypeOK' /\ Identities' /\ LinkInv' /\ UNCHANGED failed
  <2>1. LinkInv' /\ UNCHANGED failed
    BY <1>1, <1>8, EarlyLinks DEF TellId, orchVars, Fragment
  <2> QED
    BY <1>1, <1>8, <2>1, TellIdKeeps
<1>9. ASSUME NEW f \in Fragment, StartMixnetServer(f) \/ StartMixnetClients(f)
      PROVE  TypeOK' /\ Identities' /\ LinkInv' /\ UNCHANGED failed
  <2>1. UNCHANGED failed
    BY <1>9 DEF StartMixnetServer, StartMixnetClients
  <2> QED
    BY <1>1, <1>9, <2>1, StartMixnetServerKeeps, StartMixnetClientsKeeps
<1>10. ASSUME NEW f \in Fragment, Resolve(f) PROVE TypeOK' /\ Identities' /\ LinkInv' /\ UNCHANGED failed
  BY <1>1, <1>10, ResolveKeeps
<1>11. CASE UNCHANGED vars
  <2>1. UNCHANGED <<topology, autotest, round, todo, ctrl_states, pcap_states, fd_ctrl, fd_pcap,
                    mixnet_server_netaddr, mixnet_client_netaddrs, fid, rx_socket_fds, states,
                    tx_socket_fds, failed>>
    BY <1>11 DEF vars, orchVars, procVars
  <2>2. \A s, y : Had(s, y)' <=> Had(s, y)
    BY <2>1 DEF Had
  <2>3. TypeOK' /\ LinkTypes'
    BY <1>1, <2>1 DEF TypeOK, LinkInv, LinkTypes
  <2>4. Identities'
    BY <1>1, <2>1, <2>2, IdentitiesFrame
  <2>5. Servers' /\ Reported'
    BY <1>1, <2>1, <2>2 DEF LinkInv, Servers, Reported
  <2>6. Connected'
    BY <1>1, <2>1 DEF LinkInv, Connected, Neighbors
  <2>7. Resolved'
    <3>1. \A g, h : Nid(g, h)' = Nid(g, h)
      BY <2>1 DEF Nid
    <3> QED
      BY <1>1, <2>1, <2>2, <3>1 DEF LinkInv, Resolved
  <2> QED
    BY <2>1, <2>3, <2>4, <2>5, <2>6, <2>7 DEF LinkInv
<1> QED
  BY <1>3, <1>4, <1>5, <1>6, <1>7, <1>8, <1>9, <1>10, <1>11 DEF Next, Finished

LEMMA Invariance == Spec => []IInv
  BY InitIInv, NextIInv, PTL DEF Spec

\* Both connections of the orchestrator to a fragment (fd_ctrl and fd_pcap) lead to
\* one process, which knows itself by that fragment's ID, in whatever order the
\* processes connect on either plane.
THEOREM FragmentsIdentified == Spec => []OneProcessPerFragment
<1>1. IInv => OneProcessPerFragment
  <2> SUFFICES ASSUME IInv,
                      round \notin {"ACCEPT_CTRL", "SETUP_CTRL", "TELL_ID", "ACCEPT_PCAP", "SETUP_PCAP"},
                      NEW f \in Fragment
               PROVE  /\ fd_ctrl[f] # NONE /\ fid[fd_ctrl[f]] = f
                      /\ fd_pcap[f] = fd_ctrl[f]
                      /\ autotest => fd_ctrl[f] = f
    BY DEF OneProcessPerFragment
  <2>1. TypeOK /\ Identities
    BY DEF IInv
  <2>2. Pos(round) \in 6 .. 9
    BY <2>1, PosValues DEF TypeOK, RoundName
  <2>3. fd_ctrl[f] \in Process /\ (autotest => fd_ctrl[f] = f)
    BY <2>1, <2>2, CtrlBijective
  <2>4. fid[fd_ctrl[f]] = f
    BY <2>1, <2>2, IdsKnown
  <2>5. fd_pcap[f] = fd_ctrl[f]
    BY <2>1, <2>2, PcapKnown
  <2> QED
    BY <2>3, <2>4, <2>5 DEF Process, NONE
<1> QED
  BY <1>1, Invariance, PTL

\* No step of the wiring fails, and when the test case starts both sockets of every
\* port lead to the neighbour whose place it is and end at the port that the
\* neighbour keeps for this node, for every well-formed topology.
THEOREM PortsWired == Spec => []PortsMatch
<1>1. IInv => PortsMatch
  <2>1. IInv => ~failed
    BY DEF IInv
  <2>2. ASSUME IInv, round = "RUN_TESTCASE", NEW f \in Fragment, NEW k \in DOMAIN topology[f]
        PROVE  /\ rx_socket_fds[fd_ctrl[f]][k].to = fd_ctrl[topology[f][k]]
               /\ tx_socket_fds[fd_ctrl[f]][k] =
                    rx_socket_fds[fd_ctrl[topology[f][k]]][Nid(topology[f][k], f)]
    <3>1. TypeOK /\ Identities /\ LinkTypes /\ Connected /\ Reported /\ Resolved
      BY <2>2 DEF IInv
    <3>2. fd_ctrl[f] \in Process /\ fid[fd_ctrl[f]] = f
      BY <2>2, <3>1, IdsKnownLater
    <3>3. \A s \in {"START_MIXNET_CLIENTS", "RESOLVE_MIXNET_CONNS"} : Had(s, f)
      BY <2>2, <3>1, PosValues, RoundOrder DEF RoundName, Fragment
    <3>4. k \in DOMAIN rx_socket_fds[fd_ctrl[f]]
      <4>1. topology[f] \in Seq(Fragment) /\ rx_socket_fds[fd_ctrl[f]] \in Seq(Connection)
        BY <3>1, <3>2, WiringAssumption DEF TypeOK, WellFormed, LinkTypes
      <4>2. /\ DOMAIN topology[f] = 1 .. Len(topology[f])
            /\ DOMAIN rx_socket_fds[fd_ctrl[f]] = 1 .. Len(rx_socket_fds[fd_ctrl[f]])
        BY <4>1
      <4>3. Len(rx_socket_fds[fd_ctrl[f]]) = Len(topology[f])
        BY <3>1, <3>3 DEF Reported
      <4> QED
        BY <2>2, <4>2, <4>3
    <3>5. rx_socket_fds[fd_ctrl[f]][k].to = fd_ctrl[topology[f][k]]
      BY <3>1, <3>2, <3>4 DEF Connected, Neighbors
    <3> QED
      BY <2>2, <3>1, <3>3, <3>5 DEF Resolved
  <2> QED
    BY <2>1, <2>2 DEF PortsMatch
<1> QED
  BY <1>1, Invariance, PTL

=============================================================================
