------------------------------- MODULE Wiring -------------------------------
(***************************************************************************)
(* Who is who: how the orchestrator (framework/orchestrator.cpp) finds out *)
(* which process is behind which of its connections, and how the fragments *)
(* (framework/fragment.cpp) find out which of theirs leads to which        *)
(* neighbour.  Processes connect in any order, three times: on the ctrl    *)
(* plane, on the pcap plane and to their neighbours' Mixnet servers.       *)
(*                                                                         *)
(* The rounds are barriers, as Orchestration shows; failing processes and  *)
(* timeouts are its subject.  A socket is named by what is at its other    *)
(* end, an address by a member of Addr.                                    *)
(***************************************************************************)
EXTENDS Integers, Sequences, FiniteSets

CONSTANTS
  N,         \* number of fragments
  Topology,  \* adjacency lists the test cases may ask for; t[f][nid] is f's nid'th neighbour
  Addr       \* addresses (host and port) of the client ends of Mixnet connections

Process == 1 .. N    \* in autotest mode in the order in which they are forked
Fragment == 1 .. N   \* fragment IDs; the nodes of the topology

\* What graph::add_edge asserts or ensures: no loops, no link twice, and
\* each link in the lists of both its ends.
WellFormed(t) ==
  /\ t \in [Fragment -> Seq(Fragment)]
  /\ \A f \in Fragment : \A k \in DOMAIN t[f] :
       /\ t[f][k] # f
       /\ \A l \in DOMAIN t[f] : t[f][l] = t[f][k] => l = k
       /\ \E l \in DOMAIN t[t[f][k]] : t[t[f][k]][l] = f

ASSUME WiringAssumption ==
  /\ N \in Nat \ {0}
  /\ \A t \in Topology : WellFormed(t)

NONE == 0   \* an fd or an ID of -1

VARIABLES
  topology,                \* the test case's graph
  autotest,                \* autotest_mode_
  round, todo,             \* what is done now, and by or for whom it is still to be done
  ctrl_states,             \* processes accepted on the ctrl plane, in order
  pcap_states,             \* and on the pcap plane
  fd_ctrl, fd_pcap,        \* fragments_[f]: the process at the other end
  mixnet_server_netaddr,   \* fragments_[f]: the process that listens there
  mixnet_client_netaddrs,  \* fragments_[f]
  fid,                     \* fid[p]: the ID process p was given
  rx_socket_fds,           \* rx_socket_fds[p][nid]: connection made by p
  states,                  \* states[p]: connections accepted by p, in order
  tx_socket_fds,           \* tx_socket_fds[p][nid]: connection accepted by p
  failed                   \* some step returned an error

orchVars == <<ctrl_states, pcap_states, fd_ctrl, fd_pcap, mixnet_server_netaddr,
              mixnet_client_netaddrs>>
procVars == <<fid, rx_socket_fds, states, tx_socket_fds>>
vars == <<topology, autotest, round, todo, orchVars, procVars, failed>>

Connection == [from : Process, to : Process, addr : Addr]

Init ==
  /\ topology \in Topology
  /\ autotest \in BOOLEAN
  /\ round = "ACCEPT_CTRL" /\ todo = Process
  /\ ctrl_states = <<>> /\ pcap_states = <<>>
  /\ fd_ctrl = [f \in Fragment |-> NONE]
  /\ fd_pcap = [f \in Fragment |-> NONE]
  /\ mixnet_server_netaddr = [f \in Fragment |-> NONE]
  /\ mixnet_client_netaddrs = [f \in Fragment |-> <<>>]
  /\ fid = [p \in Process |-> NONE]
  /\ rx_socket_fds = [p \in Process |-> <<>>]
  /\ states = [p \in Process |-> <<>>]
  /\ tx_socket_fds = [p \in Process |-> <<>>]
  /\ failed = FALSE

\* The rounds in which something is learned, in order.
Rounds == <<"ACCEPT_CTRL", "SETUP_CTRL", "TELL_ID", "ACCEPT_PCAP", "SETUP_PCAP",
            "START_MIXNET_SERVER", "START_MIXNET_CLIENTS", "RESOLVE_MIXNET_CONNS",
            "RUN_TESTCASE">>

After(r) == Rounds[1 + CHOOSE i \in DOMAIN Rounds : Rounds[i] = r]

\* x, a process or a fragment, has its turn in round r.  An error ends the run.
Turn(r, x) ==
  /\ round = r /\ ~failed
  /\ x \in todo
  /\ IF todo = {x}
       THEN round' = After(r) /\ todo' = 1 .. N
       ELSE round' = r /\ todo' = todo \ {x}
  /\ UNCHANGED <<topology, autotest>>

-----------------------------------------------------------------------------
(* Fragment IDs *)

\* server_accept on the ctrl plane.
AcceptCtrl(p) ==
  /\ Turn("ACCEPT_CTRL", p)
  /\ ctrl_states' = Append(ctrl_states, p)
  /\ UNCHANGED <<pcap_states, fd_ctrl, fd_pcap, mixnet_server_netaddr, mixnet_client_netaddrs,
                 procVars, failed>>

\* The ID of the fragment on the idx'th connection: in autotest mode that of the
\* pid in its response, else idx.
IdOf(idx) == IF autotest THEN ctrl_states[idx] ELSE idx

\* run_state_setup_ctrl: the response on the idx'th connection.
SetupCtrl(idx) ==
  /\ Turn("SETUP_CTRL", idx)
  /\ IF fd_ctrl[IdOf(idx)] # NONE
       THEN failed' = TRUE /\ UNCHANGED fd_ctrl
       ELSE /\ fd_ctrl' = [fd_ctrl EXCEPT ![IdOf(idx)] = ctrl_states[idx]]
            /\ UNCHANGED failed
  /\ UNCHANGED <<ctrl_states, pcap_states, fd_pcap, mixnet_server_netaddr,
                 mixnet_client_netaddrs, procVars>>

\* The request that completes the handshake carries the ID.
TellId(f) ==
  /\ Turn("TELL_ID", f)
  /\ fid' = [fid EXCEPT ![fd_ctrl[f]] = f]
  /\ UNCHANGED <<orchVars, rx_socket_fds, states, tx_socket_fds, failed>>

\* server_accept on the pcap plane.
AcceptPcap(p) ==
  /\ Turn("ACCEPT_PCAP", p)
  /\ pcap_states' = Append(pcap_states, p)
  /\ UNCHANGED <<ctrl_states, fd_ctrl, fd_pcap, mixnet_server_netaddr, mixnet_client_netaddrs,
                 procVars, failed>>

\* Mutant: the pcap connections, too, are taken to come in the order of the IDs.
SetupPcapInOrder(idx) ==
  /\ Turn("SETUP_PCAP", idx)
  /\ fd_pcap' = [fd_pcap EXCEPT ![idx] = pcap_states[idx]]
  /\ UNCHANGED <<ctrl_states, pcap_states, fd_ctrl, mixnet_server_netaddr,
                 mixnet_client_netaddrs, procVars, failed>>

\* run_state_setup_pcap: the response on the idx'th connection carries the ID.
SetupPcap(idx) ==
  /\ Turn("SETUP_PCAP", idx)
  /\ LET f == fid[pcap_states[idx]] IN
       IF fd_pcap[f] # NONE
         THEN failed' = TRUE /\ UNCHANGED fd_pcap
         ELSE fd_pcap' = [fd_pcap EXCEPT ![f] = pcap_states[idx]] /\ UNCHANGED failed
  /\ UNCHANGED <<ctrl_states, pcap_states, fd_ctrl, mixnet_server_netaddr,
                 mixnet_client_netaddrs, procVars>>

-----------------------------------------------------------------------------
(* Mixnet connections *)

\* f's server is up, and the orchestrator learns its address; of a fragment
\* without neighbours it does not keep it.
StartMixnetServer(f) ==
  /\ Turn("START_MIXNET_SERVER", f)
  /\ mixnet_server_netaddr' =
       IF topology[f] = <<>> THEN mixnet_server_netaddr
       ELSE [mixnet_server_netaddr EXCEPT ![f] = fd_ctrl[f]]
  /\ UNCHANGED <<ctrl_states, pcap_states, fd_ctrl, fd_pcap, mixnet_client_netaddrs, procVars,
                 failed>>

Neighbors(p) == topology[fid[p]]

\* run_state_start_mixnet_client: p connects to the server of its next neighbour
\* and that one's accept thread accepts it.  The kernel picks an address that is
\* not in use towards the same server; towards another one it may be.
ConnectMixnet(p, a) ==
  /\ round = "START_MIXNET_CLIENTS"
  /\ Len(rx_socket_fds[p]) < Len(Neighbors(p))
  /\ LET q == mixnet_server_netaddr[Neighbors(p)[Len(rx_socket_fds[p]) + 1]]
         c == [from |-> p, to |-> q, addr |-> a]
     IN /\ \A i \in DOMAIN states[q] : states[q][i].addr # a
        /\ rx_socket_fds' = [rx_socket_fds EXCEPT ![p] = Append(@, c)]
        /\ states' = [states EXCEPT ![q] = Append(@, c)]
  /\ UNCHANGED <<topology, autotest, round, todo, orchVars, fid, tx_socket_fds, failed>>

\* f has connected to all neighbours and they to it: its response lists the
\* addresses of its connections, which are appended to what is known of f.
StartMixnetClients(f) ==
  LET p == fd_ctrl[f] IN
    /\ Turn("START_MIXNET_CLIENTS", f)
    /\ Len(rx_socket_fds[p]) = Len(Neighbors(p))
    /\ Len(states[p]) = Len(Neighbors(p))
    /\ mixnet_client_netaddrs' =
         [mixnet_client_netaddrs EXCEPT ![f] =
            @ \o [k \in DOMAIN rx_socket_fds[p] |-> rx_socket_fds[p][k].addr]]
    /\ UNCHANGED <<ctrl_states, pcap_states, fd_ctrl, fd_pcap, mixnet_server_netaddr, procVars,
                   failed>>

\* The nid of g in f's list.
Nid(f, g) == CHOOSE k \in DOMAIN topology[f] : topology[f][k] = g

\* run_state_resolve_mixnet_connections: the address from which f's k'th neighbour
\* has connected to f.
ClientAddr(f, k) ==
  LET g == topology[f][k] IN mixnet_client_netaddrs[g][Nid(g, f)]

\* Mutant: connections are taken to come in the order of the neighbours.
ResolveInOrder(f) ==
  /\ Turn("RESOLVE_MIXNET_CONNS", f)
  /\ tx_socket_fds' = [tx_socket_fds EXCEPT ![fd_ctrl[f]] = states[fd_ctrl[f]]]
  /\ UNCHANGED <<orchVars, fid, rx_socket_fds, states, failed>>

\* p finds, for each neighbour, the first accepted connection with its address.
Resolve(f) ==
  LET p == fd_ctrl[f]
      Match(k) == {i \in DOMAIN states[p] : states[p][i].addr = ClientAddr(f, k)}
      First(S) == CHOOSE i \in S : \A j \in S : i <= j
  IN
    /\ Turn("RESOLVE_MIXNET_CONNS", f)
    /\ IF \E k \in DOMAIN topology[f] : Match(k) = {}
         THEN failed' = TRUE /\ UNCHANGED tx_socket_fds
         ELSE /\ tx_socket_fds' = [tx_socket_fds EXCEPT ![p] =
                   [k \in DOMAIN topology[f] |-> states[p][First(Match(k))]]]
              /\ UNCHANGED failed
    /\ UNCHANGED <<orchVars, fid, rx_socket_fds, states>>

Finished == round = "RUN_TESTCASE" /\ UNCHANGED vars

Next ==
  \/ \E p \in Process : AcceptCtrl(p) \/ AcceptPcap(p) \/ \E a \in Addr : ConnectMixnet(p, a)
  \/ \E idx \in 1 .. N : SetupCtrl(idx) \/ SetupPcap(idx)
  \/ \E f \in Fragment : TellId(f) \/ StartMixnetServer(f) \/ StartMixnetClients(f) \/ Resolve(f)
  \/ Finished

Spec == Init /\ [][Next]_vars

-----------------------------------------------------------------------------
(* Properties *)

\* From the pcap plane's handshake on, the orchestrator's two connections to
\* fragment f lead to one process, which knows itself as f; and in autotest mode
\* it is the one that is killed if f does not shut down.
OneProcessPerFragment ==
  round \notin {"ACCEPT_CTRL", "SETUP_CTRL", "TELL_ID", "ACCEPT_PCAP", "SETUP_PCAP"} =>
    \A f \in Fragment :
      /\ fd_ctrl[f] # NONE /\ fid[fd_ctrl[f]] = f
      /\ fd_pcap[f] = fd_ctrl[f]
      /\ autotest => fd_ctrl[f] = f

\* Whatever the order in which processes connect, no two claim the same ID and
\* every connection is found by its address, although the same address may be
\* in use towards different servers.  When the test case starts, both sockets of
\* every port lead to the neighbour whose place it is, and what is sent there
\* arrives at the port that the other end keeps for this node: port numbers, link
\* costs and change_link_state, which are all by nid, are about the same link at
\* both ends.
PortsMatch ==
  /\ ~failed
  /\ round = "RUN_TESTCASE" =>
       \A f \in Fragment : \A k \in DOMAIN topology[f] :
         LET g == topology[f][k]
             p == fd_ctrl[f]
             q == fd_ctrl[g]
         IN /\ rx_socket_fds[p][k].to = q
            /\ tx_socket_fds[p][k] = rx_socket_fds[q][Nid(g, f)]
=============================================================================
