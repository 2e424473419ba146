--------------------------- MODULE Orchestration ---------------------------
(***************************************************************************)
(* One run of a test case: the orchestrator's state machine                *)
(* (framework/orchestrator.cpp) and the state machine of every fragment    *)
(* process (framework/fragment.cpp), over the ctrl and the pcap             *)
(* connections.  Every state of the orchestrator but the last ones is a    *)
(* round: a request to every fragment, a response from every fragment.     *)
(* A request carries no number; only its type tells which round it is of.  *)
(*                                                                         *)
(* What is sent (addresses, topologies, link costs) is left out; who       *)
(* answers, when, with which type and with which error is kept.            *)
(***************************************************************************)
EXTENDS Integers, Sequences, FiniteSets

CONSTANTS
  N,          \* number of fragments; fragment IDs are 1 .. N
  Neighbor,   \* Neighbor[f]: fragments f shares a Mixnet link with
  MaxOps,     \* bound on the requests of the test case itself
  MaxFaults   \* bound on failing steps, dying or hanging threads, crashes

Fragment == 1 .. N

ASSUME ConstantAssumption ==
  /\ N \in Nat \ {0}
  /\ Neighbor \in [Fragment -> SUBSET Fragment]
  /\ MaxOps \in Nat
  /\ MaxFaults \in Nat

Plane == {"ctrl", "pcap"}

\* Mutant: the test case is started before the nodes are connected.
SetupStartEarly == <<"SETUP_CTRL", "SETUP_PCAP", "TOPOLOGY", "START_MIXNET_SERVER",
                     "START_TESTCASE", "START_MIXNET_CLIENTS", "RESOLVE_MIXNET_CONNS">>

\* Rounds in the order of the test run.  A round is named by its message type.
Setup == <<"SETUP_CTRL", "SETUP_PCAP", "TOPOLOGY", "START_MIXNET_SERVER",
           "START_MIXNET_CLIENTS", "RESOLVE_MIXNET_CONNS", "START_TESTCASE">>

Round == {Setup[i] : i \in DOMAIN Setup} \cup {"END_TESTCASE", "SHUTDOWN"}

Error == {"NONE", "TIMEOUT", "CONNECTION_BROKEN", "BAD_MESSAGE_CODE", "FRAGMENT_EXCEPTION",
          "FORK_FAILED"}

VARIABLES
  state,      \* orchestrator::state_
  step,       \* which of the sends and receives of the state is under way
  pending,    \* fragments still polled in the receive under way
  error,      \* error_code accumulated in this state
  exit_code,  \* the first error of the run
  request,    \* number of the last request sent, a ghost
  op,         \* the test case's request under way: its fragment, or 0
  ops_left,
  pids,       \* fragments with pid # -1
  fstate,     \* fragment::state_
  fstep,      \* how far the fragment is within the state
  life,       \* "running", "spinning" (while (true) {}), "exited" or "killed"
  thread,     \* the helper threads: "none", "running", "hung", "exited" by themselves
              \* with an error, or "joined" when told to end
  connected,  \* the fragment has connected to its neighbours' servers
  to,         \* to[p][f]: requests on their way to fragment f on plane p
  from,       \* from[p][f]: responses on their way from fragment f
  autotest,   \* autotest_mode_: the orchestrator forks and kills the fragments
  late,       \* some timeout has passed although an answer was on its way, a ghost
  faults_left

orchVars == <<state, step, pending, error, exit_code, request, op, ops_left, pids>>
fragVars == <<fstate, fstep, life, thread, connected>>
envVars == <<autotest, late, faults_left>>
vars == <<orchVars, fragVars, to, from, envVars>>

Request(type, n) == [type |-> type, number |-> n]
Response(type, err, n) == [type |-> type, err |-> err, number |-> n]

Init ==
  /\ autotest \in BOOLEAN
  /\ state = "SETUP_CTRL"
  /\ step = 1
  /\ pending = Fragment
  /\ error = "NONE"
  /\ exit_code = "NONE"
  /\ request = 0
  /\ op = 0
  /\ ops_left = MaxOps
  /\ pids = IF autotest THEN Fragment ELSE {}
  /\ fstate = [f \in Fragment |-> "SETUP_CTRL"]
  /\ fstep = [f \in Fragment |-> "connect"]
  /\ life = [f \in Fragment |-> "running"]
  /\ thread = [f \in Fragment |-> "none"]
  /\ connected = [f \in Fragment |-> FALSE]
  /\ to = [p \in Plane |-> [f \in Fragment |-> <<>>]]
  /\ from = [p \in Plane |-> [f \in Fragment |-> <<>>]]
  /\ late = FALSE
  /\ faults_left = MaxFaults

-----------------------------------------------------------------------------
(* Fragments *)

Running(f) == life[f] = "running"

\* The process has ended and its sockets are closed.
Gone(f) == life[f] \in {"exited", "killed"}

\* The orchestrator has closed its end of f's connections.
Closed == state = "DONE"

\* run() after an error: an autotest fragment waits to be killed, any other
\* exits.  It knows which it is once it has completed SETUP_CTRL.
Die(f) ==
  /\ life' = [life EXCEPT ![f] =
                IF autotest /\ fstate[f] # "SETUP_CTRL" THEN "spinning" ELSE "exited"]
  /\ UNCHANGED <<fstate, fstep, thread, connected>>

NextRound(r) ==
  LET i == CHOOSE k \in DOMAIN Setup : Setup[k] = r IN
    IF i = Len(Setup) THEN "RUN_TESTCASE" ELSE Setup[i + 1]

\* f moves to another state of its machine, or to another step of the state.
Enter(f, s, at) ==
  /\ fstate' = [fstate EXCEPT ![f] = s]
  /\ fstep' = [fstep EXCEPT ![f] = at]
  /\ UNCHANGED life

HasRequest(f, p) == Running(f) /\ to[p][f] # <<>>

\* Messages are read whole: recv_generic waits until all bytes are there.
Take(f, p) == to' = [to EXCEPT ![p][f] = Tail(@)]

Respond(f, p, type, err, n) ==
  from' = [from EXCEPT ![p][f] = Append(@, Response(type, err, n))]

\* SETUP_CTRL: connect, and speak first.
ConnectCtrl(f) ==
  /\ Running(f) /\ ~Closed
  /\ fstate[f] = "SETUP_CTRL" /\ fstep[f] = "connect"
  /\ Enter(f, "SETUP_CTRL", "await")
  /\ Respond(f, "ctrl", "SETUP_CTRL", "NONE", 0)
  /\ UNCHANGED <<thread, connected, to, orchVars, envVars>>

\* SETUP_CTRL: the request completes the handshake, nothing is answered.
CompleteCtrl(f) ==
  /\ fstate[f] = "SETUP_CTRL" /\ fstep[f] = "await"
  /\ HasRequest(f, "ctrl")
  /\ Head(to["ctrl"][f]).type = "SETUP_CTRL"
  /\ Take(f, "ctrl")
  /\ Enter(f, "SETUP_PCAP", "await")
  /\ UNCHANGED <<thread, connected, from, orchVars, envVars>>

\* SETUP_PCAP: answer on the ctrl plane, then connect and speak first on the
\* pcap plane.  (A request leaves its queue with the last answer to it.)
AnswerPcap(f) ==
  /\ fstate[f] = "SETUP_PCAP" /\ fstep[f] = "await"
  /\ HasRequest(f, "ctrl")
  /\ Head(to["ctrl"][f]).type = "SETUP_PCAP"
  /\ Respond(f, "ctrl", "SETUP_PCAP", "NONE", Head(to["ctrl"][f]).number)
  /\ Enter(f, "SETUP_PCAP", "connect")
  /\ UNCHANGED <<thread, connected, to, orchVars, envVars>>

ConnectPcap(f) ==
  /\ Running(f) /\ ~Closed
  /\ fstate[f] = "SETUP_PCAP" /\ fstep[f] = "connect"
  /\ Respond(f, "pcap", "SETUP_PCAP", "NONE", Head(to["ctrl"][f]).number)
  /\ Take(f, "ctrl")
  /\ Enter(f, "SETUP_PCAP", "handshake")
  /\ UNCHANGED <<thread, connected, orchVars, envVars>>

CompletePcap(f) ==
  /\ fstate[f] = "SETUP_PCAP" /\ fstep[f] = "handshake"
  /\ HasRequest(f, "pcap")
  /\ Head(to["pcap"][f]).type = "SETUP_PCAP"
  /\ Take(f, "pcap")
  /\ Enter(f, "TOPOLOGY", "await")
  /\ UNCHANGED <<thread, connected, from, orchVars, envVars>>

\* A round a fragment answers at once.
Answer(f, r) ==
  /\ fstate[f] = r
  /\ HasRequest(f, "ctrl")
  /\ Head(to["ctrl"][f]).type = r
  /\ Take(f, "ctrl")
  /\ Respond(f, "ctrl", r, "NONE", Head(to["ctrl"][f]).number)
  /\ Enter(f, NextRound(r), "await")
  /\ UNCHANGED <<connected, orchVars, envVars>>

CreateTopology(f) == Answer(f, "TOPOLOGY") /\ UNCHANGED thread

StartMixnetServer(f) == Answer(f, "START_MIXNET_SERVER") /\ UNCHANGED thread

ResolveConnections(f) == Answer(f, "RESOLVE_MIXNET_CONNS") /\ UNCHANGED thread

\* START_TESTCASE leads to RUN_TESTCASE, whose first act is to launch the threads.
StartTestcase(f) ==
  /\ Answer(f, "START_TESTCASE")
  /\ thread' = [thread EXCEPT ![f] = "running"]

\* Mutant: a fragment accepts its neighbours before it connects to them.
ConnectMixnetLater(f) ==
  /\ fstate[f] = "START_MIXNET_CLIENTS" /\ fstep[f] = "await"
  /\ HasRequest(f, "ctrl")
  /\ Head(to["ctrl"][f]).type = "START_MIXNET_CLIENTS"
  /\ \A g \in Neighbor[f] : ~Gone(g)
  /\ Enter(f, "START_MIXNET_CLIENTS", "accept")
  /\ UNCHANGED <<thread, connected, to, from, orchVars, envVars>>

\* START_MIXNET_CLIENTS: connect to the servers of all neighbours ...
ConnectMixnet(f) ==
  /\ fstate[f] = "START_MIXNET_CLIENTS" /\ fstep[f] = "await"
  /\ HasRequest(f, "ctrl")
  /\ Head(to["ctrl"][f]).type = "START_MIXNET_CLIENTS"
  /\ \A g \in Neighbor[f] : ~Gone(g)
  /\ connected' = [connected EXCEPT ![f] = TRUE]
  /\ Enter(f, "START_MIXNET_CLIENTS", "accept")
  /\ UNCHANGED <<thread, to, from, orchVars, envVars>>

\* ... then wait until all neighbours have connected, and answer.
AcceptMixnet(f) ==
  /\ Running(f)
  /\ fstate[f] = "START_MIXNET_CLIENTS" /\ fstep[f] = "accept"
  /\ \A g \in Neighbor[f] : connected[g]
  /\ Take(f, "ctrl")
  /\ Respond(f, "ctrl", "START_MIXNET_CLIENTS", "NONE", Head(to["ctrl"][f]).number)
  /\ Enter(f, "RESOLVE_MIXNET_CONNS", "await")
  /\ UNCHANGED <<thread, connected, orchVars, envVars>>

\* f waits for nothing that is not there already.
Able(f) ==
  /\ Running(f)
  /\ CASE fstep[f] = "connect"   -> TRUE
       [] fstep[f] = "await"     -> to["ctrl"][f] # <<>>
       [] fstep[f] = "handshake" -> to["pcap"][f] # <<>>
       [] fstep[f] = "accept"    -> \A g \in Neighbor[f] : connected[g]

\* f waits for its neighbours, and those that have not connected are about to: two
\* fragments that wait for each other are not.
Accepting(f) ==
  /\ Running(f) /\ fstep[f] = "accept"
  /\ \A g \in Neighbor[f] : connected[g] \/ Able(g)

\* A timeout passes; early tells whether what it waited for was still coming.
Premature(early) == late' = (late \/ early) /\ UNCHANGED <<autotest, faults_left>>

\* A neighbour that will never connect, or is too slow: SOCKET_ACCEPT_TIMEOUT
\* or SOCKET_CONNECT_FAILED.
ConnectTimeout(f) ==
  /\ Running(f)
  /\ fstate[f] = "START_MIXNET_CLIENTS"
  /\ HasRequest(f, "ctrl")
  /\ \/ fstep[f] = "await" /\ \E g \in Neighbor[f] : Gone(g)
     \/ fstep[f] = "accept" /\ \E g \in Neighbor[f] : ~connected[g]
  /\ Premature(Accepting(f))
  /\ Die(f)
  /\ UNCHANGED <<to, from, orchVars>>

\* RUN_TESTCASE: a request of the test case.  A failing task is reported in
\* the response and the loop goes on; a thread found to have exited ends it,
\* but only after the response.
AnswerOp(f, err) ==
  /\ fstate[f] = "RUN_TESTCASE"
  /\ HasRequest(f, "ctrl")
  /\ Head(to["ctrl"][f]).type = "OP"
  /\ Take(f, "ctrl")
  /\ Respond(f, "ctrl", "OP", err, Head(to["ctrl"][f]).number)
  /\ IF thread[f] = "exited" THEN Die(f) ELSE UNCHANGED fragVars
  /\ err # "NONE" => faults_left > 0
  /\ faults_left' = IF err = "NONE" THEN faults_left ELSE faults_left - 1
  /\ UNCHANGED <<autotest, late, orchVars>>

\* Mutant: the answer does not depend on what has become of the threads.
EndTestcaseRegardless(f) ==
  /\ fstate[f] = "RUN_TESTCASE"
  /\ HasRequest(f, "ctrl")
  /\ Head(to["ctrl"][f]).type = "END_TESTCASE"
  /\ Take(f, "ctrl")
  /\ Respond(f, "ctrl", "END_TESTCASE", "NONE", Head(to["ctrl"][f]).number)
  /\ Enter(f, "SHUTDOWN", "await")
  /\ thread' = [thread EXCEPT ![f] = IF @ = "running" THEN "joined" ELSE @]
  /\ UNCHANGED <<connected, orchVars, envVars>>

\* RUN_TESTCASE: task_end_testcase.  Only a fragment whose threads have ended
\* answers; one that had ended before the request came is not told apart.
EndTestcase(f) ==
  /\ fstate[f] = "RUN_TESTCASE"
  /\ HasRequest(f, "ctrl")
  /\ Head(to["ctrl"][f]).type = "END_TESTCASE"
  /\ Take(f, "ctrl")
  /\ IF thread[f] = "hung"
       THEN Die(f) /\ UNCHANGED from
       ELSE /\ Respond(f, "ctrl", "END_TESTCASE", "NONE", Head(to["ctrl"][f]).number)
            /\ Enter(f, "SHUTDOWN", "await")
            /\ thread' = [thread EXCEPT ![f] = IF @ = "running" THEN "joined" ELSE @]
            /\ UNCHANGED connected
  /\ UNCHANGED <<orchVars, envVars>>

\* SHUTDOWN: answer, and exit.
Shutdown(f) ==
  /\ fstate[f] = "SHUTDOWN"
  /\ HasRequest(f, "ctrl")
  /\ Head(to["ctrl"][f]).type = "SHUTDOWN"
  /\ Take(f, "ctrl")
  /\ Respond(f, "ctrl", "SHUTDOWN", "NONE", Head(to["ctrl"][f]).number)
  /\ fstate' = [fstate EXCEPT ![f] = "DONE"]
  /\ life' = [life EXCEPT ![f] = "exited"]
  /\ UNCHANGED <<fstep, thread, connected, orchVars, envVars>>

Expected(f) ==
  IF fstate[f] = "RUN_TESTCASE" THEN {"OP", "END_TESTCASE"} ELSE {fstate[f]}

\* check_header: a request of another round, e.g. SHUTDOWN in the middle of the
\* set-up, is an error.
RejectRequest(f) ==
  /\ HasRequest(f, "ctrl")
  /\ fstep[f] = "await"
  /\ Head(to["ctrl"][f]).type \notin Expected(f)
  /\ Take(f, "ctrl")
  /\ Die(f)
  /\ UNCHANGED <<from, orchVars, envVars>>

\* Mutant: a closed connection is read again.
LoseOrchestratorRetries(f) ==
  /\ Running(f) /\ Closed
  /\ to["ctrl"][f] = <<>>
  /\ UNCHANGED vars

\* The connection the fragment reads from is closed: CTRL_CONNECTION_BROKEN.
LoseOrchestrator(f) ==
  /\ Running(f) /\ Closed
  /\ \/ fstep[f] = "connect"
     \/ to[IF fstep[f] = "handshake" THEN "pcap" ELSE "ctrl"][f] = <<>>
  /\ Die(f)
  /\ UNCHANGED <<to, from, orchVars, envVars>>

FragmentStep(f) ==
  \/ ConnectCtrl(f)
  \/ CompleteCtrl(f)
  \/ AnswerPcap(f)
  \/ ConnectPcap(f)
  \/ CompletePcap(f)
  \/ CreateTopology(f)
  \/ StartMixnetServer(f)
  \/ ResolveConnections(f)
  \/ StartTestcase(f)
  \/ ConnectMixnet(f)
  \/ AcceptMixnet(f)
  \/ ConnectTimeout(f)
  \/ AnswerOp(f, "NONE")
  \/ EndTestcase(f)
  \/ Shutdown(f)
  \/ RejectRequest(f)
  \/ LoseOrchestrator(f)

-----------------------------------------------------------------------------
(* What may go wrong in a fragment *)

Fault ==
  /\ faults_left > 0
  /\ faults_left' = faults_left - 1
  /\ UNCHANGED <<autotest, late>>

\* A step of the set-up fails (socket, connect, server_setup, thread).
FailStep(f) ==
  /\ Fault
  /\ Running(f)
  /\ fstate[f] \notin {"RUN_TESTCASE", "SHUTDOWN", "DONE"}
  /\ Die(f)
  /\ UNCHANGED <<to, from, orchVars>>

\* The process dies: node.c calls exit(1) when malloc fails.
Crash(f) ==
  /\ Fault
  /\ life[f] \in {"running", "spinning"}
  /\ life' = [life EXCEPT ![f] = "exited"]
  /\ UNCHANGED <<fstate, fstep, thread, connected, to, from, orchVars>>

\* exit_exception ends the node thread: the pcap queue is full.
ThreadExits(f) ==
  /\ Fault
  /\ Running(f) /\ thread[f] = "running"
  /\ thread' = [thread EXCEPT ![f] = "exited"]
  /\ UNCHANGED <<fstate, fstep, life, connected, to, from, orchVars>>

\* The sockets to a neighbour are closed: node_send or node_recv ends the thread
\* with MIXNET_CONNECTION_BROKEN.
LoseNeighbor(f) ==
  /\ Running(f) /\ thread[f] = "running"
  /\ \E g \in Neighbor[f] : Gone(g)
  /\ thread' = [thread EXCEPT ![f] = "exited"]
  /\ UNCHANGED <<fstate, fstep, life, connected, to, from, orchVars, envVars>>

\* run_node stops looking at keep_running, the pcap thread is stuck in a send,
\* or the pcap queue has no room for the sentinel: task_end_testcase will fail.
ThreadHangs(f) ==
  /\ Fault
  /\ Running(f) /\ thread[f] = "running"
  /\ thread' = [thread EXCEPT ![f] = "hung"]
  /\ UNCHANGED <<fstate, fstep, life, connected, to, from, orchVars>>

FaultStep(f) ==
  \/ FailStep(f)
  \/ Crash(f)
  \/ ThreadExits(f)
  \/ LoseNeighbor(f)
  \/ ThreadHangs(f)
  \/ AnswerOp(f, "FRAGMENT_EXCEPTION")

-----------------------------------------------------------------------------
(* The orchestrator *)

\* The sends and receives of a state, in order.
Program(s) ==
  CASE s = "SETUP_CTRL" -> <<<<"recv", "ctrl">>, <<"send", "ctrl">>>>
    [] s = "SETUP_PCAP" -> <<<<"send", "ctrl">>, <<"recv", "ctrl">>,
                             <<"recv", "pcap">>, <<"send", "pcap">>>>
    [] OTHER -> <<<<"send", "ctrl">>, <<"recv", "ctrl">>>>

InRound == state \in Round
Does(what) == InRound /\ Program(state)[step][1] = what
OnPlane == Program(state)[step][2]

\* The state machine of run().
OnSuccess(s) ==
  CASE s = "RUN_TESTCASE" -> "END_TESTCASE"
    [] s = "END_TESTCASE" -> "SHUTDOWN"
    [] s = "SHUTDOWN"     -> "RESET"
    [] OTHER              -> NextRound(s)

\* Mutants: a failed round is tried again; it is the first state; nobody is
\* killed after a failed shutdown.
OnErrorRetry(s) == s

OnErrorStartOver(s) == "INIT"

OnErrorKillNobody(s) ==
  CASE s \in {"SETUP_CTRL", "SHUTDOWN"}         -> "RESET"
    [] s \in {"START_TESTCASE", "RUN_TESTCASE"} -> "END_TESTCASE"
    [] OTHER                                    -> "SHUTDOWN"

OnError(s) ==
  CASE s = "SETUP_CTRL"                         -> "FORCEFUL_SHUTDOWN"
    [] s \in {"START_TESTCASE", "RUN_TESTCASE"} -> "END_TESTCASE"
    [] s = "SHUTDOWN"                           -> "FORCEFUL_SHUTDOWN"
    [] OTHER                                    -> "SHUTDOWN"

FirstError(e1, e2) == IF e1 = "NONE" THEN e2 ELSE e1

\* Leave the state with error e, and log the first error of the run.
FinishState(e) ==
  /\ state' = IF e = "NONE" THEN OnSuccess(state) ELSE OnError(state)
  /\ exit_code' = FirstError(exit_code, e)
  /\ step' = 1
  /\ error' = "NONE"
  /\ pending' = {}
  /\ op' = 0

\* The send or receive under way ends with error e.  DIE_ON_ERROR, except that
\* the graceful shutdown does not look at what its sends return.
FinishStep(e) ==
  IF \/ step = Len(Program(state))
     \/ e # "NONE" /\ ~(state = "SHUTDOWN" /\ step = 1)
    THEN FinishState(e)
    ELSE /\ step' = step + 1
         /\ pending' = IF Program(state)[step + 1][1] = "recv" THEN Fragment ELSE {}
         /\ error' = "NONE"
         /\ UNCHANGED <<state, exit_code, op>>

\* foreach_fragment_send: the first k fragments get the request (all of them,
\* unless the time runs out); a send to a process that is gone may fail.
SendRound(k, broken) ==
  /\ Does("send")
  /\ broken => \E f \in 1 .. k : Gone(f)
  /\ request' = request + 1
  /\ to' = [to EXCEPT ![OnPlane] = [f \in Fragment |->
               IF f <= k /\ ~Gone(f) THEN Append(@[f], Request(state, request + 1)) ELSE @[f]]]
  /\ FinishStep(IF broken THEN "CONNECTION_BROKEN" ELSE IF k < N THEN "TIMEOUT" ELSE "NONE")
  /\ Premature(k < N)
  /\ UNCHANGED <<ops_left, pids, fragVars, from>>

\* check_header
Check(m, type) ==
  IF m.type # type THEN "BAD_MESSAGE_CODE"
  ELSE IF m.err # "NONE" THEN "FRAGMENT_EXCEPTION" ELSE "NONE"

\* foreach_fragment_recv: a response from f.  In the last round it takes f off
\* the list of processes to kill.
ReceiveResponse(f) ==
  /\ Does("recv")
  /\ f \in pending
  /\ from[OnPlane][f] # <<>>
  /\ LET e == Check(Head(from[OnPlane][f]), state) IN
       /\ error' = FirstError(error, e)
       /\ pids' = IF state = "SHUTDOWN" /\ e = "NONE" THEN pids \ {f} ELSE pids
  /\ from' = [from EXCEPT ![OnPlane][f] = Tail(@)]
  /\ pending' = pending \ {f}
  /\ UNCHANGED <<state, step, exit_code, request, op, ops_left, fragVars, to, envVars>>

\* f has connected on the plane being read.
Accepted(f) ==
  CASE state = "SETUP_CTRL" -> fstate[f] # "SETUP_CTRL" \/ fstep[f] # "connect"
    [] state = "SETUP_PCAP" /\ OnPlane = "pcap" ->
         fstate[f] \notin {"SETUP_CTRL", "SETUP_PCAP"} \/ fstep[f] = "handshake"
    [] OTHER -> TRUE

\* Mutant: in the last round a closed connection counts as an acknowledgement.
ReceiveEndAccepted(f) ==
  /\ Does("recv")
  /\ f \in pending
  /\ from[OnPlane][f] = <<>>
  /\ Gone(f)
  /\ Accepted(f)
  /\ error' = IF state = "SHUTDOWN" THEN error ELSE FirstError(error, "CONNECTION_BROKEN")
  /\ pending' = pending \ {f}
  /\ UNCHANGED <<state, step, exit_code, request, op, ops_left, pids, fragVars, to, from,
                 envVars>>

\* foreach_fragment_recv: f has closed the connection.
ReceiveEnd(f) ==
  /\ Does("recv")
  /\ f \in pending
  /\ from[OnPlane][f] = <<>>
  /\ Gone(f)
  /\ Accepted(f)
  /\ error' = FirstError(error, "CONNECTION_BROKEN")
  /\ pending' = pending \ {f}
  /\ UNCHANGED <<state, step, exit_code, request, op, ops_left, pids, fragVars, to, from,
                 envVars>>

EndReceive ==
  /\ Does("recv")
  /\ pending = {}
  /\ FinishStep(error)
  /\ UNCHANGED <<request, ops_left, pids, fragVars, to, from, envVars>>

\* No answer from f is on its way: f is not running, or waits for what does not come.
Silent(f, p) == from[p][f] = <<>> /\ ~Able(f) /\ ~Accepting(f)

\* Mutant: the time left is not looked at.
ReceiveTimeoutPollAgain ==
  /\ Does("recv")
  /\ pending # {}
  /\ UNCHANGED vars

ReceiveTimeout ==
  /\ Does("recv")
  /\ pending # {}
  /\ Premature(\E f \in pending : ~Silent(f, OnPlane))
  /\ FinishStep(FirstError(error, "TIMEOUT"))
  /\ UNCHANGED <<request, ops_left, pids, fragVars, to, from>>

\* fork() fails for one fragment, and the later ones are never started.
ForkFails(k) ==
  /\ autotest
  /\ Fault
  /\ state = "SETUP_CTRL" /\ step = 1 /\ pending = Fragment
  /\ \A f \in k .. N : Running(f) /\ fstep[f] = "connect"
  /\ life' = [f \in Fragment |-> IF f >= k THEN "exited" ELSE life[f]]
  /\ pids' = 1 .. k - 1
  /\ FinishState("FORK_FAILED")
  /\ UNCHANGED <<request, ops_left, fstate, fstep, thread, connected, to, from>>

-----------------------------------------------------------------------------
(* RUN_TESTCASE: the test case's own requests, one at a time.  The test cases
   stop at the first error. *)

StartOp(f) ==
  /\ state = "RUN_TESTCASE" /\ op = 0 /\ ops_left > 0
  /\ ops_left' = ops_left - 1
  /\ request' = request + 1
  /\ op' = f
  /\ to' = IF Gone(f) THEN to
           ELSE [to EXCEPT !["ctrl"][f] = Append(@, Request("OP", request + 1))]
  /\ UNCHANGED <<state, step, pending, error, exit_code, pids, fragVars, from, envVars>>

EndOp ==
  /\ state = "RUN_TESTCASE" /\ op # 0
  /\ from["ctrl"][op] # <<>>
  /\ from' = [from EXCEPT !["ctrl"][op] = Tail(@)]
  /\ LET e == Check(Head(from["ctrl"][op]), "OP") IN
       IF e = "NONE"
         THEN op' = 0 /\ UNCHANGED <<state, step, pending, error, exit_code>>
         ELSE FinishState(e)
  /\ UNCHANGED <<request, ops_left, pids, fragVars, to, envVars>>

OpFails ==
  /\ state = "RUN_TESTCASE" /\ op # 0
  /\ \/ Gone(op) /\ from["ctrl"][op] = <<>> /\ FinishState("CONNECTION_BROKEN")
     \/ FinishState("TIMEOUT")
  /\ Premature(~Silent(op, "ctrl"))
  /\ UNCHANGED <<request, ops_left, pids, fragVars, to, from>>

EndRun ==
  /\ state = "RUN_TESTCASE" /\ op = 0
  /\ FinishState("NONE")
  /\ UNCHANGED <<request, ops_left, pids, fragVars, to, from, envVars>>

\* SIGKILL for every process that has not acknowledged its shutdown.
ForcefulShutdown ==
  /\ state = "FORCEFUL_SHUTDOWN"
  /\ life' = [f \in Fragment |-> IF f \in pids /\ ~Gone(f) THEN "killed" ELSE life[f]]
  /\ state' = "RESET"
  /\ UNCHANGED <<step, pending, error, exit_code, request, op, ops_left, pids, fstate, fstep,
                 thread, connected, to, from, envVars>>

\* destroy_sockets; then run() returns, and the process ends.
Reset ==
  /\ state = "RESET"
  /\ state' = "DONE"
  /\ UNCHANGED <<step, pending, error, exit_code, request, op, ops_left, pids, fragVars, to,
                 from, envVars>>

OrchestratorStep ==
  \/ \E k \in Fragment : \E broken \in BOOLEAN : SendRound(k, broken)
  \/ \E f \in Fragment : ReceiveResponse(f) \/ ReceiveEnd(f) \/ StartOp(f)
  \/ EndReceive
  \/ ReceiveTimeout
  \/ EndOp
  \/ OpFails
  \/ EndRun
  \/ ForcefulShutdown
  \/ Reset

Finished ==
  /\ state = "DONE"
  /\ \A f \in Fragment : Gone(f)
  /\ UNCHANGED vars

Next ==
  \/ OrchestratorStep
  \/ \E f \in Fragment : FragmentStep(f) \/ FaultStep(f)
  \/ \E k \in Fragment : ForkFails(k)
  \/ Finished

Spec == Init /\ [][Next]_vars

\* The orchestrator runs; of the fragments nothing is assumed.
OrchestratorSpec == Spec /\ WF_vars(OrchestratorStep)

-----------------------------------------------------------------------------
(* Properties *)

TypeOK ==
  /\ state \in Round \cup {"RUN_TESTCASE", "FORCEFUL_SHUTDOWN", "RESET", "DONE"}
  /\ step \in 1 .. 4
  /\ pending \subseteq Fragment
  /\ error \in Error /\ exit_code \in Error
  /\ request \in Nat /\ op \in 0 .. N /\ ops_left \in 0 .. MaxOps
  /\ pids \subseteq Fragment
  /\ fstate \in [Fragment -> Round \cup {"RUN_TESTCASE", "DONE"}]
  /\ fstep \in [Fragment -> {"connect", "await", "handshake", "accept"}]
  /\ life \in [Fragment -> {"running", "spinning", "exited", "killed"}]
  /\ thread \in [Fragment -> {"none", "running", "hung", "exited", "joined"}]
  /\ connected \in [Fragment -> BOOLEAN]
  /\ autotest \in BOOLEAN /\ late \in BOOLEAN
  /\ faults_left \in 0 .. MaxFaults

\* A response the orchestrator is about to accept answers the request it last
\* sent, although responses carry only a type and late ones stay queued: no
\* answer to a request that timed out is taken for a newer one's.
AnswersTheRequest ==
  \A f \in Fragment :
    /\ Does("recv") /\ state # "SETUP_CTRL" /\ f \in pending /\ from[OnPlane][f] # <<>> =>
         LET m == Head(from[OnPlane][f]) IN m.type = state => m.number = request
    /\ op = f /\ from["ctrl"][f] # <<>> =>
         LET m == Head(from["ctrl"][f]) IN m.type = "OP" => m.number = request

\* No node thread starts before every link of the network is connected from
\* both ends, the links far from it too: the rounds are barriers, in spite of
\* late and failing fragments.
NetworkBeforeNodes ==
  \A f, g \in Fragment : thread[f] # "none" => connected[g]

\* In a run without an error, no fragment closes its links by exiting while
\* some node thread may still send on them.
LinksOutliveNodes ==
  exit_code = "NONE" /\ error = "NONE" =>
    \A f, g \in Fragment : fstate[g] = "DONE" => thread[f] \in {"joined", "exited"}

\* run() reports success only when every fragment went through the whole
\* protocol and exited by itself.
SuccessIsReal ==
  state = "DONE" /\ exit_code = "NONE" => \A f \in Fragment : fstate[f] = "DONE"

\* When the orchestrator is done, no fragment is left spinning: each has
\* exited, was killed, or will see its connection close and then exit.
NoOrphans ==
  state = "DONE" => \A f \in Fragment :
    /\ life[f] # "spinning"
    /\ autotest => Gone(f)

\* Whatever the fragments do, run() returns: every wait has a timeout.
RunReturns == <>(state = "DONE")

\* If the fragment processes are scheduled too, in the end none is left, in
\* either mode.
AllGone ==
  (\A f \in Fragment : WF_vars(FragmentStep(f))) => <>[](\A f \in Fragment : Gone(f))

\* As long as nothing has gone wrong and no timeout was too short, no round has
\* failed, in both modes: the fragments' waits for each other resolve.  A timeout is
\* too short only if something that can go on would have led to the answer, so that
\* a round in which fragments wait for each other for ever fails with late FALSE.
NoSpuriousError ==
  ~late /\ faults_left = MaxFaults => exit_code = "NONE" /\ error = "NONE"

\* "If either of them exited prematurely, log the relevant error, then wait for
\* the orchestrator to timeout" (framework/fragment.cpp): a run in which a node
\* thread died of an error is not reported as a success.
PrematureExitReported ==
  state = "DONE" /\ exit_code = "NONE" => \A f \in Fragment : thread[f] # "exited"
=============================================================================
