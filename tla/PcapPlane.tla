----------------------------- MODULE PcapPlane -----------------------------
(***************************************************************************)
(* How the packets that nodes hand to their users come to be counted by    *)
(* the test case, while it runs and as it ends.  In a fragment             *)
(* (framework/fragment.cpp): the ctrl thread serves requests, the node     *)
(* thread mirrors packets to the pcap queue, the pcap thread sends them.   *)
(* In the orchestrator (framework/orchestrator.cpp): the main thread runs  *)
(* the test case, one request at a time, the pcap thread polls the pcap    *)
(* connections and calls testcase::pcap.                                   *)
(*                                                                         *)
(* The queues are bounded FIFOs, which is what MessageQueue is shown to    *)
(* implement.  The Mixnet between the nodes delivers a FLOOD once to every *)
(* other node, which is what Stp shows of a network that has converged.    *)
(***************************************************************************)
EXTENDS Integers, Sequences, FiniteSets

CONSTANTS
  N,            \* number of fragments; fragment IDs are 1 .. N
  Source,       \* fragments the test case sends from
  UserDepth,    \* MQ_USER_DEPTH
  PcapDepth,    \* MQ_PCAP_DEPTH
  WireDepth,    \* messages a pcap connection holds before its sender blocks
  MaxPackets,   \* bound on the calls of send_packet
  MaxChanges,   \* bound on the calls of pcap_change_subscription
  MaxCrashes    \* bound on fragment processes that die

ASSUME PcapAssumption ==
  /\ {N, UserDepth, PcapDepth, WireDepth} \subseteq Nat \ {0}
  /\ Source \subseteq 1 .. N
  /\ {MaxPackets, MaxChanges, MaxCrashes} \subseteq Nat

Fragment == 1 .. N
Packet == 1 .. MaxPackets
SENTINEL == 0   \* the NULL pointer that ends the pcap queue

VARIABLES
  main,                \* the orchestrator's main thread: "run" between two calls of the test case,
                       \* "wait" for a response, "join" the pcap thread, "end" of the test case, "done"
  callee,              \* the fragment called
  exit_code,           \* first error of the run: "NONE" or "ERROR"
  sent,                \* packets injected so far; they are numbered
  changes_left,
  want,                \* fragments_[f].is_pcap_subscribed
  pcap_thread_run,
  pcap_thread_error,
  opc,                 \* orchestrator's pcap thread: "poll", "scan", "recv" or "exited"
  watched,             \* fragments with pfds[f].fd # -1
  revents,             \* fragments the last poll reported
  at,                  \* fragment the scan has come to
  counted,             \* counted[f]: packets of f that testcase::pcap was called with
  request,             \* request[f]: the request on its way to f, or NoRequest
  response,            \* response[f]: the error code on its way back, or "pending"
  ctrl,                \* f's ctrl thread: "await", "sentinel", "sleep", "ended" or "failed"
  keep_running,        \* node_context.ts and ts_pcap, cleared together
  is_pcap_subscribed,
  mq_user, mq_pcap,
  node,                \* f's node thread: "loop", "handle" or "exited"
  packet,              \* the packet it handles: <<port, packet>>, or <<>>
  pcap,                \* f's pcap thread: "check", "read", "send", "sending" or "exited"
  hand,                \* what it has read from the queue and not sent: at most one element
  wire,                \* pcap connection from f
  net,                 \* packets on their way to f's node on the Mixnet
  crashed,             \* f's process is gone
  mirrored             \* what was ever put into f's pcap queue, a ghost

mainVars == <<main, callee, exit_code, sent, changes_left, want, pcap_thread_run>>
loopVars == <<pcap_thread_error, opc, watched, revents, at, counted>>
ctrlVars == <<ctrl, keep_running, is_pcap_subscribed>>
nodeVars == <<node, packet, net, mirrored>>
pcapVars == <<pcap, hand, wire>>
msgVars == <<request, response>>
mqVars == <<mq_user, mq_pcap>>
fragVars == <<ctrlVars, mqVars, nodeVars, pcapVars, crashed>>
orchVars == <<mainVars, loopVars>>
vars == <<orchVars, msgVars, fragVars>>

NoRequest == [type |-> "NONE", arg |-> 0]
Request(type, arg) == [type |-> type, arg |-> arg]

Init ==
  /\ main = "run" /\ callee = 1 /\ exit_code = "NONE"
  /\ sent = 0 /\ changes_left = MaxChanges
  /\ want = [f \in Fragment |-> FALSE]
  /\ pcap_thread_run = TRUE /\ pcap_thread_error = "NONE"
  /\ opc = "poll" /\ watched = Fragment /\ revents = {} /\ at = 1
  /\ counted = [f \in Fragment |-> <<>>]
  /\ request = [f \in Fragment |-> NoRequest]
  /\ response = [f \in Fragment |-> "pending"]
  /\ ctrl = [f \in Fragment |-> "await"]
  /\ keep_running = [f \in Fragment |-> TRUE]
  /\ is_pcap_subscribed = [f \in Fragment |-> FALSE]
  /\ mq_user = [f \in Fragment |-> <<>>]
  /\ mq_pcap = [f \in Fragment |-> <<>>]
  /\ node = [f \in Fragment |-> "loop"]
  /\ packet = [f \in Fragment |-> <<>>]
  /\ pcap = [f \in Fragment |-> "check"]
  /\ hand = [f \in Fragment |-> <<>>]
  /\ wire = [f \in Fragment |-> <<>>]
  /\ net = [f \in Fragment |-> {}]
  /\ crashed = [f \in Fragment |-> FALSE]
  /\ mirrored = [f \in Fragment |-> <<>>]

-----------------------------------------------------------------------------
(* The test case, in the orchestrator's main thread *)

\* fragment_request_response: send, and wait for the response.
Call(f, r) ==
  /\ main = "run"
  /\ main' = "wait" /\ callee' = f
  /\ request' = [request EXCEPT ![f] = r]
  /\ UNCHANGED <<exit_code, pcap_thread_run, response, loopVars, fragVars>>

\* The orchestrator's own flag changes before the fragment is told.  A call that
\* changes nothing returns at once.
ChangeSubscription(f, subscribe) ==
  /\ changes_left > 0
  /\ want[f] # subscribe
  /\ want' = [want EXCEPT ![f] = subscribe]
  /\ changes_left' = changes_left - 1
  /\ Call(f, Request("PCAP_SUBSCRIPTION", IF subscribe THEN 1 ELSE 0))
  /\ UNCHANGED sent

SendPacket(f) ==
  /\ sent < MaxPackets
  /\ sent' = sent + 1
  /\ Call(f, Request("SEND_PACKET", sent + 1))
  /\ UNCHANGED <<want, changes_left>>

\* testcase::run returns: the pcap thread is told to end.
LeaveRun(e) ==
  /\ main' = "join"
  /\ exit_code' = e
  /\ pcap_thread_run' = FALSE

\* No response will come: the connection is closed, or the wait times out.
Silent(f) == response[f] = "pending" /\ (crashed[f] \/ ctrl[f] = "failed")

\* The test case stops at the first error.
CallReturns ==
  /\ main = "wait"
  /\ \/ response[callee] = "NONE" /\ main' = "run" /\ UNCHANGED <<exit_code, pcap_thread_run>>
     \/ response[callee] = "FRAGMENT_EXCEPTION" /\ LeaveRun("ERROR")
     \/ Silent(callee) /\ LeaveRun("ERROR")
  /\ response' = [response EXCEPT ![callee] = "pending"]
  /\ callee' = 1
  /\ UNCHANGED <<sent, changes_left, want, loopVars, request, fragVars>>

EndRun ==
  /\ main = "run"
  /\ LeaveRun("NONE")
  /\ UNCHANGED <<callee, sent, changes_left, want, loopVars, msgVars, fragVars>>

\* Mutant: the pcap thread is told to end and not joined.
JoinDetached ==
  /\ main = "join"
  /\ main' = "end"
  /\ request' = [f \in Fragment |-> Request("END_TESTCASE", 0)]
  /\ UNCHANGED <<callee, exit_code, sent, changes_left, want, pcap_thread_run, loopVars, response,
                 fragVars>>

\* pcap_thread_.join(), then the END_TESTCASE round.
Join ==
  /\ main = "join"
  /\ opc = "exited"
  /\ main' = "end"
  /\ request' = [f \in Fragment |-> Request("END_TESTCASE", 0)]
  /\ UNCHANGED <<callee, exit_code, sent, changes_left, want, pcap_thread_run, loopVars, response,
                 fragVars>>

\* The round is over when every fragment has answered, or cannot.  Then teardown
\* looks at what was counted.
EndTestcase ==
  /\ main = "end"
  /\ \A f \in Fragment : response[f] # "pending" \/ Silent(f)
  /\ main' = "done"
  /\ exit_code' = IF \A f \in Fragment : response[f] = "NONE" THEN exit_code ELSE "ERROR"
  /\ UNCHANGED <<callee, sent, changes_left, want, pcap_thread_run, loopVars, msgVars, fragVars>>

MainStep ==
  \/ \E f \in Fragment : \E subscribe \in BOOLEAN : ChangeSubscription(f, subscribe)
  \/ \E f \in Source : SendPacket(f)
  \/ CallReturns
  \/ EndRun
  \/ Join
  \/ EndTestcase

-----------------------------------------------------------------------------
(* The orchestrator's pcap thread: pcap_thread_loop *)

\* Something to read: a message, part of one, or the end of the connection.
Readable(f) == wire[f] # <<>> \/ pcap[f] = "sending" \/ crashed[f]

Poll ==
  /\ opc = "poll"
  /\ pcap_thread_run
  /\ opc' = "scan"
  /\ revents' = {f \in watched : Readable(f)}
  /\ UNCHANGED <<pcap_thread_error, watched, at, counted, mainVars, msgVars, fragVars>>

\* The loop is left: the thread ends, and its poll set with it.
LoopEnds(e) ==
  /\ opc' = "exited"
  /\ pcap_thread_error' = e
  /\ watched' = {} /\ revents' = {} /\ at' = 1
  /\ UNCHANGED <<counted, mainVars, msgVars, fragVars>>

LeaveLoop ==
  /\ opc = "poll"
  /\ ~pcap_thread_run
  /\ LoopEnds("NONE")

\* poll fails.  Should what the poll before it reported still stand, a receive may
\* follow that clears the error; that is as if this poll had reported the same.
PollFails ==
  /\ opc = "poll"
  /\ pcap_thread_run
  /\ LoopEnds("POLL_ERROR")

\* The scan goes on with the next fragment, or ends.
ScanNext ==
  IF at = N THEN opc' = "poll" /\ at' = 1 /\ revents' = {}
            ELSE opc' = "scan" /\ at' = at + 1 /\ UNCHANGED revents

\* Mutant: a connection that was ignored once is not polled again.
ScanForgets ==
  /\ opc = "scan"
  /\ watched' = IF want[at] THEN watched ELSE watched \ {at}
  /\ IF at \in revents /\ want[at] THEN opc' = "recv" /\ UNCHANGED <<at, revents>> ELSE ScanNext
  /\ UNCHANGED <<pcap_thread_error, counted, mainVars, msgVars, fragVars>>

\* The subscription is read once per fragment and poll: it decides whether to
\* receive now, and whether to poll the connection the next time.
Scan ==
  /\ opc = "scan"
  /\ watched' = IF want[at] THEN watched \cup {at} ELSE watched \ {at}
  /\ IF at \in revents /\ want[at] THEN opc' = "recv" /\ UNCHANGED <<at, revents>> ELSE ScanNext
  /\ UNCHANGED <<pcap_thread_error, counted, mainVars, msgVars, fragVars>>

\* One message per fragment and poll; the callback runs in this thread.  It is
\* well-formed, and of the right type and size: so the fragment has sent it, whole.
Receive ==
  /\ opc = "recv"
  /\ wire[at] # <<>>
  /\ counted' = [counted EXCEPT ![at] = Append(@, Head(wire[at]))]
  /\ wire' = [wire EXCEPT ![at] = Tail(@)]
  /\ ScanNext
  /\ UNCHANGED <<pcap_thread_error, watched, mainVars, msgVars, ctrlVars, mqVars, nodeVars, pcap,
                 hand, crashed>>

\* Mutant: a message that is not complete in time is taken for a broken connection.
ReceiveZeroBroken ==
  /\ opc = "recv"
  /\ wire[at] = <<>> /\ pcap[at] = "sending"
  /\ LoopEnds("PCAP_CONNECTION_BROKEN")

\* The rest of the message is not there when the time is up, and nothing has been
\* consumed: RECV_ZERO_PENDING is cleared.  A message that has come only just, too late
\* to be looked at, is as good as one that comes after the receive.
ReceiveZero ==
  /\ opc = "recv"
  /\ wire[at] = <<>> /\ pcap[at] = "sending"
  /\ ScanNext
  /\ UNCHANGED <<pcap_thread_error, watched, counted, mainVars, msgVars, fragVars>>

\* The whole message is there, and the time is up between the look at it and the
\* read: RECV_WAIT_TIMEOUT ends the loop for all fragments, and the message is not
\* read any more.
ReceiveLate ==
  /\ opc = "recv"
  /\ wire[at] # <<>>
  /\ LoopEnds("RECV_WAIT_TIMEOUT")

\* PCAP_CONNECTION_BROKEN ends the loop for all fragments.
ReceiveBroken ==
  /\ opc = "recv"
  /\ wire[at] = <<>> /\ pcap[at] # "sending" /\ crashed[at]
  /\ LoopEnds("PCAP_CONNECTION_BROKEN")

LoopStep ==
  \/ Poll
  \/ PollFails
  \/ LeaveLoop
  \/ Scan
  \/ Receive
  \/ ReceiveZero
  \/ ReceiveLate
  \/ ReceiveBroken

-----------------------------------------------------------------------------
(* A fragment's ctrl thread: run_state_run_testcase *)

\* After a request other than END_TESTCASE: a helper thread that has exited ends
\* the fragment, once the response is sent.
CheckThreads(f) ==
  ctrl' = [ctrl EXCEPT ![f] = IF node[f] = "exited" \/ pcap[f] = "exited" THEN "failed" ELSE @]

Serve(f, type) ==
  /\ ~crashed[f]
  /\ ctrl[f] = "await"
  /\ request[f].type = type
  /\ request' = [request EXCEPT ![f] = NoRequest]

Respond(f, err) == response' = [response EXCEPT ![f] = err]

UpdateSubscription(f) ==
  /\ Serve(f, "PCAP_SUBSCRIPTION")
  /\ is_pcap_subscribed' = [is_pcap_subscribed EXCEPT ![f] = (request[f].arg = 1)]
  /\ Respond(f, "NONE")
  /\ CheckThreads(f)
  /\ UNCHANGED <<orchVars, keep_running, mqVars, nodeVars, pcapVars, crashed>>

\* task_send_packet: a full queue is reported, and the fragment goes on.
InjectPacket(f) ==
  /\ Serve(f, "SEND_PACKET")
  /\ IF Len(mq_user[f]) < UserDepth
       THEN /\ mq_user' = [mq_user EXCEPT ![f] = Append(@, request[f].arg)]
            /\ Respond(f, "NONE")
       ELSE Respond(f, "FRAGMENT_EXCEPTION") /\ UNCHANGED mq_user
  /\ CheckThreads(f)
  /\ UNCHANGED <<orchVars, keep_running, is_pcap_subscribed, mq_pcap, nodeVars, pcapVars, crashed>>

\* task_end_testcase: both threads are told to end ...
StopThreads(f) ==
  /\ Serve(f, "END_TESTCASE")
  /\ keep_running' = [keep_running EXCEPT ![f] = FALSE]
  /\ ctrl' = [ctrl EXCEPT ![f] = "sentinel"]
  /\ UNCHANGED <<orchVars, response, is_pcap_subscribed, mqVars, nodeVars, pcapVars, crashed>>

\* Mutant: the flag is relied on, no sentinel is written.
WriteNoSentinel(f) ==
  /\ ~crashed[f]
  /\ ctrl[f] = "sentinel"
  /\ ctrl' = [ctrl EXCEPT ![f] = "sleep"]
  /\ UNCHANGED <<orchVars, msgVars, keep_running, is_pcap_subscribed, mqVars, nodeVars, pcapVars,
                 crashed>>

\* ... the pcap thread, which may sleep in a read, by a sentinel in its queue ...
WriteSentinel(f) ==
  /\ ~crashed[f]
  /\ ctrl[f] = "sentinel"
  /\ IF Len(mq_pcap[f]) < PcapDepth
       THEN /\ mq_pcap' = [mq_pcap EXCEPT ![f] = Append(@, SENTINEL)]
            /\ mirrored' = [mirrored EXCEPT ![f] = Append(@, SENTINEL)]
            /\ ctrl' = [ctrl EXCEPT ![f] = "sleep"]
       ELSE ctrl' = [ctrl EXCEPT ![f] = "failed"] /\ UNCHANGED <<mq_pcap, mirrored>>
  /\ UNCHANGED <<orchVars, msgVars, keep_running, is_pcap_subscribed, mq_user, node, packet, net,
                 pcapVars, crashed>>

\* The pcap thread is in a blocking send and nobody reads the connection.
Stuck(f) == pcap[f] \in {"send", "sending"} /\ Len(wire[f]) >= WireDepth

\* ... and a second later both have ended, or the fragment does not answer.  A
\* second is long: a thread that can take a step has taken it.
JoinThreads(f) ==
  /\ ~crashed[f]
  /\ ctrl[f] = "sleep"
  /\ node[f] = "exited"
  /\ \/ pcap[f] = "exited" /\ Respond(f, "NONE") /\ ctrl' = [ctrl EXCEPT ![f] = "ended"]
     \/ Stuck(f) /\ ctrl' = [ctrl EXCEPT ![f] = "failed"] /\ UNCHANGED response
  /\ UNCHANGED <<orchVars, request, keep_running, is_pcap_subscribed, mqVars, nodeVars, pcapVars,
                 crashed>>

CtrlStep(f) ==
  \/ UpdateSubscription(f)
  \/ InjectPacket(f)
  \/ StopThreads(f)
  \/ WriteSentinel(f)
  \/ JoinThreads(f)

-----------------------------------------------------------------------------
(* A fragment's node thread.  An iteration of run_node looks at keep_running,
   receives at most one packet, and handles it. *)

NodeReceive(f) ==
  /\ ~crashed[f]
  /\ node[f] = "loop" /\ keep_running[f]
  /\ \/ /\ mq_user[f] # <<>>
        /\ packet' = [packet EXCEPT ![f] = <<"user", Head(mq_user[f])>>]
        /\ mq_user' = [mq_user EXCEPT ![f] = Tail(@)]
        /\ UNCHANGED net
     \/ \E p \in net[f] :
          /\ packet' = [packet EXCEPT ![f] = <<"link", p>>]
          /\ net' = [net EXCEPT ![f] = @ \ {p}]
          /\ UNCHANGED mq_user
  /\ node' = [node EXCEPT ![f] = "handle"]
  /\ UNCHANGED <<orchVars, msgVars, ctrlVars, mq_pcap, mirrored, pcapVars, crashed>>

NodeHandled(f, next) ==
  /\ node' = [node EXCEPT ![f] = next]
  /\ packet' = [packet EXCEPT ![f] = <<>>]

\* A FLOOD of the user goes to the network: every other node receives it once.
ForwardFlood(f) ==
  /\ ~crashed[f]
  /\ node[f] = "handle" /\ packet[f][1] = "user"
  /\ net' = [g \in Fragment |-> IF g = f THEN net[g] ELSE net[g] \cup {packet[f][2]}]
  /\ NodeHandled(f, "loop")
  /\ UNCHANGED <<orchVars, msgVars, ctrlVars, mqVars, mirrored, pcapVars, crashed>>

\* node_send to the user port: mirrored if the orchestrator is subscribed; the
\* node thread dies if the queue is full (FRAGMENT_PCAP_MQ_FULL).
DeliverFlood(f) ==
  /\ ~crashed[f]
  /\ node[f] = "handle" /\ packet[f][1] = "link"
  /\ IF ~is_pcap_subscribed[f]
       THEN NodeHandled(f, "loop") /\ UNCHANGED <<mq_pcap, mirrored>>
       ELSE IF Len(mq_pcap[f]) = PcapDepth
       THEN NodeHandled(f, "exited") /\ UNCHANGED <<mq_pcap, mirrored>>
       ELSE /\ NodeHandled(f, "loop")
            /\ mq_pcap' = [mq_pcap EXCEPT ![f] = Append(@, packet[f][2])]
            /\ mirrored' = [mirrored EXCEPT ![f] = Append(@, packet[f][2])]
  /\ UNCHANGED <<orchVars, msgVars, ctrlVars, mq_user, net, pcapVars, crashed>>

NodeExit(f) ==
  /\ ~crashed[f]
  /\ node[f] = "loop" /\ ~keep_running[f]
  /\ node' = [node EXCEPT ![f] = "exited"]
  /\ UNCHANGED <<orchVars, msgVars, ctrlVars, mqVars, packet, net, mirrored, pcapVars, crashed>>

NodeStep(f) == NodeReceive(f) \/ ForwardFlood(f) \/ DeliverFlood(f) \/ NodeExit(f)

-----------------------------------------------------------------------------
(* A fragment's pcap thread: worker_pcap *)

PcapGoto(f, there) == pcap' = [pcap EXCEPT ![f] = there]

PcapCheck(f) ==
  /\ ~crashed[f]
  /\ pcap[f] = "check"
  /\ PcapGoto(f, IF keep_running[f] THEN "read" ELSE "exited")
  /\ UNCHANGED <<orchVars, msgVars, ctrlVars, mqVars, nodeVars, hand, wire, crashed>>

\* Mutant: what is read after the end of the test case is dropped.
PcapReadDrops(f) ==
  /\ ~crashed[f]
  /\ pcap[f] = "read"
  /\ mq_pcap[f] # <<>>
  /\ mq_pcap' = [mq_pcap EXCEPT ![f] = Tail(@)]
  /\ IF Head(mq_pcap[f]) = SENTINEL \/ ~keep_running[f]
       THEN PcapGoto(f, "exited") /\ UNCHANGED hand
       ELSE PcapGoto(f, "send") /\ hand' = [hand EXCEPT ![f] = <<Head(mq_pcap[f])>>]
  /\ UNCHANGED <<orchVars, msgVars, ctrlVars, mq_user, nodeVars, wire, crashed>>

\* The blocking read; the block is freed before the packet is sent.
PcapRead(f) ==
  /\ ~crashed[f]
  /\ pcap[f] = "read"
  /\ mq_pcap[f] # <<>>
  /\ mq_pcap' = [mq_pcap EXCEPT ![f] = Tail(@)]
  /\ hand' = [hand EXCEPT ![f] = <<Head(mq_pcap[f])>>]
  /\ PcapGoto(f, IF Head(mq_pcap[f]) = SENTINEL THEN "exited" ELSE "send")
  /\ UNCHANGED <<orchVars, msgVars, ctrlVars, mq_user, nodeVars, wire, crashed>>

\* The blocking send: a part of the message may be there before the rest.
PcapSendPart(f) ==
  /\ ~crashed[f]
  /\ pcap[f] = "send"
  /\ Len(wire[f]) < WireDepth
  /\ PcapGoto(f, "sending")
  /\ UNCHANGED <<orchVars, msgVars, ctrlVars, mqVars, nodeVars, hand, wire, crashed>>

PcapSend(f) ==
  /\ ~crashed[f]
  /\ pcap[f] \in {"send", "sending"}
  /\ Len(wire[f]) < WireDepth
  /\ wire' = [wire EXCEPT ![f] = @ \o hand[f]]
  /\ hand' = [hand EXCEPT ![f] = <<>>]
  /\ PcapGoto(f, "check")
  /\ UNCHANGED <<orchVars, msgVars, ctrlVars, mqVars, nodeVars, crashed>>

PcapStep(f) == PcapCheck(f) \/ PcapRead(f) \/ PcapSendPart(f) \/ PcapSend(f)

-----------------------------------------------------------------------------
\* A fragment process dies (exit(1) in node.c): its sockets are closed, what is
\* on the wire can still be read.
Crash(f) ==
  /\ ~crashed[f]
  /\ Cardinality({g \in Fragment : crashed[g]}) < MaxCrashes
  /\ main # "done"
  /\ crashed' = [crashed EXCEPT ![f] = TRUE]
  /\ UNCHANGED <<orchVars, msgVars, ctrlVars, mqVars, nodeVars, pcapVars>>

FragmentStep(f) == CtrlStep(f) \/ NodeStep(f) \/ PcapStep(f)

\* The run is over, and no thread has anything left to do.
Finished ==
  /\ main = "done"
  /\ UNCHANGED vars

Next ==
  \/ MainStep
  \/ LoopStep
  \/ \E f \in Fragment : FragmentStep(f) \/ Crash(f)
  \/ Finished

Spec == Init /\ [][Next]_vars

\* The threads that count are scheduled; a test case need not make any call.  The
\* fragments' threads take finitely many steps, so that it is enough that some of
\* those that can run do.
FairSpec == Spec /\ WF_vars(LoopStep) /\ WF_vars(\E f \in Fragment : FragmentStep(f))

-----------------------------------------------------------------------------
(* Properties *)

\* From the node to the test case no packet is lost, repeated or overtaken, at the
\* end of the test case, around the sentinel and in a crash too: what the test
\* case counted, the wire, the pcap thread's hand and the queue are together what
\* was put into the queue.
NothingLost ==
  \A f \in Fragment : counted[f] \o wire[f] \o hand[f] \o mq_pcap[f] = mirrored[f]

\* When the ctrl thread waits for the pcap thread to end, that thread is not asleep
\* at an empty queue: neither the order in which it looks at keep_running and the
\* queue, nor packets mirrored before and after the sentinel, keep the end of the
\* test case from it.
EndReachesReader ==
  \A f \in Fragment :
    ctrl[f] = "sleep" /\ pcap[f] = "read" => mq_pcap[f] # <<>>

\* The error of the orchestrator's pcap thread is never read (pcap_thread_error_).
\* Still, a run in which a broken connection ended that thread is no success, as
\* the fragment at the other end is missed on the ctrl plane too.  Of the thread's
\* other errors, a receive whose time is up and a failed poll, nobody learns.
BrokenPcapSurfaces ==
  main = "done" /\ pcap_thread_error = "PCAP_CONNECTION_BROKEN" => exit_code # "NONE"

\* testcase::pcap is not called any more once the test case has been told to end:
\* teardown, which reads the count without a lock, finds it final.
CountSettles == [][(main = "end" \/ main = "done") => counted' = counted]_vars

\* Errors that end the loop with no fragment at fault.
SilentError == {"RECV_WAIT_TIMEOUT", "POLL_ERROR"}

\* Nothing disturbs the counting of g's packets.
Steady(g) ==
  /\ main \in {"run", "wait"}
  /\ pcap_thread_error \notin SilentError
  /\ want[g] /\ is_pcap_subscribed[g]
  /\ \A f \in Fragment : ~crashed[f] /\ node[f] # "exited"

\* f's node has accepted packet p.
Accepted(p, f) == \E i \in DOMAIN mq_user[f] : mq_user[f][i] = p

\* A FLOOD accepted while g is subscribed is counted for g in the end, through
\* three queues and five threads, unless the test case ends, unsubscribes, a
\* process dies, the pcap queue overflows, or the orchestrator's pcap thread has
\* left its loop on an error that is not of the fragments' making.  A message that
\* is merely incomplete does not make it leave.
FloodsCounted ==
  \A p \in Packet : \A f \in Source : \A g \in Fragment \ {f} :
    Accepted(p, f) /\ Steady(g) ~>
      (\E i \in DOMAIN counted[g] : counted[g][i] = p) \/ ~Steady(g)
=============================================================================
