# Mixnet and its test framework in TLA+

The repository is a course project: a Mixnet node (`mixnet/node.c`, a spanning-tree
protocol with re-election and FLOOD forwarding) and the framework that runs it
(`framework/`). An orchestrator process starts one fragment process per node, builds
the network, runs a test case that breaks links and sends packets, and takes everything
down again.

Line numbers of every definition are in `PROJECT.json` under `map`; what is hard to test
is listed there under `hazards`.

## 1. Inventory

| component | state | operations | talks to |
|---|---|---|---|
| Mixnet node (`mixnet/node.c`, `packet_init.c`) | `root_addr`, `path_len`, `next_hop`; per port `neighbors_addy`, `neighbors_blocked`; two timers | the loop of `run_node`: hello, re-election, one packet; `receive_STP`, `send_STP`, `send_FLOOD` | the fragment's `node_send` / `node_recv` |
| Links (`fragment.cpp`: `node_context`, `task_update_link_state`) | one socket per direction, `link_states`, `port_mutexes`, round-robin index | `node_send`, `node_recv`, enable, disable and drain | node thread and ctrl thread of a fragment |
| Fragment (`fragment.cpp`: `run`) | `state_`, ctrl and pcap sockets, node context, thread states | one method per state, `task_*` | orchestrator (requests, responses), neighbours' servers |
| Fragment's helper threads | `keep_running`, `exited`, `exit_code`, `mq_user`, `mq_pcap` | `worker_node`, `worker_pcap`, sentinel at the end | ctrl thread, orchestrator's pcap thread |
| Orchestrator (`orchestrator.cpp`: `run`) | `state_`, `fragments_` (pid, sockets, subscription), first error | one method per state; `foreach_fragment_send/recv` | all fragments; the test case |
| Orchestrator's pcap thread | poll set, `pcap_thread_run_`, `pcap_thread_error_` | `pcap_thread_loop` | fragments' pcap threads; `testcase::pcap` |
| Test API | - | `change_link_state`, `send_packet`, `pcap_change_subscription` | fragments, one request at a time |
| Networking (`networking.cpp`) | bytes of the message under way | `server_*`, `connect_with_timeout`, `send_generic`, `recv_generic` | sockets |
| Message codec (`message.cpp`) | header and payload layout | `prepare`, `finalize`, accessors | both processes |
| Message queue (`external/itc`) | lock-free ring, `blocked_readers` | alloc, write, tryread, read, free | threads of a fragment |
| Topologies, test cases (`testing/`) | graph, expected vectors, counters | `generate_topology`, `run`, `pcap` | test API |

What is hard about it:

* *Election*: nodes act on vectors that may be old. The first packet on a port is only
  used to learn who is there; adopting a parent blocks every other port; a re-election
  resets the vector but no flag and no neighbour; hellos exist only because every node
  passes its parent's on; adopting a parent does not restart the re-election timer.
* *Links*: a link changes at one end before the other, a disabled port is drained once
  and then fills up again, and what it holds is delivered when the link comes back.
* *Rounds*: requests and responses carry a type but no number, every receive has a
  timeout, late answers stay in the socket, fragments wait for each other while the
  orchestrator waits for them, and after any error the run jumps to the shutdown with
  fragments anywhere in their set-up.
* *Threads*: the pcap queue is bounded, its consumer uses blocking sends, and the end of
  a test case has to get through the same queue. The orchestrator's two threads share the
  subscription flags and the test case's counters without a lock.
* *Bytes*: messages are cut out of a stream; sends and receives give up half-way and the
  connection is used again.
* *Identity*: connections are accepted in any order and matched later by pid, by ID or by
  address.

## 2. Modules

| module | models | extends |
|---|---|---|
| `Stp` | node, links, link switch, the test case as a driver | - |
| `MCStp` | `Line3`, `Ring3`, `Ring4`, hop distances | `Stp` |
| `StpProofs` | theorems about `Stp` | `Stp`, `TLAPS` |
| `Orchestration` | orchestrator and fragment state machines, rounds, errors, timeouts | - |
| `MCOrchestration` | `Pair`, `Line3` | `Orchestration` |
| `OrchestrationProofs` | theorems about `Orchestration` | `Orchestration`, `TLAPS` |
| `BarrierProofs` | the rounds as barriers, no spurious error | `OrchestrationProofs` |
| `BoundedFifo` | what the message queue promises | - |
| `MessageQueue` | the lock-free queue, one step per memory access | instantiates `BoundedFifo` |
| `MCMessageQueue` | the two threads that write to the pcap queue | `MessageQueue` |
| `QueueProofs` | theorems about `MessageQueue`, the refinement of `BoundedFifo` among them | `MessageQueue`, `TLAPS` |
| `PcapPlane` | a fragment's three threads, its two queues, the pcap connection, the orchestrator's main and pcap threads | builds on what `BoundedFifo` and `Stp` promise |
| `PcapProofs` | theorems about `PcapPlane` | `PcapPlane`, `TLAPS` |
| `MessageChannel` | what `send_generic` and `recv_generic` promise | - |
| `Framing` | the two functions on a byte stream, `finalize` and `validate` | instantiates `MessageChannel` |
| `MCFraming` | the pairs of modes the program uses | `Framing` |
| `FramingProofs` | theorems about `Framing`, the refinement of `MessageChannel` among them | `Framing`, `TLAPS` |
| `Wiring` | which process, neighbour and port is behind which connection | builds on the barriers of `Orchestration` |
| `MCWiring` | `add_edge`, `generate_topology` | `Wiring` |
| `WiringProofs` | theorems about `Wiring` | `Wiring`, `TLAPS` |
| `Links` | one node's ports over bounded sockets, node and ctrl thread, mutexes | - |
| `MCLinks` | how many packets on which link | `Links` |
| `LinksProofs` | theorems about `Links` | `Links`, `TLAPS` |

Definitions called *Mutant* in a comment are deliberately wrong variants of the
definition that follows them. No specification uses them: substituting one must make
the property named in `PROJECT.json` fail, which shows that the property can see that
kind of mistake.

### Stp

State and code correspond one to one: `root_addr`, `path_len`, `next_hop` are the fields
of `struct node`; `discovered` is the set of ports with `neighbors_addy[i] != -1`;
`neighbors_blocked` the set of blocked ports; `since_hello` and `since_match` are the
time since `heartbeat_time` and `re_election_time`, in ticks; `rx[n][m]` is the receive
socket of n's port to m; `link_states` is the framework's array. The user port is not a
queue: `InjectFlood` is the request of the test case and the node's handling of it, and
`delivered` counts what `send_FLOOD` hands to the user.

| action | code |
|---|---|
| `Hello`, `Reelect` | the two timer branches of the loop |
| `ForwardParentHello` | the branch for the parent's unchanged vector, and the `send_STP` in it |
| `DiscoverNeighbor` | `receive_STP`, first packet of a port |
| `AdoptParent` | `receive_STP`, better vector: update, send to all, block all ports but one |
| `KeepParent` | `receive_STP`, otherwise: open or block the port |
| `ForwardFlood`, `DropFlood` | the FLOOD branch, open or blocked port |
| `ChangeLinkA`, `ChangeLinkB` | `change_link_state`: one request per end, in order |
| `InjectFlood` | `send_packet` of a FLOOD |
| `Tick`, `EndChanges` | time; the point after which the test case changes no more links |

Abstractions:

* A loop iteration is split into its branches. A node's variables are its own and its
  sends only append, so nothing can come between two branches that matters to either.
* A packet read from a port just before the port is disabled is handled before the
  disabling: the two orders differ only in which of two independent steps is first.
* Links are unbounded FIFO queues: a full socket, and the sender blocked on it, are the
  subject of `Links`.
* A packet sent into a port that nobody will enable any more is forgotten, since it is
  never read.
* `path_length` is `path % 2^16` on the wire and `path_len` an `int`, but paths stop at
  `MaxPath` < 2^16, so the wrap-around itself is out of the model. Only stale vectors
  after re-elections lengthen a path; `Reelect` waits while a path could outgrow the bound.
* Node addresses are in `Node`; 65535 is `INVALID_MIXADDR` and -1 an undiscovered port.
* `Timely` says that within one tick all deliveries and loop iterations are done. It is
  the regime of the test cases (hellos every 100 ms, re-election after 1000 ms or more,
  packets within microseconds). With `Timely = FALSE`, time overtakes packets at will.

### Orchestration

`state`, `step`, `pending`, `error` are where `orchestrator::run` is: the state, which
send or receive of its method, the fragments still polled, and the error so far;
`exit_code` is the first error of the run; `pids` are the children to kill. Of a fragment
`fstate` and `fstep` say where `fragment::run` is, `life` what became of the process
(an autotest fragment that failed spins until killed), `thread` what became of its helper
threads. `to` and `from` are the two directions of the ctrl and pcap connections.
`request` numbers the requests; the code has no such number, it is there to state
`AnswersTheRequest`.

Every `run_state_*` method of both processes is an action or a short sequence of them;
`Program` lists the sends and receives of an orchestrator state, `OnSuccess` and `OnError` are
the transitions of `run`. Timeouts (`ReceiveTimeout`, `OpFails`, `ConnectTimeout`) may strike
at any moment; the ghost `late` remembers whether one struck although an answer was still
coming. Coming means (`Silent`): it is in the socket, or its fragment has before it all that it
waits for (`Able`), or waits for neighbours that are connected or able to (`Accepting`).
Fragments that wait for each other are silent, so a timeout that ends a mutual wait is an error
of a run that is not `late`. `autotest` is chosen at the start, so that every run covers both
modes. `MaxFaults` bounds failing steps, crashes, dying and hanging threads, failing tasks and
`fork` errors, each at any moment where the code can meet it.

Abstractions: payloads (addresses, topologies) are left out, a message is its type and
error code, messages are read whole (`Framing`), the helper threads are one variable
(`PcapPlane`). Test cases stop
at the first error of the API, as those in the repository do (`DIE_ON_ERROR`). After
`run()` returns the orchestrator process ends and its sockets are closed.

### MessageQueue

The variables are the fields of `struct message_queue`, the locals of the calls under way
(`wpc`, `wpos`, `wblock` of each writer, `rpc`, `rpos`, `rblock`, `raised` of the reader)
and the contents of the blocks. Every atomic add, and every plain load or store of a slot,
is an action; the spins of the code are guards. A writer is a thread that allocates, fills
and writes (`node_send`, `task_send_packet`, the sentinel of `task_end_testcase`), the reader
one that reads, uses and frees (`worker_pcap`). `node_recv` calls `message_queue_tryread`
itself, which is the first half of `message_queue_read`: its queue has one writer, and its
reader never sleeps. A failed alloc may be tried again.

Abstractions: memory is sequentially consistent (`__sync_fetch_and_add` is a full barrier
and stands before and after every plain access that another thread can see); the allocator's
semaphore is left out because nothing calls `message_queue_message_alloc_blocking`;
`max_depth` is only assumed to divide the range of the counters, which is what the rounding
to a power of two is for; the writers are finitely many threads; `sem` does not overflow.

`ImplementsFifo` is the refinement: `written` lists the messages in the order in which their
writers took a slot, `received` what the reader read from the blocks, and the abstract queue
is what is in the first and not yet in the second.

### PcapPlane

Two processes' worth of threads. In the orchestrator `main` is where the test case is
(between calls, waiting for a response, joining, ending) and `opc`, `watched`, `revents`,
`at` where `pcap_thread_loop` is; `want` is `fragments_[f].is_pcap_subscribed`, `counted` what
`testcase::pcap` was called with. In a fragment `ctrl`, `node` and `pcap` are where its three
threads are, `hand` is the packet the pcap thread has read and not yet sent, `wire` the pcap
connection. The three threads' steps interleave freely; between the check of
`keep_running`, the read from the queue and the send, anything may happen.

| actions | code |
|---|---|
| `ChangeSubscription`, `SendPacket`, `CallReturns` | the test API, one request at a time |
| `EndRun`, `Join`, `EndTestcase` | `RUN_TESTCASE` and `END_TESTCASE` of `orchestrator::run` |
| `Poll`, `Scan`, `Receive`, `ReceiveZero`, `LeaveLoop` | `pcap_thread_loop` |
| `PollFails`, `ReceiveLate`, `ReceiveBroken` | its errors: `POLL_ERROR`, `RECV_WAIT_TIMEOUT`, `PCAP_CONNECTION_BROKEN` |
| `UpdateSubscription`, `InjectPacket`, `StopThreads`, `WriteSentinel`, `JoinThreads` | `run_state_run_testcase`, `task_*` |
| `NodeReceive`, `ForwardFlood`, `DeliverFlood`, `NodeExit` | `worker_node`: user and data ports |
| `PcapCheck`, `PcapRead`, `PcapSendPart`, `PcapSend` | `worker_pcap` |
| `Crash` | the process dies, its sockets close |

Abstractions: the queues are bounded FIFOs (that is `MessageQueue`), the network delivers a
FLOOD once to every other node (that is `Stp`, once converged), messages arrive whole
or partly (that is `Framing`), and a receive finds the whole message in time (`Receive`), finds
too little (`ReceiveZero`, the loop goes on) or runs out of time between the look at the whole
message and the read (`ReceiveLate`, the loop ends). Two error paths of the loop are left out
because `worker_pcap` gives no cause for them: it sends only well-formed `PCAP_DATA` (no failing
`check_header`), with blocking sends that tear nothing, and asserts the size of the packet (no
`MIXNET_BAD_PACKET_SIZE`). A fragment that fails spins and keeps its sockets, as in
autotest mode. The second that `task_end_testcase` grants its threads is long: a thread that
can move has moved. Timeouts that strike too early are in `Orchestration`.

### Framing and MessageChannel

One direction of one connection. `stream` is what the socket holds, byte by byte; a byte is
the message and the position it came from. `StartSend`, `SendPart`, `SendTimeout` are
`send_generic`; `Call`, `PeekLength`, `PeekMessage`, `TakeBytes`, `GiveUp`, `ReadClosed`,
`RecvTimeout` the branches of `recv_generic`'s loop; `Validate` is `message::validate`. The
modes are chosen at the start among the four uses of a connection, named by the receiver
(`caller`):

| `caller` | sent | received | after a failed receive |
|---|---|---|---|
| `fragment`: requests | with a timeout | blocking | leaves |
| `main`: responses | blocking | with a timeout | goes on to another round, or is through |
| `pcap`: captured packets | blocking | with a timeout | calls again after `RECV_ZERO_PENDING`, else leaves |
| `node`: Mixnet links | blocking | with a single try | calls again after `RECV_ZERO_PENDING`, else leaves |

The last column is `Goes`. A receive may time out too early `MaxEarly` times, and whenever it
cannot go on.

`ImplementsChannel` maps this to a channel of whole messages: `sent` are the messages sent
completely, `received` what the caller got, and `torn` becomes true with the first send that
times out after its first byte. From then on nothing is promised but `CanaryRealigns`.

`message::validate` does not look for the canary where the header's length ends, but where
`compute_total_length` puts it: by the type alone, or (`Variable`) by fields of the payload.
`Fields` are the bytes that decide. If they are those of one message, that is its length and
the byte looked at is the last one read; if not, also behind a genuine header, it may be
anywhere in the buffer, where an older or a later message has its canary, and `Validate`
answers either way.

Abstractions: two bytes of length, one of type, one of payload fields, one of canary at least;
a length read in the middle of a message decodes to anything, and so does the canary's place if
the fields are mixed; a payload byte in the place of the canary is no canary. The connection
holds the longest message, without which the peeking modes could never receive it.

### Wiring

The rounds of the set-up once more, but now what they carry: `ctrl_states` and `pcap_states`
are the connections in the order of `accept`, `fd_ctrl`, `fd_pcap`, `mixnet_server_netaddr`
and `mixnet_client_netaddrs` the fields of `fragments_`, `fid`, `rx_socket_fds`, `states`
and `tx_socket_fds` what each process knows. A process is named by the order of its fork, so
in autotest mode its pid *is* its place in `fragments_`. `AcceptCtrl`, `AcceptPcap` and
`ConnectMixnet` happen in every order; the kernel picks a client address that is free
towards that server and may be in use towards another. Failures and timeouts are left to
`Orchestration`, which shows that the rounds are barriers; here a round ends when all have
had their turn. `failed` is any of the error returns of these methods.

### Links

One node with `P` neighbours. A packet is two pieces, so that it can be half there;
`written` and `consumed` count the pieces of each receive socket. `StartRecv`, `LockPort`,
`Peek`, `Take`, `RecvUser` are `node_recv` with its round robin and `_recv_once` as two steps
under the port's mutex; `StartSend`, `FinishSend` are `node_send`; `Request`, `Switch`, `Drain`
are `task_update_link_state`; the neighbours send, receive and switch their ends by the same
rules. `over` and `due` are ghosts: `over[k][j]` counts how often j was served while a packet
waited at k (and forgets it when k is served, or disabled and so drained), `due` is what a
disable has to throw away. A neighbour in `node_send` does not read, as the code's
node thread does not.

## 3. Runs

| run | instance | checks | shows |
|---|---|---|---|
| `stp_async` | `Line3`, two link changes, `Timely = FALSE` | `TypeOK`, `ParentPortOpen`, `PathNeverUndershoots`, `VectorsOnlyImprove` | vectors and ports stay sound however old packets are |
| `stp_flood` | `Ring4`, any one link fails, a FLOOD from any node | `NoSpuriousReelection`, `Converges`, `SteadyFloods`, `FloodExactlyOnce`, `FloodsDie` | the tree is reached and no node falls back on the way; then the tree of what is left; no node falls back under a FLOOD, and every reachable user sees it once |
| `stp_link_flap` | `Ring3`, two link changes | `Converges` | also when a link comes back with a backlog, and when a node is cut off |
| `stp_storm` (violation) | `Ring3` | `FloodAtMostOnce` | a FLOOD sent during the election is delivered repeatedly |
| `orch_faults` | `Pair`, both modes, 2 faults, 2 operations, late answers | `TypeOK`, `AnswersTheRequest`, `LinksOutliveNodes`, `NoOrphans`, `SuccessIsReal`, `RunReturns`, `AllGone` | no stale answer is accepted, success means that every fragment finished, no orphan is left, `run()` returns, all fragments end |
| `orch_barrier` | `Line3`, both modes, 1 fault, late answers | `NetworkBeforeNodes`, `NoSpuriousError` | the rounds are barriers; no timeout has to end a mutual wait |
| `orch_thread_exit` (violation) | `Pair`, 1 fault | `PrematureExitReported` | a thread that dies late is not reported |
| `mq_pcap` | 2 writers, depth 2, blocking reader | `TypeOK`, `OnePlacePerBlock`, `NoLostWakeup`, `ImplementsFifo`, `AllRead` | the pcap queue is a bounded FIFO, and no reader sleeps on a message |
| `pcap_plane` | 2 fragments, queues and connections of 1, 2 packets, 2 subscription changes, 1 crash | `NothingLost`, `EndReachesReader`, `BrokenPcapSurfaces`, `CountSettles`, `FloodsCounted` | what is counted is what was mirrored; the end of a test case gets through; a broken pcap connection fails the run although its error is never read |
| `framing` | 3 messages of 4 or 7 bytes, a socket of 7, all four uses | `ImplementsChannel`, `CanaryRealigns`, `Delivered`, `CloseNoticed` | whole messages in order up to the first torn one, in every mode; none is missed but by a receiver that leaves on a timeout |
| `wiring` | 3 fragments, line, star, ring and mesh, 2 addresses, both modes | `OneProcessPerFragment`, `PortsMatch` | every connection ends up where it belongs |
| `links` | 2 neighbours and a user, up to 3 packets on a link, 1 switch | `PeekHolds`, `OffMeansSilent`, `NoPortServedTwice`, `Served`, `SendReturns` | no short read, silent disabled ports, no starvation, and only two ways to block |

Deadlock is checked in all passing runs but three: in `mq_pcap` the reader sleeps for good
once everything is read (`AllRead` says that it does not sleep earlier), in `framing` the
receiver waits when nothing more is sent (`Delivered`, `CloseNoticed`), and in `links` two
nodes can block each other (`SendReturns` says when).

Bounds, and why they are enough:

* `Ring4` is the smallest graph with two equally long ways to the root, so that the
  tie-break on the parent's address, a sibling's port and a link outside the tree all
  occur; `Ring3` is the smallest cycle; `Line3` has a node whose only way is through
  another. A failed link of `Ring4` gives a line of four, a second one in `Ring3` cuts a
  node off.
* `HelloTicks = 1`, `ReelectTicks = 3`: the test cases use ratios of ten and more. Two
  ticks are not enough: a node that adopts its parent late in its interval, which
  adopting does not restart, re-elects itself before the first hello.
* `MaxPath` is at least twice the number of nodes in the convergence runs: long enough for every
  path that occurs there, so that no step is cut off.
* `MaxBacklog` bounds the packets at a disabled port *at a tick*: old vectors of several
  rounds do pile up, and come back when the link is enabled.
* Two fragments suffice for one to be late while the other answers, three for a barrier
  between fragments that are not neighbours. Two faults allow a failure during the
  handling of another.
* Depths of 1 in `pcap_plane`: every queue and connection is full as soon as it holds
  something, and two packets are enough to overflow each. One source and one receiver suffice
  for an order of packets; two subscription changes for a subscription taken back.
* Messages of 4 and 7 bytes over a socket of 7: a message fits whole, in parts, or together
  with a part of the next; three allow a torn one between two others.
* Three fragments are enough for a node with two neighbours to be connected to in both orders,
  and two addresses for one to be used towards two servers at once.
* In `links` one neighbour sends three packets and the other one, so that the first can
  overtake the second twice if the round robin lets it; the node sends two to the first over a
  socket of one, so that it blocks.
* `Wrap = 4` with a depth of 2 and four messages: the unsigned positions wrap around, every
  slot and every block is used again, `blocked_readers` goes below zero.

Fairness. `Stp`: `WF(NodeStep)` - a node thread loops for ever, and every step of a tick is
taken before the next one; `WF(Tick)` - time passes; `WF(ChangeLinkB)` - a `change_link_state`
that has begun is finished; `WF(EndChanges)` - a test case makes finitely many calls.
`Orchestration`: `RunReturns` assumes only that the orchestrator is scheduled and that its
timeouts expire, nothing of the fragments; `AllGone` assumes that fragment processes are
scheduled too. `MessageQueue`: every thread is scheduled. `PcapPlane`: the orchestrator's pcap
thread loops, and the fragments' threads run as long as one of them can; the test case need not
make any call. `Framing`: the receive loop runs, a caller that has not given up calls again
(the main thread, which may do either, is free to leave), and a send that has begun goes on
while there is room; nobody has to send. `Links`: node thread, ctrl thread and the neighbours'
sends and receives run; nobody has to send or to switch, and no thread is promised a mutex that
is free only now and then.

## 4. Proofs

### The node

`StpProofs` proves, for every graph (`Neighbor` symmetric and without loops), every timer
setting, with and without `Timely`, every number of link changes and FLOODs:

* `TypeCorrect` - `TypeOK`;
* `ParentPortAlwaysOpen` - a node following another root has discovered its parent and
  keeps the port to it open;
* `PathsNeverUndershoot` - no vector held or in flight is shorter than the distance to its
  root (`Dist` is any potential that grows by at most one per link, the hop distance in the
  runs), and every packet names the neighbour behind its port;
* `VectorsImprove` - a node's vector improves, stays, or falls back to the node itself
  after an expired interval;
* `FloodsReachEachOnce` - for `WaitConverged`, and under the two hypotheses below, a FLOOD is
  seen once by the user of every other node of its component, and by no one twice
  (`FloodExactlyOnce`).

`ParentPortOpen` is not inductive: `receive_STP` unblocks the port a packet came from and
sets `next_hop` to the address *in* the packet, so one has to know that the two agree,
which is a fact about all queues. And a bound on the nodes' paths needs the same bound on
the paths in flight, and the other way round. The invariant is therefore

    IInv == TypeOK /\ GoodQueues(rx) /\ GoodVectors /\ ParentPortOpen

with `GoodQueues`: every packet waiting at n's port to m carries m's address and a path of
at least m's potential. One lemma per action shows that it is kept, three lemmas say what
sending, reading and forgetting do to good queues, and `VectorIsGood` is where the 16 bits
of the wire enter (`MaxPath < PathModulus`).

`FloodExactlyOnce` does not hold of every behaviour of `Spec`, and the theorem says of which
it does:

    Spec /\ LinksOnlyFail /\ SteadyFloods => []FloodExactlyOnce

`LinksOnlyFail`: links are disabled, never enabled again. All calls of `change_link_state` in
the repository's test cases are of this kind. A link that comes back may bring a FLOOD with it
that was left in the socket of the disabled port, which its user has seen already by another
way. `SteadyFloods`: no node falls back to itself as root while a FLOOD is on its way. That is
a matter of elapsed time, which `Spec` without `Timely` does not bound, and `stp_flood` checks
it where deliveries are faster than ticks, after a failed link too.

The proof has two halves. The first, `LInv`, is about what the two ends of a link know of each
other at any time, elections included: they agree on whether it is enabled, but for the moment
between the two halves of `change_link_state` (`Links`); the last vector on its way is the one
its sender has (`Announced`); the first packet of an undiscovered neighbour is still to be read
(`Greeted`); and of two nodes that both follow others, with no vector between them, at least one
has set its port on the vectors both have (`Seen`). The last is what the election's goal does
not tell by itself: which ports outside the tree are blocked depends on the order in which the
vectors were read. From it `SettledIsSteady` derives `Steady`, the tree as a FLOOD needs it:
every vector on its way is known already, and no port leads to a neighbour nearer to the root
that is not the parent. Steps on such a tree are classed by their effect (`Stands`, `Hums`), and
none but `Reelect` and link changes leave it.

The second half, `FloodInv`, follows the FLOOD: either none is on its way and everybody has what
is due, or there is a set `W` of nodes it has been at (`Wave`). `W` hangs together by its nodes'
parents (`Region`), the users of the rest of the component still have to see it (`Counted`), it
is on every link of the tree that leaves `W` (`Front`), and elsewhere only at ports that are
blocked and stay so (`Underway`). A node outside `W` has one link of the tree into it only
(`OneWayIn`), so it reads the FLOOD once. When none is on its way, `W` is the whole component
(`WaveSpent`): a node outside nearest to the root would have its parent in `W`. That there is a
nearest one is the only use of well-founded induction.

### The links of a node

`LinksProofs`, from `LinksAssumption` (a receive socket holds a whole packet; any number of
neighbours, packets and changes):

* `NoShortRead` - what `_recv_once` has peeked is still there when it is read (`PeekHolds`);
* `DisabledPortsAreSilent` - between the answer to a disable and the next enable nothing is
  read from the port, and what had been sent before is gone (`OffMeansSilent`);
* `RoundRobin` - no port is served twice while a packet waits at another enabled one
  (`NoPortServedTwice`).

The first two rest on mutual exclusion: `Locks` says which thread holds which port's mutex
from its place in the code, `Switches` that the ctrl thread only ever changes a port that is
not yet as requested, `Pieces` that packets leave whole. The third needs the position of the
round: `Queueing` says that a port that has overtaken k is further ahead in the round than k,
which is why it cannot do so again. That part was false of an earlier form of the ghost `over`,
which remembered what overtook a port before it was disabled and drained.

### The pcap plane

`PcapProofs`, from `PcapAssumption` (all capacities positive; any number of fragments):

* `PcapLosesNothing` - from `node_send` to `testcase::pcap` no packet is lost, repeated or
  overtaken, whatever is subscribed to, crashes or ends (`NothingLost`);
* `SentinelReachesReader` - a pcap thread that is being awaited does not sleep
  (`EndReachesReader`);
* `BrokenPcapIsNoticed` - a run in which a broken connection ended the orchestrator's pcap
  thread is not a success, although nobody reads `pcap_thread_error_` (`BrokenPcapSurfaces`).
  It is not so of the thread's other errors (section 5);
* `TeardownSeesFinalCount` - the count `teardown` looks at is final (`CountSettles`, an action
  property).

The invariant adds `Calls` (nobody but the callee of the one call under way has a request or
an answer, until `END_TESTCASE`), `Joined`, and for the third theorem `Culprit`: that error
leaves behind a crashed fragment whose answer to `END_TESTCASE` stays pending, so the round
cannot succeed (`AllAnswered`).

### Who is who

`WiringProofs`, from `WiringAssumption` (every topology is well-formed: symmetric, no loops, no
neighbour listed twice):

* `FragmentsIdentified` - `fd_ctrl` and `fd_pcap` of a fragment lead to one process and that
  knows itself by that fragment's ID (`OneProcessPerFragment`);
* `PortsWired` - no error return is taken, and both sockets of each port lead to the right
  neighbour and to its matching port (`PortsMatch`).

`IInv` says, for each round, what a turn leaves behind (`Had(r, x)`: x has had its turn in r).
The interesting part is `Connected`: the clients' addresses at one server are distinct, which
is what lets `RESOLVE_MIXNET_CONNS` find the right connection although the addresses are not
distinct overall, and all of them have been accepted by then.

### Messages on a byte stream

`FramingProofs`, from `FramingAssumption` (messages have a length, a type and a canary, the
socket holds the longest; any number of messages, any set of uses):

* `FramingImplementsChannel` - `send_generic` and `recv_generic` implement a channel of whole
  messages, in order, up to the first torn one (`ImplementsChannel`), step by step;
* `CanaryRealignsTheStream` - a receive whose canary is found leaves the stream at the beginning
  of a message, provided that the fields the message's length follows from, header and payload,
  were those of one message (`CanaryRealigns`, an action property). A genuine header is not
  enough (section 5).

Bytes remember the message and the position they came from, so the invariant can speak of what
is unread, in the socket or already in the receiver's buffer, as one sequence (`Unread`). All its
bytes were sent (`Placed`). Within a message that was not torn positions follow each other
(`Contiguous`), and after the last byte of any message comes the first of the next (`InOrder`).
`LastByte` ties the end of the sequence to what the sender sent last, `FirstByte` its beginning to
the message the receiver is at, and `Receiving` says that a receive which may give up has taken
nothing yet; `Logged` compares what was delivered with what was sent.

### The message queue

`QueueProofs`, from `QueueAssumption` (`Depth` divides `Wrap`, finitely many writers):

* `QueueTypes` - counters, positions and blocks stay in range (`TypeOK`);
* `BlocksInOnePlace` - each block is in the free ring, in one thread's hands or in the message
  ring, and in one of them only (`OnePlacePerBlock`);
* `NoWakeupLost` - a reader does not sleep for good on a message that is counted
  (`NoLostWakeup`);
* `QueueIsFifo` - the queue implements `BoundedFifo` (`ImplementsFifo`), step by step.

The counters are read and written separately, so the invariant relates each to the threads in
between: `BlockCount` (`free_blocks` plus the threads that have lowered it, or not yet raised
it), `EntryCount` (the same of `entries`), `Wakeups` (`blocked_readers`, `sem` and the writers
about to post add up to what the reader has raised, modulo `Wrap`), `Positions` (the position
counters name the slot that the number of messages so far does), `Ring` and `FreeRing` (what
every slot of the two rings holds), `Apart` and `Somewhere` (blocks in different places differ,
and each is somewhere). That `Depth` divides `Wrap` is used exactly where a counter wraps: the
slot of a position is then that of the true count. The proof also shows that a writer with a
slot finds it empty: the spin of `message_queue_write` never spins, because a writer has a
block, and there are only as many blocks as slots.

### A test run

`OrchestrationProofs`, from `ConstantAssumption` (any number of fragments, any graph of links,
any number of requests and faults, with and without autotest mode):

* `OrchestrationTypes` - `TypeOK`;
* `AnswersAreCurrent` - an accepted answer is one to the request sent last
  (`AnswersTheRequest`), although messages carry no number;
* `NetworkIsUpFirst` - no node runs before all links are connected (`NetworkBeforeNodes`);
* `LinksAreClosedLast` - in a run without an error no fragment exits while another's node may
  still send to it (`LinksOutliveNodes`);
* `SuccessMeansDone` - success means that every fragment went through the whole protocol
  (`SuccessIsReal`);
* `NobodyIsLeft` - when `run` returns, no process is left that waits to be killed, in autotest
  mode none at all (`NoOrphans`).

The reason for the second is an order: `Rank` numbers the orchestrator's states, rounds only
move up, errors included, and each type of request belongs to one round. `Numbers` says that
no message is of a later round and that those of the present one belong to the last request;
`Ops` that of the test case's own requests, which share one state, at most one is under way.
The others follow the rounds: an answer accepted in a round (no longer `pending`) tells what
its fragment has done (`Connected`, `Ending`), and once all have answered the next round may
rely on it. `Holding` is needed because a fragment answers some requests in two steps. Fragment
actions are many, so each is first shown to have the `Effect` of a fragment's step - one
request taken or none, one answer given or none, the fields it may change - and each part of
the invariant is shown to survive any `Effect`; `LeaveKeeps` does the same for every way out
of an orchestrator state.

`BarrierProofs`, on top of these and from the same assumption:

* `RoundsAreBarriers` - `Barrier`: as long as no fault has happened and no timeout struck too
  early (`Calm`), every fragment is at one of the few places that the orchestrator's state, its
  step and that fragment's outstanding answer allow, with its process and threads running and
  the requests and answers between the two exactly those of the round (`Orderly`);
* `ErrorsAreReal` - such a run has no error (`NoSpuriousError`).

An error can only come from a fault, a timeout, a closed connection or an answer that is not
the one expected, so to exclude it one has to know every place a fragment can be at. `Due` and
`Settled` list these places for a fragment that still has to answer and for one that has, as a
fragment's state, step and two queues; a round that is complete turns the one into the other
for all fragments at once. That a fragment which waits for its neighbours does not wait for
ever, `NeighborsConnect`, comes from there too: all are in the same round, and each has
connected or has its request before it.

All theorems are about `Spec` without fairness, so they hold of every scheduling.

### Only model-checked

* Liveness: `Converges`, `FloodsDie`, `RunReturns`, `AllGone`, `AllRead`, `FloodsCounted`,
  `Delivered`, `CloseNoticed`, `Served`, `SendReturns`. It rests on fairness and `ENABLED`,
  which the prover does not treat.
* `NoSpuriousReelection` and `SteadyFloods` of `Stp`: they speak of elapsed time, that is of how
  many ticks a vector takes from the root to a node, which is a property of the whole history
  of hellos.
* `FloodExactlyOnce` is proved under `LinksOnlyFail` and `SteadyFloods` only; the first is what
  the test cases do, the second is checked by `stp_flood`.

## 5. Where code and comments disagree

1. `stp_storm`: `connection.h` says that a FLOOD that would create loops must not be sent
   to the user. A port opens with the first STP packet on it, before the tree exists; until
   the election is over a FLOOD can travel round a cycle and be handed up each time.
2. `orch_thread_exit`: `fragment.cpp` says that a helper thread that exits prematurely is
   logged and the orchestrator left to time out. The check is made only after a request,
   and not after `END_TESTCASE`: a thread that dies after the last request goes unnoticed
   and the run is reported as a success.

Not disagreements, but worth knowing:

* A disabled port is drained once, when it is disabled. What the neighbour sends to it
  afterwards stays in the socket and is delivered when the link is enabled again, old vectors
  (with which `stp_link_flap` still converges) and FLOODs the user has already seen by
  another way alike. With such links `FloodExactlyOnce` is false (section 4).
* `connection.h` makes the node responsible for "re-attemptting sending until successful"; in
  fact `node_send` to a link either blocks until all is sent or ends the thread. Two nodes with
  full sockets between them block each other for good, and so does a node that goes on sending
  to a neighbour whose end is disabled. `keep_running` is not looked at meanwhile; the
  orchestrator's timeout is what ends the run.
* `message_queue_message_alloc` returns NULL not only when no block is free, as
  `message_queue.h` says, but also while another alloc is failing at the same moment and a
  block has just been freed. In a fragment this needs the pcap queue to be full when the
  sentinel is written.
* A sender that dies in the middle of a message is never noticed by a receiver that
  peeks: it finds too little, for ever (in the orchestrator the timeout of the round covers
  this). A blocking receiver at a single left-over byte spins.
* A timed-out send is not followed by closing the connection. The orchestrator goes on to
  `END_TESTCASE` or `SHUTDOWN` on it; the fragment then reads a message made of two and, as
  far as the canary tells, gives up. The canary may fail to tell: a `SEND_PACKET` with 1 to 11
  data bytes that is cut after its 8 header bytes, followed by `END_TESTCASE` and `SHUTDOWN`,
  is accepted. `END_TESTCASE`'s header lies where the payload fields should be, its error code
  0 is read as `data_length`, and its own canary is then where `validate` looks (bytes 16 to
  19), while the header's length has the receive end in the middle of `SHUTDOWN`.
* The orchestrator's pcap thread leaves its loop on `RECV_WAIT_TIMEOUT` and on `POLL_ERROR`, for
  all fragments. The first needs no fault: the 50 ms of the receive need only pass between the
  look at the whole message and the read. The message is not read any more, nothing more is
  counted, no fragment has failed, and the run may be a success. `FloodsCounted` excludes it
  (`Steady`), and `BrokenPcapSurfaces` claims nothing of it.

## 6. Plan

All modules, runs and proofs planned are done: every invariant that a passing run checks is
stated by a theorem of section 4, `FloodExactlyOnce` under hypotheses. What would be worth
adding are proofs that bound the time of the election (`NoSpuriousReelection`, `SteadyFloods`
for `Timely`), which need an invariant about the age of the root's last hello at every node.

## 7. Not modelled

Argument parsing (`external/argparse`), printing, the file names and fork/exec arguments of
`run_state_setup_ctrl`, socket options and the retry loop of `connect_with_timeout` (only its
outcome), the offsets of payload fields in `message.h`, the scripted order of the test cases'
calls (the models allow every order), the packet types the node ignores (LSA, DATA, PING), node
configuration the node does not read (mixing factor, random routing, link costs).
